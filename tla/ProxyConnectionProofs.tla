----------------------- MODULE ProxyConnectionProofs -----------------------
(***************************************************************************)
(* Proofs about ProxyConnection: for any number of requests, a request is  *)
(* written only to the peer it is meant for, an entry of the pool that     *)
(* carries no request can be used or dropped, and a socket that is left    *)
(* open is one of the known cases.                                         *)
(***************************************************************************)
EXTENDS ProxyConnection, TLAPS

Stages == Underway \cup {"queued", "done", "failed"}
Exchanging == {"sent", "answered"}

\* Who is at the other end when requests may be written.
Target == IF Secure THEN "tls" ELSE IF kind = "socks" THEN "remote" ELSE "proxy"

-----------------------------------------------------------------------------
(***************************************************************************)
(* The inductive invariant.                                                *)
(***************************************************************************)
Shape ==
  /\ kind \in {"forward", "tunnel", "socks"}
  /\ runtime \in {"threads", "asyncio", "trio"}
  /\ {connected, failed, h2, broken, pooled} \subseteq BOOLEAN
  /\ kind # "tunnel" => connected = FALSE
  /\ link \in {"none", "new", "active", "idle", "closed"}
  /\ sock \in {"none", "open", "closed"}
  /\ reach \in {Nobody, "proxy", "remote", "tls", "tls proxy"}
  /\ stage \in [Requests -> Stages]

\* The lock is held by the one request that is in the handshake.
LockInv == \A r \in Requests : stage[r] \in Handshakes <=> lock = r

\* What has been reached at each point of the handshake, and who may send.
HandshakeInv ==
  \A r \in Requests :
    /\ stage[r] \in Handshakes => NeedsHandshake
    /\ stage[r] = "dial" => link = "none"
    /\ stage[r] = "connect" => kind = "tunnel" /\ link # "none"
    /\ stage[r] = "ask" => kind = "tunnel" /\ link = "active"
    /\ stage[r] \in {"greet", "login", "command"} => kind = "socks" /\ link = "none"
    /\ stage[r] = "tls" =>
         /\ reach = "remote"
         /\ \/ kind = "tunnel" /\ link = "active"
            \/ kind = "socks" /\ link = "none"
    /\ stage[r] \in Exchanging \cup {"send"} => ~NeedsHandshake

ReachInv == ~NeedsHandshake => reach = Target

\* A tunnel that stands, one that does not yet, and one whose TLS failed.
TunnelInv ==
  /\ connected => link # "none"
  /\ h2 => ~NeedsHandshake
  /\ kind = "tunnel" /\ ~connected => link # "idle"
  /\ "half tunnel" \in mishaps =>
       /\ kind = "tunnel" /\ ~connected /\ link = "active"
       /\ sock = "open" => "unclosed" \in mishaps
       /\ \A r \in Requests : stage[r] \notin {"ask", "tls"}

\* A link that is new or active is somebody's, or one of the known cases.
LinkInv ==
  /\ link = "new" => runtime = "trio" \/ \E r \in Requests : stage[r] \in {"send", "connect"}
  /\ link = "active" =>
       \/ "half tunnel" \in mishaps \/ h2
       \/ \E r \in Requests : stage[r] \in Exchanging \cup {"ask", "tls"}
  /\ \A r \in Requests : stage[r] \in Exchanging => link \in {"active", "idle", "closed"}

\* So is an open socket.
SocketInv ==
  /\ link = "closed" => sock = "closed"
  /\ link = "none" /\ sock = "open" =>
       \/ "unclosed" \in mishaps
       \/ \E r \in Requests : stage[r] \in {"greet", "login", "command", "tls"}
  /\ ~pooled /\ link \notin {"none", "closed"} => "revived" \in mishaps

IInv ==
  /\ Shape /\ LockInv /\ HandshakeInv /\ ReachInv
  /\ TunnelInv /\ LinkInv /\ SocketInv

-----------------------------------------------------------------------------
(***************************************************************************)
(* The initial states and each action.                                     *)
(***************************************************************************)
\* Nothing is connected and one request has been handed over.
LEMMA InitKeeps ==
  ASSUME Init
  PROVE  IInv
<1> USE DEF Init, Nobody
<1>1. PICK first \in Requests :
        stage = [r \in Requests |-> IF r = first THEN "start" ELSE "queued"]
  OBVIOUS
<1>2. Shape
  BY <1>1, ProxyAssumption DEF Shape, Stages, Underway
<1>3. LockInv
  BY <1>1, ProxyAssumption DEF LockInv, Handshakes
<1>4. NeedsHandshake
  BY DEF NeedsHandshake
<1>5. HandshakeInv /\ ReachInv
  BY <1>1, <1>4 DEF HandshakeInv, ReachInv, Handshakes, Exchanging
<1>6. TunnelInv
  BY DEF TunnelInv
<1>7. LinkInv
  BY <1>1 DEF LinkInv, Exchanging
<1>8. SocketInv
  BY <1>1 DEF SocketInv
<1> QED
  BY <1>2, <1>3, <1>5, <1>6, <1>7, <1>8 DEF IInv

\* A request that waits takes no part in the handshake yet.
LEMMA AssignKeeps ==
  ASSUME IInv, NEW r \in Requests, Assign(r)
  PROVE  IInv'
<1> USE DEF Assign, Go, fixed, network
<1>1. Shape'
  BY ProxyAssumption DEF IInv, Shape, Stages, Underway, Handshakes
<1>2. LockInv'
  BY ProxyAssumption DEF IInv, Shape, LockInv, Handshakes
<1>3. HandshakeInv'
  BY ProxyAssumption DEF IInv, Shape, LockInv, HandshakeInv, TunnelInv, Handshakes, NeedsHandshake, Exchanging
<1>4. ReachInv'
  BY ProxyAssumption DEF IInv, Shape, LockInv, HandshakeInv, ReachInv, Handshakes, NeedsHandshake, Target, Secure
<1>5. TunnelInv'
  BY ProxyAssumption DEF IInv, Shape, LockInv, HandshakeInv, TunnelInv, LinkInv, Handshakes, NeedsHandshake, Exchanging
<1>6. LinkInv'
  BY ProxyAssumption DEF IInv, Shape, LockInv, HandshakeInv, TunnelInv, LinkInv, Handshakes, NeedsHandshake, Exchanging
<1>7. SocketInv'
  BY ProxyAssumption DEF IInv, Shape, LockInv, HandshakeInv, TunnelInv, LinkInv, Handshakes, NeedsHandshake, Exchanging, SocketInv
<1> QED
  BY <1>1, <1>2, <1>3, <1>4, <1>5, <1>6, <1>7 DEF IInv

\* What the pool drops is closed, or has no link, or is idle and closed by the pool.
LEMMA DropKeeps ==
  ASSUME IInv, Drop
  PROVE  IInv'
<1> USE DEF Drop, MayDrop, Spare, Garbage, IsConnected, IsClosed, IsIdle, CloseLink, fixed
<1>1. Shape'
  BY ProxyAssumption DEF IInv, Shape, Stages, Underway, Handshakes
<1>2. LockInv'
  BY ProxyAssumption DEF IInv, Shape, LockInv, Handshakes
<1>3. HandshakeInv'
  BY ProxyAssumption DEF IInv, Shape, LockInv, HandshakeInv, TunnelInv, Handshakes, NeedsHandshake, Exchanging
<1>4. ReachInv'
  BY ProxyAssumption DEF IInv, Shape, LockInv, HandshakeInv, ReachInv, Handshakes, NeedsHandshake, Target, Secure
<1>5. TunnelInv'
  BY ProxyAssumption DEF IInv, Shape, LockInv, HandshakeInv, TunnelInv, LinkInv, Handshakes, NeedsHandshake, Exchanging
<1>6. LinkInv'
  BY ProxyAssumption DEF IInv, Shape, LockInv, HandshakeInv, TunnelInv, LinkInv, Handshakes, NeedsHandshake, Exchanging
<1>7. SocketInv'
  BY ProxyAssumption DEF IInv, Shape, LockInv, HandshakeInv, TunnelInv, LinkInv, Handshakes, NeedsHandshake, Exchanging, SocketInv
<1> QED
  BY <1>1, <1>2, <1>3, <1>4, <1>5, <1>6, <1>7 DEF IInv

\* Who gives up before it begins leaves the link to the others.
LEMMA GiveUpKeeps ==
  ASSUME IInv, NEW r \in Requests, GiveUp(r)
  PROVE  IInv'
<1> USE DEF GiveUp, Go, fixed, network
<1>1. Shape'
  BY ProxyAssumption DEF IInv, Shape, Stages, Underway, Handshakes
<1>2. LockInv'
  BY ProxyAssumption DEF IInv, Shape, LockInv, Handshakes
<1>3. HandshakeInv'
  BY ProxyAssumption DEF IInv, Shape, LockInv, HandshakeInv, TunnelInv, Handshakes, NeedsHandshake, Exchanging
<1>4. ReachInv'
  BY ProxyAssumption DEF IInv, Shape, LockInv, HandshakeInv, ReachInv, Handshakes, NeedsHandshake, Target, Secure
<1>5. TunnelInv'
  BY ProxyAssumption DEF IInv, Shape, LockInv, HandshakeInv, TunnelInv, LinkInv, Handshakes, NeedsHandshake, Exchanging
<1>6. LinkInv'
  BY ProxyAssumption DEF IInv, Shape, LockInv, HandshakeInv, TunnelInv, LinkInv, Handshakes, NeedsHandshake, Exchanging
<1>7. SocketInv'
  BY ProxyAssumption DEF IInv, Shape, LockInv, HandshakeInv, TunnelInv, LinkInv, Handshakes, NeedsHandshake, Exchanging, SocketInv
<1> QED
  BY <1>1, <1>2, <1>3, <1>4, <1>5, <1>6, <1>7 DEF IInv

\* The lock is taken only for a handshake that is needed; whoever finds none
\* to do goes on to send, or back to the queue.
LEMMA BeginKeeps ==
  ASSUME IInv, NEW r \in Requests, Begin(r)
  PROVE  IInv'
<1>1. /\ stage[r] = "start" /\ lock = Nobody
      /\ UNCHANGED <<runtime, kind, scheme, connected, failed, link, h2, broken, sock, reach, pooled, mishaps>>
  BY DEF Begin, fixed, network
<1>2. \/ NeedsHandshake /\ lock' = r /\ Go(r, "dial") /\ link = "none"
      \/ NeedsHandshake /\ lock' = r /\ Go(r, "connect") /\ link # "none"
      \/ ~NeedsHandshake /\ UNCHANGED lock /\ (Go(r, "send") \/ Go(r, "queued"))
  BY DEF Begin
<1>3. CASE NeedsHandshake /\ lock' = r /\ Go(r, "dial") /\ link = "none"
  <2> USE <1>1, <1>3 DEF Go, Nobody
  <2>1. Shape'
    BY ProxyAssumption DEF IInv, Shape, Stages, Underway, Handshakes
  <2>2. LockInv'
    BY ProxyAssumption DEF IInv, Shape, LockInv, Handshakes
  <2>3. HandshakeInv'
    BY ProxyAssumption DEF IInv, Shape, LockInv, HandshakeInv, TunnelInv, Handshakes, NeedsHandshake, Exchanging
  <2>4. ReachInv'
    BY ProxyAssumption DEF IInv, Shape, LockInv, HandshakeInv, ReachInv, Handshakes, NeedsHandshake, Target, Secure
  <2>5. TunnelInv'
    BY ProxyAssumption DEF IInv, Shape, LockInv, HandshakeInv, TunnelInv, LinkInv, Handshakes, NeedsHandshake, Exchanging
  <2>6. LinkInv'
    BY ProxyAssumption DEF IInv, Shape, LockInv, HandshakeInv, TunnelInv, LinkInv, Handshakes, NeedsHandshake, Exchanging
  <2>7. SocketInv'
    BY ProxyAssumption DEF IInv, Shape, LockInv, HandshakeInv, TunnelInv, LinkInv, Handshakes, NeedsHandshake, Exchanging, SocketInv
  <2> QED
    BY <2>1, <2>2, <2>3, <2>4, <2>5, <2>6, <2>7 DEF IInv
<1>4. CASE NeedsHandshake /\ lock' = r /\ Go(r, "connect") /\ link # "none"
  <2> USE <1>1, <1>4 DEF Go, Nobody
  <2>1. Shape'
    BY ProxyAssumption DEF IInv, Shape, Stages, Underway, Handshakes
  <2>2. LockInv'
    BY ProxyAssumption DEF IInv, Shape, LockInv, Handshakes
  <2>3. HandshakeInv'
    BY ProxyAssumption DEF IInv, Shape, LockInv, HandshakeInv, TunnelInv, Handshakes, NeedsHandshake, Exchanging
  <2>4. ReachInv'
    BY ProxyAssumption DEF IInv, Shape, LockInv, HandshakeInv, ReachInv, Handshakes, NeedsHandshake, Target, Secure
  <2>5. TunnelInv'
    BY ProxyAssumption DEF IInv, Shape, LockInv, HandshakeInv, TunnelInv, LinkInv, Handshakes, NeedsHandshake, Exchanging
  <2>6. LinkInv'
    BY ProxyAssumption DEF IInv, Shape, LockInv, HandshakeInv, TunnelInv, LinkInv, Handshakes, NeedsHandshake, Exchanging
  <2>7. SocketInv'
    BY ProxyAssumption DEF IInv, Shape, LockInv, HandshakeInv, TunnelInv, LinkInv, Handshakes, NeedsHandshake, Exchanging, SocketInv
  <2> QED
    BY <2>1, <2>2, <2>3, <2>4, <2>5, <2>6, <2>7 DEF IInv
<1>5. CASE ~NeedsHandshake /\ UNCHANGED lock /\ (Go(r, "send") \/ Go(r, "queued"))
  <2> USE <1>1, <1>5 DEF Go, Nobody
  <2>1. Shape'
    BY ProxyAssumption DEF IInv, Shape, Stages, Underway, Handshakes
  <2>2. LockInv'
    BY ProxyAssumption DEF IInv, Shape, LockInv, Handshakes
  <2>3. HandshakeInv'
    BY ProxyAssumption DEF IInv, Shape, LockInv, HandshakeInv, TunnelInv, Handshakes, NeedsHandshake, Exchanging
  <2>4. ReachInv'
    BY ProxyAssumption DEF IInv, Shape, LockInv, HandshakeInv, ReachInv, Handshakes, NeedsHandshake, Target, Secure
  <2>5. TunnelInv'
    BY ProxyAssumption DEF IInv, Shape, LockInv, HandshakeInv, TunnelInv, LinkInv, Handshakes, NeedsHandshake, Exchanging
  <2>6. LinkInv'
    BY ProxyAssumption DEF IInv, Shape, LockInv, HandshakeInv, TunnelInv, LinkInv, Handshakes, NeedsHandshake, Exchanging
  <2>7. SocketInv'
    BY ProxyAssumption DEF IInv, Shape, LockInv, HandshakeInv, TunnelInv, LinkInv, Handshakes, NeedsHandshake, Exchanging, SocketInv
  <2> QED
    BY <2>1, <2>2, <2>3, <2>4, <2>5, <2>6, <2>7 DEF IInv
<1> QED
  BY <1>2, <1>3, <1>4, <1>5

\* The stream to the proxy; from here on it is the handshake's to account for.
LEMMA DialKeeps ==
  ASSUME IInv, NEW r \in Requests, Dial(r)
  PROVE  IInv'
<1> USE DEF Dial, Revive, Release, Go, Nobody, fixed
<1>1. Shape'
  BY ProxyAssumption DEF IInv, Shape, Stages, Underway, Handshakes
<1>2. LockInv'
  BY ProxyAssumption DEF IInv, Shape, LockInv, Handshakes
<1>3. HandshakeInv'
  BY ProxyAssumption DEF IInv, Shape, LockInv, HandshakeInv, TunnelInv, Handshakes, NeedsHandshake, Exchanging
<1>4. ReachInv'
  BY ProxyAssumption DEF IInv, Shape, LockInv, HandshakeInv, ReachInv, Handshakes, NeedsHandshake, Target, Secure
<1>5. TunnelInv'
  BY ProxyAssumption DEF IInv, Shape, LockInv, HandshakeInv, TunnelInv, LinkInv, Handshakes, NeedsHandshake, Exchanging
<1>6. LinkInv'
  BY ProxyAssumption DEF IInv, Shape, LockInv, HandshakeInv, TunnelInv, LinkInv, Handshakes, NeedsHandshake, Exchanging
<1>7. SocketInv'
  BY ProxyAssumption DEF IInv, Shape, LockInv, HandshakeInv, TunnelInv, LinkInv, Handshakes, NeedsHandshake, Exchanging, SocketInv
<1> QED
  BY <1>1, <1>2, <1>3, <1>4, <1>5, <1>6, <1>7 DEF IInv

\* A dial that fails changes the mark and the lock only.
LEMMA DialFailsKeeps ==
  ASSUME IInv, NEW r \in Requests, DialFails(r)
  PROVE  IInv'
<1> USE DEF DialFails, Errors, Fail, Release, Go, Nobody, fixed, network
<1>1. Shape'
  BY ProxyAssumption DEF IInv, Shape, Stages, Underway, Handshakes
<1>2. LockInv'
  BY ProxyAssumption DEF IInv, Shape, LockInv, Handshakes
<1>3. HandshakeInv'
  BY ProxyAssumption DEF IInv, Shape, LockInv, HandshakeInv, TunnelInv, Handshakes, NeedsHandshake, Exchanging
<1>4. ReachInv'
  BY ProxyAssumption DEF IInv, Shape, LockInv, HandshakeInv, ReachInv, Handshakes, NeedsHandshake, Target, Secure
<1>5. TunnelInv'
  BY ProxyAssumption DEF IInv, Shape, LockInv, HandshakeInv, TunnelInv, LinkInv, Handshakes, NeedsHandshake, Exchanging
<1>6. LinkInv'
  BY ProxyAssumption DEF IInv, Shape, LockInv, HandshakeInv, TunnelInv, LinkInv, Handshakes, NeedsHandshake, Exchanging
<1>7. SocketInv'
  BY ProxyAssumption DEF IInv, Shape, LockInv, HandshakeInv, TunnelInv, LinkInv, Handshakes, NeedsHandshake, Exchanging, SocketInv
<1> QED
  BY <1>1, <1>2, <1>3, <1>4, <1>5, <1>6, <1>7 DEF IInv

\* CONNECT is sent on a new link only.
LEMMA ConnectKeeps ==
  ASSUME IInv, NEW r \in Requests, Connect(r)
  PROVE  IInv'
<1> USE DEF Connect, TakesRequest, Release, Go, Nobody, fixed
<1>1. Shape'
  BY ProxyAssumption DEF IInv, Shape, Stages, Underway, Handshakes
<1>2. LockInv'
  BY ProxyAssumption DEF IInv, Shape, LockInv, Handshakes
<1>3. HandshakeInv'
  BY ProxyAssumption DEF IInv, Shape, LockInv, HandshakeInv, TunnelInv, Handshakes, NeedsHandshake, Exchanging
<1>4. ReachInv'
  BY ProxyAssumption DEF IInv, Shape, LockInv, HandshakeInv, ReachInv, Handshakes, NeedsHandshake, Target, Secure
<1>5. TunnelInv'
  BY ProxyAssumption DEF IInv, Shape, LockInv, HandshakeInv, TunnelInv, LinkInv, Handshakes, NeedsHandshake, Exchanging
<1>6. LinkInv'
  BY ProxyAssumption DEF IInv, Shape, LockInv, HandshakeInv, TunnelInv, LinkInv, Handshakes, NeedsHandshake, Exchanging
<1>7. SocketInv'
  BY ProxyAssumption DEF IInv, Shape, LockInv, HandshakeInv, TunnelInv, LinkInv, Handshakes, NeedsHandshake, Exchanging, SocketInv
<1> QED
  BY <1>1, <1>2, <1>3, <1>4, <1>5, <1>6, <1>7 DEF IInv

\* The link is left as it is, and this is trio.
LEMMA CancelledAtLinkKeeps ==
  ASSUME IInv, NEW r \in Requests, CancelledAtLink(r)
  PROVE  IInv'
<1> USE DEF CancelledAtLink, Go, Nobody, fixed, network
<1>1. Shape'
  BY ProxyAssumption DEF IInv, Shape, Stages, Underway, Handshakes
<1>2. LockInv'
  BY ProxyAssumption DEF IInv, Shape, LockInv, Handshakes
<1>3. HandshakeInv'
  BY ProxyAssumption DEF IInv, Shape, LockInv, HandshakeInv, TunnelInv, Handshakes, NeedsHandshake, Exchanging
<1>4. ReachInv'
  BY ProxyAssumption DEF IInv, Shape, LockInv, HandshakeInv, ReachInv, Handshakes, NeedsHandshake, Target, Secure
<1>5. TunnelInv'
  BY ProxyAssumption DEF IInv, Shape, LockInv, HandshakeInv, TunnelInv, LinkInv, Handshakes, NeedsHandshake, Exchanging
<1>6. LinkInv'
  BY ProxyAssumption DEF IInv, Shape, LockInv, HandshakeInv, TunnelInv, LinkInv, Handshakes, NeedsHandshake, Exchanging
<1>7. SocketInv'
  BY ProxyAssumption DEF IInv, Shape, LockInv, HandshakeInv, TunnelInv, LinkInv, Handshakes, NeedsHandshake, Exchanging, SocketInv
<1> QED
  BY <1>1, <1>2, <1>3, <1>4, <1>5, <1>6, <1>7 DEF IInv

\* An accepted CONNECT has reached the origin, a refused one closes the link.
LEMMA AskKeeps ==
  ASSUME IInv, NEW r \in Requests, Ask(r)
  PROVE  IInv'
<1>1. /\ stage[r] = "ask"
      /\ UNCHANGED <<runtime, kind, scheme, connected, failed, h2, broken, pooled, mishaps>>
  BY DEF Ask, fixed
<1>2. \/ reach' = "remote" /\ Go(r, "tls") /\ UNCHANGED <<link, sock, lock>>
      \/ reach' = reach /\ CloseLink /\ Fail(r)
  BY DEF Ask, Accepts
<1>3. CASE reach' = "remote" /\ Go(r, "tls") /\ UNCHANGED <<link, sock, lock>>
  <2> USE <1>1, <1>3 DEF Go
  <2>1. Shape'
    BY ProxyAssumption DEF IInv, Shape, Stages, Underway, Handshakes
  <2>2. LockInv'
    BY ProxyAssumption DEF IInv, Shape, LockInv, Handshakes
  <2>3. HandshakeInv'
    BY ProxyAssumption DEF IInv, Shape, LockInv, HandshakeInv, TunnelInv, Handshakes, NeedsHandshake, Exchanging
  <2>4. ReachInv'
    BY ProxyAssumption DEF IInv, Shape, LockInv, HandshakeInv, ReachInv, Handshakes, NeedsHandshake, Target, Secure
  <2>5. TunnelInv'
    BY ProxyAssumption DEF IInv, Shape, LockInv, HandshakeInv, TunnelInv, LinkInv, Handshakes, NeedsHandshake, Exchanging
  <2>6. LinkInv'
    BY ProxyAssumption DEF IInv, Shape, LockInv, HandshakeInv, TunnelInv, LinkInv, Handshakes, NeedsHandshake, Exchanging
  <2>7. SocketInv'
    BY ProxyAssumption DEF IInv, Shape, LockInv, HandshakeInv, TunnelInv, LinkInv, Handshakes, NeedsHandshake, Exchanging, SocketInv
  <2> QED
    BY <2>1, <2>2, <2>3, <2>4, <2>5, <2>6, <2>7 DEF IInv
<1>4. CASE reach' = reach /\ CloseLink /\ Fail(r)
  <2> USE <1>1, <1>4 DEF CloseLink, Fail, Release, Go, Nobody
  <2>1. Shape'
    BY ProxyAssumption DEF IInv, Shape, Stages, Underway, Handshakes
  <2>2. LockInv'
    BY ProxyAssumption DEF IInv, Shape, LockInv, Handshakes
  <2>3. HandshakeInv'
    BY ProxyAssumption DEF IInv, Shape, LockInv, HandshakeInv, TunnelInv, Handshakes, NeedsHandshake, Exchanging
  <2>4. ReachInv'
    BY ProxyAssumption DEF IInv, Shape, LockInv, HandshakeInv, ReachInv, Handshakes, NeedsHandshake, Target, Secure
  <2>5. TunnelInv'
    BY ProxyAssumption DEF IInv, Shape, LockInv, HandshakeInv, TunnelInv, LinkInv, Handshakes, NeedsHandshake, Exchanging
  <2>6. LinkInv'
    BY ProxyAssumption DEF IInv, Shape, LockInv, HandshakeInv, TunnelInv, LinkInv, Handshakes, NeedsHandshake, Exchanging
  <2>7. SocketInv'
    BY ProxyAssumption DEF IInv, Shape, LockInv, HandshakeInv, TunnelInv, LinkInv, Handshakes, NeedsHandshake, Exchanging, SocketInv
  <2> QED
    BY <2>1, <2>2, <2>3, <2>4, <2>5, <2>6, <2>7 DEF IInv
<1> QED
  BY <1>2, <1>3, <1>4

\* The last exchange with a SOCKS proxy reaches the origin.
LEMMA ExchangeKeeps ==
  ASSUME IInv, NEW r \in Requests, Exchange(r)
  PROVE  IInv'
<1> USE DEF Exchange, NextExchange, Go, fixed
<1>1. Shape'
  BY ProxyAssumption DEF IInv, Shape, Stages, Underway, Handshakes
<1>2. LockInv'
  BY ProxyAssumption DEF IInv, Shape, LockInv, Handshakes
<1>3. HandshakeInv'
  BY ProxyAssumption DEF IInv, Shape, LockInv, HandshakeInv, TunnelInv, Handshakes, NeedsHandshake, Exchanging
<1>4. ReachInv'
  BY ProxyAssumption DEF IInv, Shape, LockInv, HandshakeInv, ReachInv, Handshakes, NeedsHandshake, Target, Secure
<1>5. TunnelInv'
  BY ProxyAssumption DEF IInv, Shape, LockInv, HandshakeInv, TunnelInv, LinkInv, Handshakes, NeedsHandshake, Exchanging
<1>6. LinkInv'
  BY ProxyAssumption DEF IInv, Shape, LockInv, HandshakeInv, TunnelInv, LinkInv, Handshakes, NeedsHandshake, Exchanging
<1>7. SocketInv'
  BY ProxyAssumption DEF IInv, Shape, LockInv, HandshakeInv, TunnelInv, LinkInv, Handshakes, NeedsHandshake, Exchanging, SocketInv
<1> QED
  BY <1>1, <1>2, <1>3, <1>4, <1>5, <1>6, <1>7 DEF IInv

\* A SOCKS handshake that breaks off leaves its stream among the mishaps.
LEMMA ExchangeFailsKeeps ==
  ASSUME IInv, NEW r \in Requests, ExchangeFails(r)
  PROVE  IInv'
<1> USE DEF ExchangeFails, Errors, Fail, Release, Go, Nobody, fixed, network
<1>1. Shape'
  BY ProxyAssumption DEF IInv, Shape, Stages, Underway, Handshakes
<1>2. LockInv'
  BY ProxyAssumption DEF IInv, Shape, LockInv, Handshakes
<1>3. HandshakeInv'
  BY ProxyAssumption DEF IInv, Shape, LockInv, HandshakeInv, TunnelInv, Handshakes, NeedsHandshake, Exchanging
<1>4. ReachInv'
  BY ProxyAssumption DEF IInv, Shape, LockInv, HandshakeInv, ReachInv, Handshakes, NeedsHandshake, Target, Secure
<1>5. TunnelInv'
  BY ProxyAssumption DEF IInv, Shape, LockInv, HandshakeInv, TunnelInv, LinkInv, Handshakes, NeedsHandshake, Exchanging
<1>6. LinkInv'
  BY ProxyAssumption DEF IInv, Shape, LockInv, HandshakeInv, TunnelInv, LinkInv, Handshakes, NeedsHandshake, Exchanging
<1>7. SocketInv'
  BY ProxyAssumption DEF IInv, Shape, LockInv, HandshakeInv, TunnelInv, LinkInv, Handshakes, NeedsHandshake, Exchanging, SocketInv
<1> QED
  BY <1>1, <1>2, <1>3, <1>4, <1>5, <1>6, <1>7 DEF IInv

\* The handshake ends with the origin at the other end, over TLS if it is secure.
LEMMA UpgradeKeeps ==
  ASSUME IInv, NEW r \in Requests, Upgrade(r)
  PROVE  IInv'
<1> USE DEF Upgrade, Revive, Release, Go, Nobody, fixed
<1>1. Shape'
  BY ProxyAssumption DEF IInv, Shape, Stages, Underway, Handshakes
<1>2. LockInv'
  BY ProxyAssumption DEF IInv, Shape, LockInv, Handshakes
<1>3. HandshakeInv'
  BY ProxyAssumption DEF IInv, Shape, LockInv, HandshakeInv, TunnelInv, Handshakes, NeedsHandshake, Exchanging
<1>4. ReachInv'
  BY ProxyAssumption DEF IInv, Shape, LockInv, HandshakeInv, ReachInv, Handshakes, NeedsHandshake, Target, Secure
<1>5. TunnelInv'
  BY ProxyAssumption DEF IInv, Shape, LockInv, HandshakeInv, TunnelInv, LinkInv, Handshakes, NeedsHandshake, Exchanging
<1>6. LinkInv'
  BY ProxyAssumption DEF IInv, Shape, LockInv, HandshakeInv, TunnelInv, LinkInv, Handshakes, NeedsHandshake, Exchanging
<1>7. SocketInv'
  BY ProxyAssumption DEF IInv, Shape, LockInv, HandshakeInv, TunnelInv, LinkInv, Handshakes, NeedsHandshake, Exchanging, SocketInv
<1> QED
  BY <1>1, <1>2, <1>3, <1>4, <1>5, <1>6, <1>7 DEF IInv

\* TLS that fails leaves a tunnel half open and no new link.
LEMMA UpgradeFailsKeeps ==
  ASSUME IInv, NEW r \in Requests, UpgradeFails(r)
  PROVE  IInv'
<1> USE DEF UpgradeFails, Errors, Fail, Release, Go, Nobody, fixed
<1>1. Shape'
  BY ProxyAssumption DEF IInv, Shape, Stages, Underway, Handshakes
<1>2. LockInv'
  BY ProxyAssumption DEF IInv, Shape, LockInv, Handshakes
<1>3. HandshakeInv'
  BY ProxyAssumption DEF IInv, Shape, LockInv, HandshakeInv, TunnelInv, Handshakes, NeedsHandshake, Exchanging
<1>4. ReachInv'
  BY ProxyAssumption DEF IInv, Shape, LockInv, HandshakeInv, ReachInv, Handshakes, NeedsHandshake, Target, Secure
<1>5. TunnelInv'
  <2>1. PICK error \in BOOLEAN :
          /\ sock' = IF error THEN "closed" ELSE sock
          /\ mishaps' = mishaps \cup (IF error THEN {} ELSE {"unclosed"})
                                \cup (IF kind = "tunnel" THEN {"half tunnel"} ELSE {})
    OBVIOUS
  <2>2. /\ UNCHANGED <<kind, connected, link, h2>>
        /\ stage[r] = "tls"
        /\ \A q \in Requests : stage'[q] \notin {"ask", "tls"}
    BY ProxyAssumption DEF IInv, Shape, LockInv, Handshakes
  <2>3. sock' = "open" => "unclosed" \in mishaps'
    BY <2>1
  <2>4. NeedsHandshake /\ ((kind = "tunnel" /\ link = "active") \/ kind = "socks")
    BY <2>2 DEF IInv, HandshakeInv, Handshakes
  <2>5. kind = "socks" => "half tunnel" \notin mishaps'
    BY <2>1 DEF IInv, TunnelInv
  <2> HIDE DEF UpgradeFails
  <2> QED
    BY <2>2, <2>3, <2>4, <2>5 DEF IInv, TunnelInv, NeedsHandshake
<1>6. LinkInv'
  BY ProxyAssumption DEF IInv, Shape, LockInv, HandshakeInv, TunnelInv, LinkInv, Handshakes, NeedsHandshake, Exchanging
<1>7. SocketInv'
  BY ProxyAssumption DEF IInv, Shape, LockInv, HandshakeInv, TunnelInv, LinkInv, Handshakes, NeedsHandshake, Exchanging, SocketInv
<1> QED
  BY <1>1, <1>2, <1>3, <1>4, <1>5, <1>6, <1>7 DEF IInv

\* Only a request past the handshake is written, and then the link is active.
LEMMA SendKeeps ==
  ASSUME IInv, NEW r \in Requests, Send(r)
  PROVE  IInv'
<1> USE DEF Send, TakesRequest, Go, fixed
<1>1. Shape'
  BY ProxyAssumption DEF IInv, Shape, Stages, Underway, Handshakes
<1>2. LockInv'
  BY ProxyAssumption DEF IInv, Shape, LockInv, Handshakes
<1>3. HandshakeInv'
  BY ProxyAssumption DEF IInv, Shape, LockInv, HandshakeInv, TunnelInv, Handshakes, NeedsHandshake, Exchanging
<1>4. ReachInv'
  BY ProxyAssumption DEF IInv, Shape, LockInv, HandshakeInv, ReachInv, Handshakes, NeedsHandshake, Target, Secure
<1>5. TunnelInv'
  BY ProxyAssumption DEF IInv, Shape, LockInv, HandshakeInv, TunnelInv, LinkInv, Handshakes, NeedsHandshake, Exchanging
<1>6. LinkInv'
  BY ProxyAssumption DEF IInv, Shape, LockInv, HandshakeInv, TunnelInv, LinkInv, Handshakes, NeedsHandshake, Exchanging
<1>7. SocketInv'
  BY ProxyAssumption DEF IInv, Shape, LockInv, HandshakeInv, TunnelInv, LinkInv, Handshakes, NeedsHandshake, Exchanging, SocketInv
<1> QED
  BY <1>1, <1>2, <1>3, <1>4, <1>5, <1>6, <1>7 DEF IInv

\* An exchange that fails closes the link or leaves an HTTP/2 one.
LEMMA RespondKeeps ==
  ASSUME IInv, NEW r \in Requests, Respond(r)
  PROVE  IInv'
<1> USE DEF Respond, ExchangeOver, CloseLink, Go, fixed
<1>1. Shape'
  BY ProxyAssumption DEF IInv, Shape, Stages, Underway, Handshakes
<1>2. LockInv'
  BY ProxyAssumption DEF IInv, Shape, LockInv, Handshakes
<1>3. HandshakeInv'
  BY ProxyAssumption DEF IInv, Shape, LockInv, HandshakeInv, TunnelInv, Handshakes, NeedsHandshake, Exchanging
<1>4. ReachInv'
  <2>1. ~NeedsHandshake
    BY DEF IInv, HandshakeInv, Exchanging
  <2>2. UNCHANGED <<kind, scheme, reach>>
    OBVIOUS
  <2> QED
    BY <2>1, <2>2 DEF IInv, ReachInv, Target, Secure
<1>5. TunnelInv'
  BY ProxyAssumption DEF IInv, Shape, LockInv, HandshakeInv, TunnelInv, LinkInv, Handshakes, NeedsHandshake, Exchanging
<1>6. LinkInv'
  BY ProxyAssumption DEF IInv, Shape, LockInv, HandshakeInv, TunnelInv, LinkInv, Handshakes, NeedsHandshake, Exchanging
<1>7. SocketInv'
  BY ProxyAssumption DEF IInv, Shape, LockInv, HandshakeInv, TunnelInv, LinkInv, Handshakes, NeedsHandshake, Exchanging, SocketInv
<1> QED
  BY <1>1, <1>2, <1>3, <1>4, <1>5, <1>6, <1>7 DEF IInv

\* A response that is closed leaves the link idle, closed or with HTTP/2 active.
LEMMA FinishKeeps ==
  ASSUME IInv, NEW r \in Requests, Finish(r)
  PROVE  IInv'
<1> USE DEF Finish, ExchangeOver, CloseLink, Go, fixed
<1>1. Shape'
  BY ProxyAssumption DEF IInv, Shape, Stages, Underway, Handshakes
<1>2. LockInv'
  BY ProxyAssumption DEF IInv, Shape, LockInv, Handshakes
<1>3. HandshakeInv'
  BY ProxyAssumption DEF IInv, Shape, LockInv, HandshakeInv, TunnelInv, Handshakes, NeedsHandshake, Exchanging
<1>4. ReachInv'
  <2>1. ~NeedsHandshake
    BY DEF IInv, HandshakeInv, Exchanging
  <2>2. UNCHANGED <<kind, scheme, reach>>
    OBVIOUS
  <2> QED
    BY <2>1, <2>2 DEF IInv, ReachInv, Target, Secure
<1>5. TunnelInv'
  BY ProxyAssumption DEF IInv, Shape, LockInv, HandshakeInv, TunnelInv, LinkInv, Handshakes, NeedsHandshake, Exchanging
<1>6. LinkInv'
  BY ProxyAssumption DEF IInv, Shape, LockInv, HandshakeInv, TunnelInv, LinkInv, Handshakes, NeedsHandshake, Exchanging
<1>7. SocketInv'
  BY ProxyAssumption DEF IInv, Shape, LockInv, HandshakeInv, TunnelInv, LinkInv, Handshakes, NeedsHandshake, Exchanging, SocketInv
<1> QED
  BY <1>1, <1>2, <1>3, <1>4, <1>5, <1>6, <1>7 DEF IInv

\* The invariant reads the variables of the specification only.
LEMMA StutterKeeps ==
  ASSUME IInv, UNCHANGED vars
  PROVE  IInv'
<1> USE DEF vars, fixed, network
<1>1. Shape' /\ LockInv'
  BY DEF IInv, Shape, LockInv
<1>2. HandshakeInv' /\ ReachInv'
  BY DEF IInv, HandshakeInv, ReachInv, NeedsHandshake, Target, Secure
<1>3. TunnelInv' /\ LinkInv'
  BY DEF IInv, TunnelInv, LinkInv, NeedsHandshake
<1>4. SocketInv'
  BY DEF IInv, SocketInv
<1> QED
  BY <1>1, <1>2, <1>3, <1>4 DEF IInv

\* Every step of the specification is one of the above.
LEMMA NextKeeps ==
  ASSUME IInv, [Next]_vars
  PROVE  IInv'
<1>1. CASE UNCHANGED vars
  BY <1>1, StutterKeeps
<1>2. CASE Drop
  BY <1>2, DropKeeps
<1>3. CASE \E r \in Requests : Assign(r) \/ Step(r) \/ GiveUp(r) \/ CancelledAtLink(r)
  <2>1. PICK r \in Requests : Assign(r) \/ Step(r) \/ GiveUp(r) \/ CancelledAtLink(r)
    BY <1>3
  <2>2. CASE Assign(r)
    BY <2>2, AssignKeeps
  <2>3. CASE GiveUp(r)
    BY <2>3, GiveUpKeeps
  <2>4. CASE CancelledAtLink(r)
    BY <2>4, CancelledAtLinkKeeps
  <2>5. CASE Begin(r)
    BY <2>5, BeginKeeps
  <2>6. CASE Dial(r)
    BY <2>6, DialKeeps
  <2>7. CASE DialFails(r)
    BY <2>7, DialFailsKeeps
  <2>8. CASE Connect(r)
    BY <2>8, ConnectKeeps
  <2>9. CASE Ask(r)
    BY <2>9, AskKeeps
  <2>10. CASE Exchange(r)
    BY <2>10, ExchangeKeeps
  <2>11. CASE ExchangeFails(r)
    BY <2>11, ExchangeFailsKeeps
  <2>12. CASE Upgrade(r)
    BY <2>12, UpgradeKeeps
  <2>13. CASE UpgradeFails(r)
    BY <2>13, UpgradeFailsKeeps
  <2>14. CASE Send(r)
    BY <2>14, SendKeeps
  <2>15. CASE Respond(r)
    BY <2>15, RespondKeeps
  <2>16. CASE Finish(r)
    BY <2>16, FinishKeeps
  <2> QED
    BY <2>1, <2>2, <2>3, <2>4, <2>5, <2>6, <2>7, <2>8, <2>9, <2>10,
       <2>11, <2>12, <2>13, <2>14, <2>15, <2>16 DEF Step
<1> QED
  BY <1>1, <1>2, <1>3 DEF Next

-----------------------------------------------------------------------------
(***************************************************************************)
(* The theorems.                                                           *)
(***************************************************************************)
\* The invariant holds in every reachable state.
LEMMA Inductive == Spec => []IInv
<1>1. Init => IInv
  BY InitKeeps
<1>2. IInv /\ [Next]_vars => IInv'
  BY NextKeeps
<1> QED
  BY <1>1, <1>2, PTL DEF Spec

\* No request is ever written to the proxy in the place of the origin, nor
\* outside TLS to an origin that wants it: whatever the handshakes of a
\* forwarding, tunnel or SOCKS connection did before, for any number of
\* requests, in threads and in tasks.
THEOREM OriginReached == Spec => []ReachesItsOrigin
<1>1. IInv => ReachesItsOrigin
  BY DEF IInv, HandshakeInv, ReachInv, Target, ReachesItsOrigin, Exchanging
<1> QED
  BY <1>1, Inductive, PTL

\* A connection in the pool's list that carries no request can be used or is
\* one that the next pass may drop, apart from the three known cases: a tunnel
\* whose TLS failed, a link left NEW on trio, and HTTP/2 left active with an
\* error.
THEOREM SlotIsRecoverable == Spec => []SlotRecoverable
<1>1. ASSUME IInv
      PROVE  SlotRecoverable
  <2>1. SUFFICES ASSUME pooled, On = {}
                 PROVE  \/ IsAvailable \/ MayDrop
                        \/ "half tunnel" \in mishaps
                        \/ runtime = "trio" /\ link = "new"
                        \/ broken /\ link = "active"
    BY DEF SlotRecoverable
  <2>2. \A r \in Requests : stage[r] \notin Underway
    BY <2>1 DEF On
  <2>3. CASE link \in {"none", "closed"}
    BY <2>1, <2>3 DEF MayDrop, Garbage, IsConnected
  <2>4. CASE link = "new"
    BY <1>1, <2>2, <2>4 DEF IInv, LinkInv, Underway, Handshakes
  <2>5. CASE link = "active"
    <3>1. "half tunnel" \in mishaps \/ h2
      BY <1>1, <2>2, <2>5 DEF IInv, LinkInv, Underway, Handshakes, Exchanging
    <3> QED
      BY <1>1, <2>5, <3>1 DEF IInv, Shape, IsAvailable
  <2>6. CASE link = "idle"
    BY <2>1, <2>6 DEF MayDrop, Spare, IsIdle
  <2> QED
    BY <1>1, <2>3, <2>4, <2>5, <2>6 DEF IInv, Shape
<1> QED
  BY <1>1, Inductive, PTL

\* A connection that the pool has let go of and that carries no request leaves
\* no open socket, but for a SOCKS or TLS handshake that broke off before the
\* stream was handed over and for a request that connected after that.
THEOREM SocketIsAccounted == Spec => []SocketAccounted
<1>1. IInv => SocketAccounted
  BY DEF IInv, Shape, SocketInv, SocketAccounted, On, Underway, Handshakes
<1> QED
  BY <1>1, Inductive, PTL

=============================================================================
