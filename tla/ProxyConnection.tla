-------------------------- MODULE ProxyConnection --------------------------
(***************************************************************************)
(* A connection that goes through a proxy, as the pool sees it: forwarding *)
(* over an HTTP proxy, a CONNECT tunnel with TLS inside it, or a SOCKS5    *)
(* handshake, with TLS when the origin asks for it.                        *)
(*                                                                         *)
(* The connection wraps another one, here a link with the states of an     *)
(* HTTP/1.1 or HTTP/2 connection (modules ConnectionPool and               *)
(* HTTP2Connection).  The pool hands requests to it and closes it; what    *)
(* answers, errors and cancellations come back is free.  Requests run as   *)
(* tasks, on asyncio or trio, or as threads: an action is what one of them *)
(* does between two awaits.  Threads are not cancelled; a task is where it *)
(* waits and, on trio, wherever it takes a lock, even a free one.          *)
(***************************************************************************)
EXTENDS Naturals, FiniteSets

CONSTANTS Requests,
          Kinds,    \* which of "forward", "tunnel" and "socks"
          Http2,    \* whether HTTP/2 may be negotiated (_http2, with _http1)
          Runtimes  \* which of "threads", "asyncio" and "trio"

ASSUME ProxyAssumption ==
  /\ Kinds \subseteq {"forward", "tunnel", "socks"}
  /\ Http2 \in BOOLEAN
  /\ Runtimes \subseteq {"threads", "asyncio", "trio"}
  /\ "nobody" \notin Requests

VARIABLES
  runtime,    \* what runs the requests
  kind,       \* which connection it is
  scheme,     \* of the remote origin
  connected,  \* the tunnel stands (_connected)
  failed,     \* connecting has failed (_connect_failed, of the link's opener)
  link,       \* the connection underneath, "none" before there is one
  h2,         \* it speaks HTTP/2
  broken,     \* it remembers an error and takes no more requests (HTTP/2)
  sock,       \* the network stream
  reach,      \* who is at its other end
  lock,       \* who holds the connect lock
  pooled,     \* the pool has the connection in its list
  stage,      \* how far each request is
  mishaps     \* what happened that the connection keeps no record of

network == <<link, h2, broken, sock, reach>>
fixed == <<runtime, kind, scheme>>
vars == <<fixed, connected, failed, network, lock, pooled, stage, mishaps>>

Nobody == "nobody"
Handshakes == {"dial", "connect", "ask", "greet", "login", "command", "tls"}
Underway == {"start", "send", "sent", "answered"} \cup Handshakes
On == {r \in Requests : stage[r] \in Underway}

\* create_connection: a SOCKS proxy serves any origin, an HTTP proxy forwards
\* http requests and tunnels the others.
Serves(k) ==
  CASE k = "forward" -> {"http"}
    [] k = "tunnel" -> {"https", "ws", "wss"}
    [] k = "socks" -> {"http", "https", "ws", "wss"}

\* Whether the origin is spoken to over TLS; inside a tunnel it always is.
Secure == kind = "tunnel" \/ (kind = "socks" /\ scheme \in {"https", "wss"})

\* The pool made the connection for one of the requests.
Init ==
  /\ runtime \in Runtimes
  /\ kind \in Kinds
  /\ scheme \in Serves(kind)
  /\ connected = FALSE /\ failed = FALSE
  /\ link = "none" /\ h2 = FALSE /\ broken = FALSE /\ sock = "none" /\ reach = Nobody
  /\ lock = Nobody /\ pooled = TRUE /\ mishaps = {}
  /\ \E first \in Requests :
       stage = [r \in Requests |-> IF r = first THEN "start" ELSE "queued"]

-----------------------------------------------------------------------------
(***************************************************************************)
(* What the pool asks the connection.                                      *)
(***************************************************************************)
SocksMayMultiplex == Http2 /\ scheme = "https" /\ ~failed

\* The link to the proxy itself is never expected to speak HTTP/2.
IsAvailable ==
  CASE link = "none" -> kind = "socks" /\ SocksMayMultiplex
    [] link # "none" /\ h2 -> link # "closed" /\ ~broken
    [] OTHER -> link = "idle"

IsConnected == link \notin {"none", "closed"}
IsClosed == IF link = "none" THEN failed ELSE link = "closed"
IsIdle == IF link = "none" THEN failed ELSE link = "idle"

\* Variant: the stream stays open.
CloseStateOnly == link' = "closed" /\ UNCHANGED sock

\* aclose() of the link.
CloseLink == link' = "closed" /\ sock' = "closed"

Go(r, point) == stage' = [stage EXCEPT ![r] = point]

\* Variant: the pool keeps what is not connected.
GarbageKept == FALSE

\* Nobody will connect it any more; the pool drops it without closing it.
Garbage == ~IsConnected /\ On = {}

\* What a pass offers to the requests that wait.  An idle connection is
\* reserved for the request it was assigned to: proxy connections do not
\* answer can_multiplex().  With threads the answer may be an earlier one,
\* since requests and handshakes go on during the pass.
Offered ==
  IF runtime = "threads"
  THEN IF link = "none" THEN kind = "socks" /\ Http2 /\ scheme = "https"
       ELSE kind # "tunnel" \/ connected
  ELSE IsAvailable /\ ~Garbage /\ ~(IsIdle /\ On # {})

\* The pool gives the connection to a request that waits.
Assign(r) ==
  /\ stage[r] = "queued" /\ pooled /\ Offered
  /\ Go(r, "start")
  /\ UNCHANGED <<fixed, connected, failed, network, lock, pooled, mishaps>>

\* Idle, it may have expired, be surplus, or make room for another; in
\* threads also when it has just been assigned.
Spare == IsIdle /\ (On = {} \/ runtime = "threads")

\* The pool lets go of what is closed, what nobody will connect, and what it
\* closes itself because it is idle.
MayDrop == pooled /\ (IsClosed \/ Garbage \/ Spare)

Drop ==
  /\ MayDrop
  /\ pooled' = FALSE
  /\ IF IsClosed \/ Garbage THEN UNCHANGED <<link, sock>> ELSE CloseLink
  /\ UNCHANGED <<fixed, connected, failed, h2, broken, reach, lock, stage, mishaps>>

-----------------------------------------------------------------------------
(***************************************************************************)
(* handle_async_request: under the connect lock.                           *)
(***************************************************************************)
\* Whether there is a handshake to run before the request can be sent.
NeedsHandshake ==
  CASE kind = "tunnel" -> ~connected
    [] OTHER -> link = "none"

\* Variant: the lock is kept.
KeepLock == lock' = lock

Release == lock' = Nobody

\* A tunnel whose link stands but has not been asked for begins there.
Begin(r) ==
  /\ stage[r] = "start" /\ lock = Nobody
  /\ IF NeedsHandshake
     THEN lock' = r /\ Go(r, IF link = "none" THEN "dial" ELSE "connect")
     ELSE /\ UNCHANGED lock
          /\ Go(r, IF kind = "socks" /\ ~IsAvailable THEN "queued" ELSE "send")
  /\ UNCHANGED <<fixed, connected, failed, network, pooled, mishaps>>

\* A request that has been given the connection, and perhaps waits for the
\* lock, gives up: it is cancelled, or its pool timeout was faster than its
\* task.  The opener of a link takes it for a failed connect.
GiveUp(r) ==
  /\ stage[r] = "start"
  /\ Go(r, "failed")
  /\ failed' \in {failed, failed \/ (kind = "forward" /\ runtime # "threads")}
  /\ UNCHANGED <<fixed, connected, network, lock, pooled, mishaps>>

\* Nothing keeps a request from connecting what the pool has let go of.
Revive == mishaps' = IF pooled THEN mishaps ELSE mishaps \cup {"revived"}

\* A TCP connection to the proxy (over TLS if the proxy is spoken to so), by
\* the link's opener or the handshake.
Dial(r) ==
  /\ stage[r] = "dial"
  /\ sock' = "open" /\ reach' = "proxy"
  /\ CASE kind = "forward" -> link' = "new" /\ Release /\ Go(r, "send")
       [] kind = "tunnel" -> link' = "new" /\ UNCHANGED lock /\ Go(r, "connect")
       [] kind = "socks" -> UNCHANGED <<link, lock>> /\ Go(r, "greet")
  /\ Revive
  /\ UNCHANGED <<fixed, connected, failed, h2, broken, pooled>>

\* The exception goes on to the request, and the lock is released.
Fail(r) == Release /\ Go(r, "failed")

\* Only a task can be cancelled.
Errors == IF runtime = "threads" THEN {TRUE} ELSE BOOLEAN

\* The opener of a link takes note of cancellations as well, the SOCKS
\* handshake only of errors.
DialFails(r) ==
  /\ stage[r] = "dial"
  /\ \E error \in Errors : failed' = (failed \/ error \/ kind # "socks")
  /\ Fail(r)
  /\ UNCHANGED <<fixed, connected, network, pooled, mishaps>>

TakesRequest == link \in {"new", "idle"} \/ (h2 /\ link = "active")

\* The CONNECT request on the link to the proxy; a link that is closed or left
\* in another exchange sends the request back to the pool's queue.
Connect(r) ==
  /\ stage[r] = "connect"
  /\ IF TakesRequest THEN link' = "active" /\ Go(r, "ask") /\ UNCHANGED lock
                     ELSE Release /\ Go(r, "queued") /\ UNCHANGED link
  /\ UNCHANGED <<fixed, connected, failed, h2, broken, sock, reach, pooled, mishaps>>

\* On trio a task is cancelled when it takes the link's own locks: the link
\* stays as it is, perhaps NEW with nobody on it.
CancelledAtLink(r) ==
  /\ runtime = "trio" /\ stage[r] \in {"connect", "send"}
  /\ Go(r, "failed")
  /\ lock' = IF stage[r] = "connect" THEN Nobody ELSE lock
  /\ failed' \in {failed, failed \/ kind # "socks"}
  /\ UNCHANGED <<fixed, connected, network, pooled, mishaps>>

\* Variant: any answer opens the tunnel.
AcceptsAny(status) == TRUE

Accepts(status) == status \in 200..299

\* The proxy answers CONNECT; a refusal closes the link, like an exchange
\* that breaks off.
Ask(r) ==
  /\ stage[r] = "ask"
  /\ \E status \in {200, 407} :
       /\ reach' = IF status = 200 THEN "remote" ELSE reach
       /\ IF Accepts(status)
          THEN Go(r, "tls") /\ UNCHANGED <<link, sock, lock>>
          ELSE CloseLink /\ Fail(r)
  /\ UNCHANGED <<fixed, connected, failed, h2, broken, pooled, mishaps>>

\* The SOCKS handshake: the authentication method, the credentials if the
\* method asks for them, the command.
NextExchange(point) ==
  CASE point = "greet" -> {"login", "command"}
    [] point = "login" -> {"command"}
    [] point = "command" -> {"tls"}

Exchange(r) ==
  /\ stage[r] \in {"greet", "login", "command"}
  /\ \E next \in NextExchange(stage[r]) : Go(r, next)
  /\ reach' = IF stage[r] = "command" THEN "remote" ELSE reach
  /\ UNCHANGED <<fixed, connected, failed, link, h2, broken, sock, lock, pooled, mishaps>>

\* An error or a cancellation; nobody closes the stream.
ExchangeFails(r) ==
  /\ stage[r] \in {"greet", "login", "command"}
  /\ \E error \in Errors : failed' = (failed \/ error)
  /\ mishaps' = mishaps \cup {"unclosed"}
  /\ Fail(r)
  /\ UNCHANGED <<fixed, connected, network, pooled>>

\* The link to the remote origin, over TLS unless a SOCKS proxy is asked for
\* a plain one.
Upgrade(r) ==
  /\ stage[r] = "tls"
  /\ reach' = IF ~Secure THEN reach ELSE IF reach = "remote" THEN "tls" ELSE "tls proxy"
  /\ h2' \in IF Http2 /\ Secure THEN BOOLEAN ELSE {FALSE}
  /\ link' = IF h2' THEN "idle" ELSE "new"
  /\ connected' = (kind = "tunnel")
  /\ Release /\ Go(r, "send")
  /\ Revive
  /\ UNCHANGED <<fixed, failed, broken, sock, pooled>>

\* start_tls() closes the stream when it fails with an error.  In a tunnel,
\* the link of the CONNECT request stays as it is.
UpgradeFails(r) ==
  /\ stage[r] = "tls" /\ Secure
  /\ \E error \in Errors :
       /\ sock' = IF error THEN "closed" ELSE sock
       /\ failed' = (failed \/ (kind = "socks" /\ error))
       /\ mishaps' = mishaps \cup (IF error THEN {} ELSE {"unclosed"})
                             \cup (IF kind = "tunnel" THEN {"half tunnel"} ELSE {})
  /\ Fail(r)
  /\ UNCHANGED <<fixed, connected, link, h2, broken, reach, pooled>>

-----------------------------------------------------------------------------
(***************************************************************************)
(* The request on the link.                                                *)
(***************************************************************************)
\* ConnectionNotAvailable sends the request back to the pool's queue.
Send(r) ==
  /\ stage[r] = "send"
  /\ IF TakesRequest
     THEN link' = "active" /\ Go(r, "sent")
     ELSE Go(r, "queued") /\ UNCHANGED link
  /\ UNCHANGED <<fixed, connected, failed, h2, broken, sock, reach, lock, pooled, mishaps>>

\* _response_closed(): an HTTP/1.1 link is idle if the exchange is complete,
\* else it is closed.  An HTTP/2 link is left idle or, for the sake of other
\* requests or because this one had no stream yet, active, and it may
\* remember an error.
ExchangeOver ==
  IF link = "closed" THEN UNCHANGED <<link, broken, sock>>
  ELSE \/ CloseLink /\ UNCHANGED broken
       \/ /\ link' \in IF h2 THEN {"idle", "active"} ELSE {"idle"}
          /\ broken' \in IF h2 THEN {broken, TRUE} ELSE {broken}
          /\ UNCHANGED sock

\* The request is written and the head of the response read; what is raised
\* on the way ends the exchange, and HTTP/2 may send the request back.
Respond(r) ==
  /\ stage[r] = "sent"
  /\ \/ Go(r, "answered") /\ UNCHANGED <<link, broken, sock>>
     \/ Go(r, "failed") /\ IF h2 THEN ExchangeOver ELSE CloseLink /\ UNCHANGED broken
     \/ h2 /\ Go(r, "queued") /\ ExchangeOver
  /\ UNCHANGED <<fixed, connected, failed, h2, reach, lock, pooled, mishaps>>

\* The response is closed.
Finish(r) ==
  /\ stage[r] = "answered"
  /\ Go(r, "done") /\ ExchangeOver
  /\ UNCHANGED <<fixed, connected, failed, h2, reach, lock, pooled, mishaps>>

-----------------------------------------------------------------------------
Step(r) ==
  \/ Begin(r) \/ Dial(r) \/ DialFails(r) \/ Connect(r) \/ Ask(r)
  \/ Exchange(r) \/ ExchangeFails(r) \/ Upgrade(r) \/ UpgradeFails(r)
  \/ Send(r) \/ Respond(r) \/ Finish(r)

Next ==
  \/ \E r \in Requests : Assign(r) \/ Step(r) \/ GiveUp(r) \/ CancelledAtLink(r)
  \/ Drop

Spec == Init /\ [][Next]_vars
FairSpec == Spec /\ \A r \in Requests : WF_vars(Step(r))

-----------------------------------------------------------------------------
(***************************************************************************)
(* Properties.                                                             *)
(***************************************************************************)
TypeOK ==
  /\ runtime \in Runtimes /\ kind \in Kinds /\ scheme \in Serves(kind)
  /\ {connected, failed, h2, broken, pooled} \subseteq BOOLEAN
  /\ link \in {"none", "new", "active", "idle", "closed"}
  /\ sock \in {"none", "open", "closed"}
  /\ reach \in {Nobody, "proxy", "remote", "tls", "tls proxy"}
  /\ lock \in Requests \cup {Nobody}
  /\ lock # Nobody <=> \E r \in Requests : stage[r] \in Handshakes
  /\ stage \in [Requests -> Underway \cup {"queued", "done", "failed"}]

\* A request is only written when the stream reaches who it is meant for: an
\* origin behind a tunnel and an https or wss origin behind a SOCKS proxy
\* through TLS, never the proxy in its place, whatever handshakes were
\* refused or broken off before.
ReachesItsOrigin ==
  \A r \in Requests : stage[r] \in {"sent", "answered"} =>
    reach = IF Secure THEN "tls" ELSE IF kind = "socks" THEN "remote" ELSE "proxy"

\* A connection of the pool that carries no request is one the pool can use
\* again or let go of, or it would hold its slot for good.  Three ways to
\* break this are known: TLS that fails inside a tunnel leaves the CONNECT
\* exchange open, on trio a cancellation may leave the link NEW, and HTTP/2
\* may be left ACTIVE with an error.
SlotRecoverable ==
  pooled /\ On = {} =>
    \/ IsAvailable \/ MayDrop
    \/ "half tunnel" \in mishaps
    \/ runtime = "trio" /\ link = "new"
    \/ broken /\ link = "active"

\* When the pool has let go of the connection and no request is on it, its
\* socket is closed.  Known exceptions: nobody closes the stream of a SOCKS
\* handshake that failed or of a TLS handshake that was cancelled; and a
\* request that waited for the lock may connect after the pool has let go.
SocketAccounted ==
  ~pooled /\ On = {} /\ sock = "open" =>
    mishaps \cap {"unclosed", "revived"} # {}

\* A request that has got the connection comes to an end or goes back to the
\* queue: no handshake that fails leaves the others waiting for the lock.
Ends == \A r \in Requests :
  stage[r] \in Underway ~> stage[r] \in {"queued", "done", "failed"}
=============================================================================
