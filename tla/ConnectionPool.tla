--------------------------- MODULE ConnectionPool ---------------------------
(***************************************************************************)
(* The connection pool of httpcore2 (AsyncConnectionPool), the per-origin  *)
(* connections it lends (AsyncHTTPConnection: connect once under a lock)   *)
(* and the life cycle of the protocol connection inside each of them       *)
(* (AsyncHTTP11Connection in full, AsyncHTTP2Connection at the level of    *)
(* its streams).                                                           *)
(*                                                                         *)
(* A task sends one request and closes its response; pc says where in      *)
(* handle_async_request, or in the closing of the response, the task is.   *)
(* An action is a stretch of code between two points at which another task *)
(* may run.  The assignment pass is one action per loop iteration: in      *)
(* async code it has no await, so nobody else runs; in threaded code it    *)
(* holds the pool lock, but the connections change state under it.         *)
(*                                                                         *)
(* A definition called a variant is not part of the specification: it is   *)
(* what a slip in the code would make of the definition that follows it,   *)
(* and serves to see that a property notices.                              *)
(***************************************************************************)
EXTENDS Integers, Sequences, FiniteSets, SequencesExt

CONSTANTS Requests,       \* tasks that send one request each
          Closers,        \* tasks that call aclose() on the pool
          Conns,          \* identities for connection objects
          Origins,
          None,           \* Python's None
          MaxConnections, \* max_connections
          KeepaliveLimit, \* max_keepalive_connections
          Http2,          \* http2=True (http1 stays True, origins are https)
          Expiry,         \* keepalive_expiry is not None
          MaxStreams,     \* the concurrent streams an HTTP/2 peer allows
          Threads,        \* the sync variant, one thread per task
          Checkpoints     \* taking a free lock is a cancellation point (trio)

ASSUME PoolAssumption ==
  /\ MaxConnections \in Nat
  /\ KeepaliveLimit \in Nat
  /\ MaxStreams \in Nat \ {0}
  /\ {Http2, Expiry, Threads, Checkpoints} \subseteq BOOLEAN
  /\ None \notin Conns \cup Origins \cup Requests
  /\ Requests \cap Closers = {}

Tasks == Requests \cup Closers

\* Surplus idle connections are measured against the smaller of the limits.
MaxKeepalive ==
  IF KeepaliveLimit < MaxConnections THEN KeepaliveLimit ELSE MaxConnections

VARIABLES
  requests,     \* pool._requests, in arrival order
  connections,  \* pool._connections
  link,         \* the state of every connection object
  pc,           \* where each task is
  running,      \* the task between two awaits, None if all are suspended
  conn,         \* pool_request.connection
  want,         \* the origin of each task's request
  closing,      \* the connections each task still has to close
  scan          \* the local variables of the assignment pass

vars == <<requests, connections, link, pc, running, conn, want, closing, scan>>

\* A connection object.  "none" is AsyncHTTPConnection._connection = None,
\* the other values of inner are the protocol connection's _state; open says
\* whether the connection owns an open socket.
Link == [home : Origins \cup {None},
         inner : {"none", "NEW", "ACTIVE", "IDLE", "CLOSED"},
         failed : BOOLEAN, proto : {"h11", "h2"}, expired : BOOLEAN,
         broken : {"no", "error", "goaway"}, ready : BOOLEAN, open : BOOLEAN]

NewLink(o) == [home |-> o, inner |-> "none", failed |-> FALSE,
               proto |-> "h11", expired |-> FALSE, broken |-> "no",
               ready |-> FALSE, open |-> FALSE]

\* The control points inside the pool lock.
Scanning == {"sweep", "trim", "snapshot", "match", "taken"}

Stages == Scanning \cup
  {"start", "assign", "closing", "waiting", "connect", "connecting", "send",
   "init", "preface", "permit", "active", "body", "leaving", "done"}

\* refs is request_connections, todo what is left of the list being walked,
\* kept what is retained of it, avail available_connections, next the position
\* in the queue and hit the position of the connection just handed out.
Scan == [refs : SUBSET Conns, todo : Seq(Conns), kept : Seq(Conns),
         surplus : Int, avail : Seq(Conns), budget : Int,
         next : Nat \ {0}, hit : Nat \ {0}]

EmptyScan == [refs |-> {}, todo |-> <<>>, kept |-> <<>>, surplus |-> 0,
              avail |-> <<>>, budget |-> 0, next |-> 1, hit |-> 1]

Init ==
  /\ requests = <<>>
  /\ connections = <<>>
  /\ link = [c \in Conns |-> NewLink(None)]
  /\ pc = [t \in Tasks |-> "start"]
  /\ running = None
  /\ conn = [r \in Requests |-> None]
  /\ want = [r \in Requests |-> None]
  /\ closing = [t \in Tasks |-> <<>>]
  /\ scan = EmptyScan

-----------------------------------------------------------------------------
(***************************************************************************)
(* What a connection answers to the pool.                                  *)
(***************************************************************************)
IsConnected(c) == link[c].inner \notin {"none", "CLOSED"}

\* While connecting, an http2 pool offers the connection to further requests
\* of its origin; then an HTTP/1.1 connection takes one request at a time
\* and an HTTP/2 connection any number, unless it is in an error state.
Available11(l) == l.inner = "IDLE"
Available2(l) == l.inner \in {"ACTIVE", "IDLE"} /\ l.broken = "no"

IsAvailable(c) ==
  \/ link[c].inner = "none" /\ Http2 /\ ~link[c].failed
  \/ link[c].proto = "h11" /\ Available11(link[c])
  \/ link[c].proto = "h2" /\ Available2(link[c])

HasExpired(c) ==
  IF link[c].inner = "none" THEN link[c].failed ELSE link[c].expired

IsIdle(c) ==
  IF link[c].inner = "none" THEN link[c].failed ELSE link[c].inner = "IDLE"

CanMultiplex(c) == link[c].inner # "none" /\ link[c].proto = "h2"

IsClosed(c) ==
  IF link[c].inner = "none" THEN link[c].failed ELSE link[c].inner = "CLOSED"

\* The tasks whose HTTP/2 stream is in _events.
Streams(c) == {r \in Requests : pc[r] \in {"active", "body"} /\ conn[r] = c}

\* Who holds AsyncHTTPConnection._request_lock.
Connecting(c) == {r \in Requests : pc[r] = "connecting" /\ conn[r] = c}

\* Who holds AsyncHTTP2Connection._init_lock.
Prefacing(c) == {r \in Requests : pc[r] = "preface" /\ conn[r] = c}

-----------------------------------------------------------------------------
(***************************************************************************)
(* Scheduling.                                                             *)
(***************************************************************************)
Locked == \E r \in Requests : pc[r] \in Scanning

\* Threads interleave freely; a coroutine keeps the event loop until it awaits.
MayRun(t) == Threads \/ running \in {None, t}

\* Suspended tasks can be cancelled, threads cannot.
Cancellable == ~Threads /\ running = None

\* Does r, about to continue at stage, keep the event loop?  The pass has no
\* await.  Taking a lock or a permit that is free suspends under trio only.
KeepsLoop(r, stage) ==
  \/ stage \in Scanning \cup {"assign"}
  \/ /\ ~Checkpoints
     /\ \/ stage = "send"
        \/ stage = "connect" /\ Connecting(conn[r]) = {}
        \/ stage = "init" /\ Prefacing(conn[r]) = {}
        \/ stage = "permit" /\ Cardinality(Streams(conn[r])) < MaxStreams

Goto(r, stage) ==
  /\ pc' = [pc EXCEPT ![r] = stage]
  /\ running' = IF ~Threads /\ KeepsLoop(r, stage) THEN r ELSE None

\* list.remove, for lists without duplicates.
Without(s, e) == RemoveAt(s, CHOOSE i \in DOMAIN s : s[i] = e)

-----------------------------------------------------------------------------
(***************************************************************************)
(* The assignment pass: _assign_requests_to_connections.                   *)
(***************************************************************************)
\* Start a pass over the queue q with the assignments a.
StartPass(r, q, a) ==
  /\ scan' = [EmptyScan EXCEPT !.refs = {a[p] : p \in ToSet(q)} \ {None},
                               !.todo = connections]
  /\ Goto(r, "sweep")

\* What the pass asks of a connection c.  A reserved connection is one that a
\* request in flight held when the pass began.
Reserved(c) == c \in scan.refs

Drops(c) == IsClosed(c) \/ ~(IsConnected(c) \/ Reserved(c))

\* Variant: keep-alive is checked on reserved connections as well.
ExpiresReserved(c) == ~Drops(c) /\ HasExpired(c)

Expires(c) == ~Drops(c) /\ ~Reserved(c) /\ HasExpired(c)

Surplus(c) == IsIdle(c) /\ ~Reserved(c)

\* Variant: reserved idle connections are offered again.
OffersReserved(c) == IsAvailable(c)

Offers(c) == IsAvailable(c) /\ ~(IsIdle(c) /\ Reserved(c) /\ ~CanMultiplex(c))

\* Variant: one connection more than max_connections.
MayCreateOneMore == scan.budget >= 0

MayCreate == scan.budget > 0

\* A request enters the queue; the pass follows under a second lock section.
Submit(r, o) ==
  /\ pc[r] = "start" /\ ~Locked /\ MayRun(r)
  /\ requests' = Append(requests, r)
  /\ want' = [want EXCEPT ![r] = o]
  /\ Goto(r, "assign")
  /\ UNCHANGED <<connections, link, conn, closing, scan>>

Assign(r) ==
  /\ pc[r] = "assign" /\ ~Locked /\ MayRun(r)
  /\ StartPass(r, requests, conn)
  /\ UNCHANGED <<requests, connections, link, conn, want, closing>>

\* One iteration of the clean-up loop.
Sweep(r) ==
  /\ pc[r] = "sweep" /\ scan.todo # <<>>
  /\ LET c == Head(scan.todo)
     IN /\ scan' = [scan EXCEPT
                      !.todo = Tail(@),
                      !.kept = IF Drops(c) \/ Expires(c) THEN @ ELSE Append(@, c)]
        /\ closing' = IF Expires(c) THEN [closing EXCEPT ![r] = Append(@, c)]
                                    ELSE closing
  /\ UNCHANGED <<requests, connections, link, pc, running, conn, want>>

\* The idle connections nobody reserved.  Variant: one too few is closed.
CountIdle == Cardinality({i \in DOMAIN scan.kept : Surplus(scan.kept[i])})
IdleSurplusOffByOne == CountIdle - MaxKeepalive - 1

IdleSurplus == CountIdle - MaxKeepalive

\* The clean-up loop is over: count the idle connections above the limit.
SweepDone(r) ==
  /\ pc[r] = "sweep" /\ scan.todo = <<>>
  /\ scan' = [scan EXCEPT !.todo = scan.kept, !.kept = <<>>,
                          !.surplus = IdleSurplus]
  /\ Goto(r, "trim")
  /\ UNCHANGED <<requests, connections, link, conn, want, closing>>

\* One iteration of the loop that closes the surplus.
Trim(r) ==
  /\ pc[r] = "trim" /\ scan.todo # <<>>
  /\ LET c == Head(scan.todo)
         close == scan.surplus > 0 /\ Surplus(c)
     IN /\ scan' = [scan EXCEPT
                      !.todo = Tail(@),
                      !.kept = IF close THEN @ ELSE Append(@, c),
                      !.surplus = IF close THEN @ - 1 ELSE @]
        /\ closing' = IF close THEN [closing EXCEPT ![r] = Append(@, c)]
                               ELSE closing
  /\ UNCHANGED <<requests, connections, link, pc, running, conn, want>>

\* The retained connections become the pool's.
TrimDone(r) ==
  /\ pc[r] = "trim" /\ scan.todo = <<>>
  /\ connections' = scan.kept
  /\ scan' = [scan EXCEPT !.todo = scan.kept, !.kept = <<>>, !.surplus = 0,
                          !.budget = MaxConnections - Len(scan.kept)]
  /\ Goto(r, "snapshot")
  /\ UNCHANGED <<requests, link, conn, want, closing>>

\* One element of the list of connections that may be reused.
Snapshot(r) ==
  /\ pc[r] = "snapshot" /\ scan.todo # <<>>
  /\ LET c == Head(scan.todo)
     IN scan' = [scan EXCEPT
                   !.todo = Tail(@),
                   !.avail = IF Offers(c) THEN Append(@, c) ELSE @]
  /\ UNCHANGED <<requests, connections, link, pc, running, conn, want, closing>>

SnapshotDone(r) ==
  /\ pc[r] = "snapshot" /\ scan.todo = <<>>
  /\ Goto(r, "match")
  /\ UNCHANGED <<requests, connections, link, conn, want, closing, scan>>

\* The assignment loop stops when nothing can be handed out any more.
MatchOver ==
  \/ scan.next > Len(requests)
  \/ scan.avail = <<>> /\ ~MayCreate

\* Variant: the queue is served from its end.
CandidateNewest == requests[Len(requests) + 1 - scan.next]

Candidate == requests[scan.next]

\* Positions of the available connections to the candidate's origin, and of
\* those that could be closed to make room.
Fitting == {i \in DOMAIN scan.avail : link[scan.avail[i]].home = want[Candidate]}
Evictable == {i \in DOMAIN scan.avail : IsIdle(scan.avail[i])}

First(S) == CHOOSE i \in S : \A j \in S : i <= j

Matching(r) == pc[r] = "match" /\ ~MatchOver

Skip(r) ==
  /\ Matching(r)
  /\ \/ conn[Candidate] # None
     \/ Fitting = {} /\ ~MayCreate /\ Evictable = {}
  /\ scan' = [scan EXCEPT !.next = @ + 1]
  /\ UNCHANGED <<requests, connections, link, pc, running, conn, want, closing>>

\* Case 1: hand out an existing connection ...
Reuse(r) ==
  /\ Matching(r) /\ conn[Candidate] = None /\ Fitting # {}
  /\ LET i == First(Fitting)
     IN /\ conn' = [conn EXCEPT ![Candidate] = scan.avail[i]]
        /\ scan' = [scan EXCEPT !.hit = i]
  /\ Goto(r, "taken")
  /\ UNCHANGED <<requests, connections, link, want, closing>>

\* ... and, if it is an idle HTTP/1.1 connection, take it off the list.
Taken(r) ==
  /\ pc[r] = "taken"
  /\ LET c == scan.avail[scan.hit]
         full == IsIdle(c) /\ ~CanMultiplex(c)
     IN scan' = [scan EXCEPT !.next = @ + 1, !.hit = 1,
                             !.avail = IF full THEN RemoveAt(@, scan.hit) ELSE @]
  /\ Goto(r, "match")
  /\ UNCHANGED <<requests, connections, link, conn, want, closing>>

\* Identities of objects nothing refers to any more.
Fresh == {c \in Conns : /\ ~link[c].open
                        /\ c \notin ToSet(connections)
                        /\ c \notin {conn[r] : r \in Requests}
                        /\ \A t \in Tasks : c \notin ToSet(closing[t])}

\* Case 2: create a connection within the budget.
Create(r) ==
  /\ Matching(r) /\ conn[Candidate] = None /\ Fitting = {} /\ MayCreate
  /\ \E c \in Fresh :
       /\ link' = [link EXCEPT ![c] = NewLink(want[Candidate])]
       /\ connections' = Append(connections, c)
       /\ conn' = [conn EXCEPT ![Candidate] = c]
  /\ scan' = [scan EXCEPT !.next = @ + 1, !.budget = @ - 1]
  /\ UNCHANGED <<requests, pc, running, want, closing>>

\* Case 3: close an idle connection and create one in its place.
Evict(r) ==
  /\ Matching(r) /\ conn[Candidate] = None
  /\ Fitting = {} /\ ~MayCreate /\ Evictable # {}
  /\ LET i == First(Evictable)
         old == scan.avail[i]
     IN /\ closing' = [closing EXCEPT ![r] = Append(@, old)]
        /\ scan' = [scan EXCEPT !.next = @ + 1, !.avail = RemoveAt(@, i)]
        /\ \E c \in Fresh :
             /\ link' = [link EXCEPT ![c] = NewLink(want[Candidate])]
             /\ connections' = Append(Without(connections, old), c)
             /\ conn' = [conn EXCEPT ![Candidate] = c]
  /\ UNCHANGED <<requests, pc, running, want>>

\* Where a task goes on once its closing list is empty.
Resume(r) ==
  IF r \notin ToSet(requests) THEN "done"
  ELSE IF conn[r] = None THEN "waiting" ELSE "connect"

MatchDone(r) ==
  /\ pc[r] = "match" /\ MatchOver
  /\ scan' = EmptyScan
  /\ Goto(r, IF closing[r] = <<>> THEN Resume(r) ELSE "closing")
  /\ UNCHANGED <<requests, connections, link, conn, want, closing>>

Pass(r) ==
  \/ Sweep(r) \/ SweepDone(r) \/ Trim(r) \/ TrimDone(r)
  \/ Snapshot(r) \/ SnapshotDone(r)
  \/ Skip(r) \/ Reuse(r) \/ Taken(r) \/ Create(r) \/ Evict(r) \/ MatchDone(r)

-----------------------------------------------------------------------------
(***************************************************************************)
(* Closing what a pass, or aclose(), took out of the pool.                 *)
(***************************************************************************)
\* Variant: the state is set, the socket stays open.
ShutStateOnly(l) == IF l.inner = "none" THEN l ELSE [l EXCEPT !.inner = "CLOSED"]

\* aclose() on a connection: nothing to do before it is connected.
Shut(l) == IF l.inner = "none" THEN l
           ELSE [l EXCEPT !.inner = "CLOSED", !.open = FALSE]

\* One connection of _close_connections, shielded from cancellation.
CloseNext(t) ==
  /\ pc[t] = "closing" /\ closing[t] # <<>> /\ MayRun(t)
  /\ link' = [link EXCEPT ![Head(closing[t])] = Shut(@)]
  /\ closing' = [closing EXCEPT ![t] = Tail(@)]
  /\ UNCHANGED <<requests, connections, pc, running, conn, want, scan>>

CloseDone(t) ==
  /\ pc[t] = "closing" /\ closing[t] = <<>> /\ MayRun(t)
  /\ Goto(t, IF t \in Closers THEN "done" ELSE Resume(t))
  /\ UNCHANGED <<requests, connections, link, conn, want, closing, scan>>

\* AsyncConnectionPool.aclose: the queue stays as it is.
AClose(k) ==
  /\ pc[k] = "start" /\ ~Locked /\ MayRun(k)
  /\ closing' = [closing EXCEPT ![k] = connections]
  /\ connections' = <<>>
  /\ Goto(k, "closing")
  /\ UNCHANGED <<requests, link, conn, want, scan>>

-----------------------------------------------------------------------------
(***************************************************************************)
(* One task: waiting for a connection, connecting it, sending on it.       *)
(***************************************************************************)
\* The acquired event is set.
Acquired(r) ==
  /\ pc[r] = "waiting" /\ conn[r] # None /\ MayRun(r)
  /\ Goto(r, "connect")
  /\ UNCHANGED <<requests, connections, link, conn, want, closing, scan>>

\* PoolTimeout or cancellation, also when it races with the assignment.
WaitFails(r) ==
  /\ pc[r] = "waiting" /\ MayRun(r)
  /\ Goto(r, "leaving")
  /\ UNCHANGED <<requests, connections, link, conn, want, closing, scan>>

\* The request lock is free: connect, or go on if somebody has.
LockConnect(r) ==
  /\ pc[r] = "connect" /\ Connecting(conn[r]) = {} /\ MayRun(r)
  /\ Goto(r, IF link[conn[r]].inner = "none" THEN "connecting" ELSE "send")
  /\ UNCHANGED <<requests, connections, link, conn, want, closing, scan>>

\* Cancelled on the way into the request lock.
LockCancelled(r) ==
  /\ pc[r] = "connect" /\ Cancellable
  /\ link' = [link EXCEPT ![conn[r]] = [@ EXCEPT !.failed = TRUE]]
  /\ Goto(r, "leaving")
  /\ UNCHANGED <<requests, connections, conn, want, closing, scan>>

\* The TLS handshake settles the protocol.  HTTP/2 connections start idle.
Connected(r) ==
  /\ pc[r] = "connecting" /\ MayRun(r)
  /\ \E p \in IF Http2 THEN {"h11", "h2"} ELSE {"h11"} :
       link' = [link EXCEPT ![conn[r]] =
                  [@ EXCEPT !.proto = p, !.open = TRUE,
                            !.inner = IF p = "h2" THEN "IDLE" ELSE "NEW"]]
  /\ Goto(r, "send")
  /\ UNCHANGED <<requests, connections, conn, want, closing, scan>>

\* All connection attempts failed, or the task was cancelled.
ConnectFails(r) ==
  /\ pc[r] = "connecting" /\ MayRun(r)
  /\ link' = [link EXCEPT ![conn[r]] = [@ EXCEPT !.failed = TRUE]]
  /\ Goto(r, "leaving")
  /\ UNCHANGED <<requests, connections, conn, want, closing, scan>>

\* Does the protocol connection accept a request?  Variant: a busy HTTP/1.1
\* connection does, too.
AcceptsBusy(l) == l.inner # "CLOSED"

Accepts(l) ==
  l.inner \in (IF l.proto = "h11" THEN {"NEW", "IDLE"} ELSE {"ACTIVE", "IDLE"})

\* The protocol connection accepts the request.
Begin(r) ==
  /\ pc[r] = "send" /\ Accepts(link[conn[r]]) /\ MayRun(r)
  /\ Goto(r, IF link[conn[r]].proto = "h11" THEN "active" ELSE "init")
  /\ link' = [link EXCEPT ![conn[r]] =
                [@ EXCEPT !.inner = "ACTIVE", !.expired = FALSE]]
  /\ UNCHANGED <<requests, connections, conn, want, closing, scan>>

\* Variant: the retry enters the queue a second time.
NotAvailableAgain(r) ==
  /\ pc[r] = "send" /\ ~Accepts(link[conn[r]]) /\ MayRun(r)
  /\ conn' = [conn EXCEPT ![r] = None]
  /\ Goto(r, "start")
  /\ UNCHANGED <<requests, connections, link, want, closing, scan>>

\* ConnectionNotAvailable: clear the assignment and try again.
NotAvailable(r) ==
  /\ pc[r] = "send" /\ ~Accepts(link[conn[r]]) /\ MayRun(r)
  /\ conn' = [conn EXCEPT ![r] = None]
  /\ Goto(r, "assign")
  /\ UNCHANGED <<requests, connections, link, want, closing, scan>>

\* Cancelled on the way into the state lock.
SendCancelled(r) ==
  /\ pc[r] = "send" /\ Cancellable
  /\ Goto(r, "leaving")
  /\ UNCHANGED <<requests, connections, link, conn, want, closing, scan>>

-----------------------------------------------------------------------------
(***************************************************************************)
(* HTTP/2: connection preface and stream admission.                        *)
(***************************************************************************)
InitLock(r) ==
  /\ pc[r] = "init" /\ Prefacing(conn[r]) = {} /\ MayRun(r)
  /\ Goto(r, IF link[conn[r]].ready THEN "permit" ELSE "preface")
  /\ UNCHANGED <<requests, connections, link, conn, want, closing, scan>>

SendInit(r) ==
  /\ pc[r] = "preface" /\ link[conn[r]].inner # "CLOSED" /\ MayRun(r)
  /\ link' = [link EXCEPT ![conn[r]] = [@ EXCEPT !.ready = TRUE]]
  /\ Goto(r, "permit")
  /\ UNCHANGED <<requests, connections, conn, want, closing, scan>>

\* The preface cannot be written: the connection is closed.
InitFails(r) ==
  /\ pc[r] = "preface" /\ MayRun(r)
  /\ link' = [link EXCEPT ![conn[r]] = Shut(@)]
  /\ Goto(r, "leaving")
  /\ UNCHANGED <<requests, connections, conn, want, closing, scan>>

\* A permit of the stream semaphore: the stream is opened.
Admit(r) ==
  /\ pc[r] = "permit" /\ Cardinality(Streams(conn[r])) < MaxStreams /\ MayRun(r)
  /\ Goto(r, "active")
  /\ UNCHANGED <<requests, connections, link, conn, want, closing, scan>>

\* Cancelled while waiting for the init lock or a permit: nothing is undone.
PermitCancelled(r) ==
  /\ pc[r] \in {"init", "permit"} /\ Cancellable
  /\ Goto(r, "leaving")
  /\ UNCHANGED <<requests, connections, link, conn, want, closing, scan>>

-----------------------------------------------------------------------------
(***************************************************************************)
(* The exchange and its end.                                               *)
(***************************************************************************)
\* _response_closed of an HTTP/1.1 connection: back to idle if both sides
\* are done, whatever state it was in (a closed socket counts as one the
\* server dropped); otherwise closed.
Closed11(l, complete) ==
  IF complete THEN [l EXCEPT !.inner = "IDLE", !.expired = ~l.open] ELSE Shut(l)

\* _response_closed of an HTTP/2 connection, others being its other streams.
Closed2(l, others) ==
  IF l.broken = "goaway" /\ others = {} THEN Shut(l)
  ELSE IF l.inner = "ACTIVE" /\ others = {} THEN [l EXCEPT !.inner = "IDLE"]
  ELSE l

ResponseClosed(r, l, complete) ==
  IF l.proto = "h11" THEN Closed11(l, complete)
  ELSE Closed2(l, Streams(conn[r]) \ {r})

\* Response headers arrived.  Those of an HTTP/2 stream may have been read
\* by another stream before the connection was closed.
Headers(r) ==
  /\ pc[r] = "active" /\ MayRun(r)
  /\ link[conn[r]].open \/ link[conn[r]].proto = "h2"
  /\ Goto(r, "body")
  /\ UNCHANGED <<requests, connections, link, conn, want, closing, scan>>

\* A network error on an HTTP/2 connection is remembered for all its streams.
Faults(l) ==
  IF l.proto = "h2" /\ l.broken = "no" THEN {"no", "error"} ELSE {l.broken}

\* Any error or cancellation up to the response headers.
ExchangeFails(r) ==
  /\ pc[r] = "active" /\ MayRun(r)
  /\ \E b \in Faults(link[conn[r]]) :
       link' = [link EXCEPT ![conn[r]] =
                  ResponseClosed(r, [@ EXCEPT !.broken = b], FALSE)]
  /\ Goto(r, "leaving")
  /\ UNCHANGED <<requests, connections, conn, want, closing, scan>>

\* A stream above the GOAWAY's last stream id is sent again elsewhere.
Refused(r) ==
  /\ pc[r] = "active" /\ link[conn[r]].broken = "goaway" /\ MayRun(r)
  /\ link' = [link EXCEPT ![conn[r]] = ResponseClosed(r, @, FALSE)]
  /\ conn' = [conn EXCEPT ![r] = None]
  /\ Goto(r, "assign")
  /\ UNCHANGED <<requests, connections, want, closing, scan>>

\* The caller closes the response, having read all of it, or gives up, or
\* meets an error in the body.
CloseResponse(r) ==
  /\ pc[r] = "body" /\ MayRun(r)
  /\ \/ link' = [link EXCEPT ![conn[r]] = ResponseClosed(r, @, TRUE)]
     \/ \E b \in Faults(link[conn[r]]) :
          link' = [link EXCEPT ![conn[r]] =
                     ResponseClosed(r, [@ EXCEPT !.broken = b], FALSE)]
  /\ Goto(r, "leaving")
  /\ UNCHANGED <<requests, connections, conn, want, closing, scan>>

\* Variant: no pass after the removal.
LeaveOnly(r) ==
  /\ pc[r] = "leaving" /\ ~Locked /\ MayRun(r)
  /\ requests' = Without(requests, r)
  /\ conn' = [conn EXCEPT ![r] = None]
  /\ Goto(r, "done")
  /\ UNCHANGED <<connections, link, want, closing, scan>>

\* The request leaves the queue, on success and on every failure, and the
\* pass runs in the same lock section.
Leave(r) ==
  /\ pc[r] = "leaving" /\ ~Locked /\ MayRun(r)
  /\ requests' = Without(requests, r)
  /\ conn' = [conn EXCEPT ![r] = None]
  /\ StartPass(r, requests', conn)
  /\ UNCHANGED <<connections, link, want, closing>>

-----------------------------------------------------------------------------
(***************************************************************************)
(* The network.                                                            *)
(***************************************************************************)
\* Keep-alive time runs out, or the server drops an idle HTTP/1.1 connection.
\* An HTTP/2 connection has a deadline only once a stream was closed on it.
Expire(c) ==
  /\ MayRun(None)
  /\ link[c].inner = "IDLE" /\ ~link[c].expired
  /\ link[c].proto = "h2" => Expiry /\ link[c].ready
  /\ link' = [link EXCEPT ![c] = [@ EXCEPT !.expired = TRUE]]
  /\ UNCHANGED <<requests, connections, pc, running, conn, want, closing, scan>>

\* Some stream reads a GOAWAY.
GoAway(c) ==
  /\ MayRun(None)
  /\ link[c].proto = "h2" /\ link[c].broken = "no" /\ Streams(c) # {}
  /\ link' = [link EXCEPT ![c] = [@ EXCEPT !.broken = "goaway"]]
  /\ UNCHANGED <<requests, connections, pc, running, conn, want, closing, scan>>

-----------------------------------------------------------------------------
\* What the scheduler and the network owe to a task: everything but
\* cancellation, timeouts and refusals.
Progress(t) ==
  \/ t \in Requests /\ ( \/ Assign(t) \/ Pass(t) \/ Acquired(t)
                         \/ LockConnect(t) \/ Connected(t) \/ ConnectFails(t)
                         \/ Begin(t) \/ NotAvailable(t)
                         \/ InitLock(t) \/ SendInit(t) \/ InitFails(t) \/ Admit(t)
                         \/ Headers(t) \/ ExchangeFails(t)
                         \/ CloseResponse(t) \/ Leave(t) )
  \/ CloseNext(t) \/ CloseDone(t)

Cancel(r) ==
  WaitFails(r) \/ LockCancelled(r) \/ SendCancelled(r) \/ PermitCancelled(r)

Finished == (\A t \in Tasks : pc[t] = "done") /\ UNCHANGED vars

Next ==
  \/ \E r \in Requests, o \in Origins : Submit(r, o)
  \/ \E k \in Closers : AClose(k)
  \/ \E t \in Tasks : Progress(t)
  \/ \E r \in Requests : Cancel(r) \/ Refused(r)
  \/ \E c \in Conns : Expire(c) \/ GoAway(c)
  \/ Finished

Spec == Init /\ [][Next]_vars

FairSpec == Spec /\ \A t \in Tasks : WF_vars(Progress(t))

-----------------------------------------------------------------------------
(***************************************************************************)
(* Properties.                                                             *)
(***************************************************************************)
\* Types; the queue holds a request once (list.remove takes out one entry).
TypeOK ==
  /\ requests \in Seq(Requests)
  /\ IsInjective(requests)
  /\ connections \in Seq(Conns)
  /\ link \in [Conns -> Link]
  /\ pc \in [Tasks -> Stages]
  /\ running \in Requests \cup {None}
  /\ conn \in [Requests -> Conns \cup {None}]
  /\ want \in [Requests -> Origins \cup {None}]
  /\ closing \in [Tasks -> Seq(Conns)]
  /\ scan \in Scan

InFlight == ToSet(requests)
Pooled == ToSet(connections)
Unreferenced(c) == \A r \in InFlight : conn[r] # c
Exchanging == {r \in Requests : pc[r] \in {"active", "body"}}
Passing == \E r \in Requests : pc[r] \in Scanning \cup {"assign"}

\* The pool never lists more than max_connections connections, in whatever
\* order creations, evictions and expirations happen.
PoolBounded == Len(connections) <= MaxConnections

\* No two exchanges ever run on one HTTP/1.1 connection.
ExclusiveUse ==
  \A r, s \in Exchanging :
    conn[r] = conn[s] /\ link[conn[r]].proto = "h11" => r = s

\* The pool closes no connection that is lent to a request.
NoCloseUnderRequest ==
  \A t \in Tasks : \A c \in ToSet(closing[t]) : Unreferenced(c)

\* Outside a pass, at most max_keepalive_connections idle connections that
\* nobody has borrowed stay in the pool.
KeepaliveBounded ==
  ~Passing => Cardinality({c \in Pooled : IsIdle(c) /\ Unreferenced(c)}) <= MaxKeepalive

\* A request waits only while the pool is full of connections that are lent
\* out: every slot has a borrower whose leaving will run another pass.
NoLostSlot ==
  ~Passing =>
    \A q \in InFlight : conn[q] = None =>
      /\ Len(connections) = MaxConnections
      /\ \A c \in Pooled : ~Unreferenced(c)

\* An open socket is the pool's, on its way to be closed, or lent out.
NoOrphanSocket ==
  \A c \in Conns : link[c].open =>
    \/ c \in Pooled \/ c \in ToSet(scan.todo) \cup ToSet(scan.kept)
    \/ \E t \in Tasks : c \in ToSet(closing[t])
    \/ ~Unreferenced(c)

\* At most max_connections connections carry exchanges at the same time.
ConcurrencyBounded ==
  Cardinality({conn[r] : r \in Exchanging}) <= MaxConnections

\* Requests to one origin get their connections in arrival order.
FirstComeFirstServed ==
  [][\A i, j \in DOMAIN requests :
       LET p == requests[i]
           q == requests[j]
       IN i < j /\ want[p] = want[q] /\ conn[p] = None
          /\ conn[q] = None /\ conn'[q] # None => conn'[p] # None]_vars

\* A queued request is assigned a connection, unless it gives up.
Served ==
  \A r \in Requests :
    pc[r] = "waiting" /\ conn[r] = None ~> pc[r] # "waiting" \/ conn[r] # None

\* The pool implements the promise of LeasePool: a connection is dead once it
\* answers that it is closed.
Leases == INSTANCE LeasePool WITH
            Limit <- MaxConnections, pool <- Pooled, lease <- conn,
            dead <- {c \in Conns : IsClosed(c)}

\* For one-request connections in async code, every step of the pool is a step
\* of the abstract pool of leases or leaves it unchanged.
ImplementsLeasePool == Leases!Spec

=============================================================================
