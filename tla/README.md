# A TLA+ verification of httpx2 and httpcore2

The repository holds two Python packages: **httpcore2**, which owns sockets,
protocol state machines and the connection pool, and **httpx2**, the HTTP client
built on it. This project models their stateful parts in TLA+, checks the models
with TLC on small instances and proves the most important facts with TLAPS for
every instance. Paths below are relative to `src/src/`; `pool.py`,
`connection.py`, `http11.py` and `http2.py` stand for
`httpcore2/httpcore2/_async/connection_pool.py` and its neighbours. The files
in `_sync/` are generated from `_async/` and have the same line numbers; a
definition that stands for both variants is mapped in `PROJECT.json` to one of the
two files, to `_async/` where cancellation or an await matters.

## 1. The system

| component | state | operations | who talks to it |
|---|---|---|---|
| connection pool (`pool.py`) | `_requests` (queue), `_connections` | `handle_async_request`, the assignment pass, closing, `aclose`, `PoolByteStream.aclose` | every request task; calls the connections' questions in the pass |
| pool connection (`connection.py`) | `_connection`, `_connect_failed`, `_request_lock` | connect once, delegate, answer `is_*`, `aclose` | request tasks (through the lock) and the pool's pass |
| HTTP/1.1 connection (`http11.py`) | `_state` NEW/ACTIVE/IDLE/CLOSED, `_expire_at`, h11 state | one exchange at a time, `_response_closed`, `aclose`, keep-alive and disconnect probe | the request that holds it; the pass reads its state |
| HTTP/2 connection (`http2.py`) | `_state`, `_events` per stream, init/state/read/write locks, stream semaphore and deficit, saved errors, GOAWAY | many exchanges, preface, admission, event dispatch, flow control | all requests assigned to it share every lock |
| proxies (`http_proxy.py`, `socks_proxy.py`) | inner connection, `_connected` / `_connect_failed` | CONNECT tunnel, forwarding, SOCKS handshake | take the place of the pool connection |
| synchronization (`_synchronization.py`) | locks, events, semaphores, shields over asyncio, trio, threads | acquire, release, wait with timeout | everybody; decides where tasks interleave |
| backends (`_backends/`) | sockets | connect, read, write, close | pure I/O |
| client (`httpx2/_client.py`) | `_state` UNOPENED/OPENED/CLOSED, hooks, cookies, transports | `send`, authentication loop, redirect loop, `close` | user code; drives auth flows and transports |
| response, content (`_models.py`, `_content.py`) | `is_closed`, `is_stream_consumed`, one-shot bodies | read, iterate, close | client, user code |
| authentication (`_auth.py`) | digest challenge and nonce count, shared by requests | generator flow | the client's loop |
| decoders, SSE (`_decoders.py`, `_sse.py`) | partial lines and chunks | `decode`, `flush` | the response's iterators |
| websockets (`websockets/`) | event queue, close flag, pings in flight, protocol state | send, receive, close; background receiver and keep-alive ping | user thread and two background threads |
| transports (`_transports/`) | ASGI exchange state | `receive`, `send` | client and application |
| urls and mounts (`_urlparse.py`, `_urls.py`, `_utils.py`) | the client's base URL and table of mounts | parsing, merging, matching | the client, once per request and per redirect |
| configuration, command line | immutable values | parsing, formatting | everybody |

**What is hard about it.** A pooled request waits in a queue that only *other*
requests advance: whoever enters or leaves runs the assignment pass on behalf of
all. Between the pass that assigns a connection and the task that uses it lie
awaits, at each of which the task may be cancelled or time out, the keep-alive
time may pass, the server may hang up, or another pass may run. HTTP/2 adds
connections that are shared while they are still being made. In the threaded
variant the pass holds a lock, but the connections it inspects change under it.
None of this is within easy reach of a unit test. `PROJECT.json` lists every such
hazard at its line with the property that watches it.

**What makes each component right.** Pool: the limit on connections, exclusive
loans, nothing lent is closed, no slot and no socket is lost, requests are served
in order and eventually. Connections: one exchange at a time on HTTP/1.1, every
failure ends in a state the pool cleans up. HTTP/2: permits are conserved,
streams get their own events, GOAWAY loses nothing that can be retried. Proxies:
a failed handshake frees the slot. Client: every response is closed on every
error path, redirects are bounded, histories are complete. Websockets: closing
always ends both background threads, no event is delivered after the close.
Decoders: the output does not depend on how the input was cut into chunks. URLs
and mounts: a request goes to the host it was asked for, through the transport
the most specific pattern names.

## 2. Modules

| module | content |
|---|---|
| `ConnectionPool` | the pool, the connections it lends and the life cycle of the protocol connection in each; invariants, action and liveness properties |
| `LeasePool` | the abstract specification of a pool of one-request connections; `ConnectionPool` instantiates it with a refinement mapping |
| `HTTP2Connection` | one HTTP/2 connection and the requests on it: preface, admission, reading and writing, GOAWAY, closing |
| `ProxyConnection` | a forward, tunnel or SOCKS connection, its handshake under the connect lock, and what the pool sees of it |
| `Client` | `send()` with the authentication and redirect loops, the responses they open, digest state shared by requests, the client's life cycle |
| `ResponseBody` | reading one response: stream states, decoder, chunkers, line decoder, server-sent events, and the content that is kept |
| `WebSocketSession` | a session: user, receiver and keep-alive ping as threads or as tasks, the queue, the write lock, closing |
| `Urls`, `Mounts` | operators: parsing, validating, normalising, printing and joining URLs; patterns, priorities and the environment's proxies |
| `Routing` | extends both: the URL of a request from the base URL through its redirects, and the transport that serves it |
| `MCConnectionPool`, `MCHTTP2Connection` | symmetry for TLC |
| `MCClient`, `MCResponseBody`, `MCRouting` | the calls, answers, bodies, URLs and mounts that TLC runs with |
| `Positions` | the places of a sequence in their order (`Ascending`) and what stands at them (`Selected`), in place of the library's `SetToSortSeq` and `SelectSeq` |
| `SequenceLemmas` | facts about `Append`, `Front`, `Tail`, `RemoveAt` and `RemoveFirst`, also on lists without duplicates, about `FlattenSeq`, `FoldLeft`, `Ascending` and `Selected`; the least element of a set of naturals |
| `ConnectionPoolProofs` | the pool's inductive invariant and its theorems, for every kind of scheduling and protocol; then, for HTTP/1.1 in async code, who holds which connection, the refinement of `LeasePool`, the idle connections that are kept and the slots that are not lost |
| `HTTP2ConnectionProofs`, `ProxyConnectionProofs`, `ClientProofs` | the same for these components |
| `ResponseBodyProofs` | proofs about `ResponseBody`: the chunker, the line decoder and the event decoder under any cut, the limit per event, the content, closing |
| `RoutingProofs` | proofs about `Urls`, `Mounts` and `Routing`: what is left of a path, that URLs are what their text is read as, that NO_PROXY is honoured |
| `WebSocketProofs` | proofs about `WebSocketSession`: types, the order of the messages, what leaving the context leaves behind, nothing after the close frame |

The components meet at their interfaces: `ConnectionPool` sees of an HTTP/2
connection what `HTTP2Connection` makes of it in its own terms, and
`ProxyConnection` answers the same questions of the pool; `Client` opens and
closes responses, where an open one is a lease of the pool that is not returned;
`ResponseBody` is one such response; `Routing` decides which pool a request goes
to.

### How `ConnectionPool` corresponds to the code

The variables `requests` and `connections` are the pool's two lists; `conn[r]` is
`AsyncPoolRequest.connection`; `link[c]` is a connection object: `inner` is the
state of the protocol connection (`"none"` while `_connection is None`), `failed`
is `_connect_failed`, `proto` what was negotiated, `expired` the answer of the
keep-alive deadline and of the readability probe, `broken` a remembered network
error or GOAWAY, `ready` is `_sent_connection_init`, `open` whether a socket is
open. `scan` holds the local variables of the assignment pass, `closing[t]` the
list a task still has to close, and `pc[t]` the await the task is at.

An action is what runs between two points at which another task may run. The
pass is split into one action per loop iteration:
clean-up (`Sweep`), surplus (`Trim`), the list of available connections
(`Snapshot`), matching (`Skip`, `Reuse` and `Taken`, `Create`, `Evict`). In async
code this changes nothing: the pass has no await, and `MayRun` lets nobody else
run until the task suspends. In threaded code (`Threads`) other threads, who
need no pool lock to start or end an exchange, interleave with the
iterations.

* A request: `Submit`, `Assign` and the pass, `CloseNext`/`CloseDone`, `Acquired`
  or `WaitFails`, `LockConnect`, `Connected` or `ConnectFails`, `Begin` or
  `NotAvailable` (the retry loop of `pool.py:226-231`), for HTTP/2 `InitLock`,
  `SendInit`, `Admit`, then `Headers`, `CloseResponse` or `ExchangeFails`, and
  `Leave`, which stands both for the `except BaseException` of `pool.py:235-243`
  and for `PoolByteStream.aclose`: they make the same change.
* Cancellation is possible where async code awaits: `WaitFails`, `LockCancelled`,
  `SendCancelled`, `PermitCancelled`; during a connect or an exchange it is one
  of the failures `ConnectFails`, `ExchangeFails`. A shielded section and a thread
  cannot be cancelled.
* asyncio and trio differ in whether taking a *free* lock is a point at which the
  task may be suspended or cancelled (`anyio.Lock(fast_acquire=True)` against
  `trio.Lock`): the constant `Checkpoints`.
* The network: `Expire` (keep-alive time, server hangs up), `GoAway`.

Abstractions: connecting, with its retries and back-off, is one step that
succeeds or fails; the readability probe is part of `expired`; errors have no
kind; running out of HTTP/2 stream ids, a limit on streams that changes, and
flow control are left to `HTTP2Connection`; closing a socket does not raise; origins are https,
`http1` stays `True`, there is no proxy (see `ProxyConnection`); a GOAWAY is not noticed after a
remembered network error (the connection is unavailable either way). The
`_state_lock` of a protocol connection is
never held across a wait for somebody else, so it is not a lock in the model, but
with `Checkpoints` taking it is a point of cancellation. An identity in `Conns`
is used again when nothing in the pool, in a closing list or in a request
refers to it and its socket is closed.

`LeasePool` says the same without passes, queues or protocols: leases are taken
from free live connections or from new ones within the limit, possibly in place of
a free one, and given back; what leaves the list is free or dead. The mapping
(`Leases`) takes the entries of the pool, `conn` and the connections that
answer `is_closed()`; while the pass is in its clean-up loop the entries are those
kept so far and those left to look at (`Pooled`). It is a claim about one-request
connections in async code.

### How `HTTP2Connection` corresponds to the code

`ConnectionPool` sees of an HTTP/2 connection what the pool asks it; this module
models the connection itself, in more detail and without the pool. `limit`,
`deficit` and `permits` are `_max_streams`, `_max_streams_deficit` and the value of
`_max_streams_semaphore`; `events` is `_events`; `terminated` is the last stream id
of `_connection_terminated`; `failed` says which of `_read_exception` and
`_write_exception` are set. `pc[r]` is the await a request is at and `phase[r]` what
it does on its stream: send its body, wait for the response, read its body.

* Up to the stream (`http2.py:75-133`): `Accept`, `InitLock`, `SendInit`, `Drain`,
  `Acquire`, `Forfeit` (a permit that pays for a lowered limit), `Pick` or
  `Exhausted`. Between `Pick` and `SendHeaders` nothing is awaited, so nobody else
  runs, unless `Yields` (threads, or a trace callback that awaits).
* Writing: whoever holds the write lock sends what h2 has for *everybody* (`outbox`
  to `wire`); a failure is remembered, a cancellation is not.
* Reading: `AwaitEvent`, then under the read lock a second look (`Answered`), the
  saved GOAWAY and error, and the read. One read brings one frame: settings, an
  event of any stream, a window, GOAWAY.
* `CloseStream` is `_response_closed`: the permit, the event list and the state
  change together, under the state lock.

External are the h2 library (it numbers streams, counts the open ones and refuses
to send once the connection is closed) and the server, which answers in order,
may reset, may move its limit `MaxSettings` times, and says in a GOAWAY only of
streams it has not answered that it did not process them. Left out: the chunks
of a body and their acknowledgement (one event ends the body), keep-alive expiry,
requests without a Host header.

### How `ProxyConnection` corresponds to the code

`kind` is the class the pool's `create_connection` chose (`Serves` says for which
origins: an HTTP proxy forwards http and tunnels https, ws and wss, a SOCKS proxy serves
all four), `link` the state of the connection underneath, `broken` that an HTTP/2 link
remembers an error, `sock` and `reach` the socket and what stands at its other end, `lock` the
connect lock (`_connect_lock`, or the request lock of the forward connection's inner
connection), `failed` the mark that failed connecting leaves. `runtime` is what the requests
run as: threads, which are not cancelled, or tasks of asyncio or trio.

* The pool: `Assign` gives the connection to a request that waits, if a pass would offer it
  (`Offered`); with threads it may offer what was so a moment ago. `pooled` is whether the
  pool lists the connection, `Drop` that it lets go, for any of its reasons: `IsClosed`;
  `Garbage`, what is not connected and nobody is about to connect (`pool.py:281-285`);
  `Spare`, what is idle and has expired, is surplus, or makes room (`pool.py:286-306`,
  `pool.py:359-367`). The last is closed on the way, the others are not.
* The handshake: `Begin` (with `GiveUp` for a request that is cancelled or times out before),
  then `Dial`; for a tunnel `Connect`, `Ask`, `Upgrade`, for SOCKS `Exchange` up to three times
  and `Upgrade`. Inside a tunnel TLS is always spoken, behind a SOCKS proxy for https and wss
  (`Secure`).
* Every await may fail, and be cancelled if a task is at it (`DialFails`, `ExchangeFails`,
  `UpgradeFails`, the refusals in `Ask` and `Respond`), and what is made of it differs as in
  the code: `AsyncHTTPConnection` notes every `BaseException`, the SOCKS handshake only
  `Exception`, the tunnel nothing after CONNECT. Under trio a task may also be cancelled where
  it takes the link's own, free lock, between the connect and the first byte
  (`CancelledAtLink`): the link stays NEW.
* The request: `Send`, `Respond`, `Finish`; a link that takes no request sends it back to the
  pool's queue.

`mishaps` records the events for which the code keeps no state, so that the properties can
name their exceptions.

### How `Client` corresponds to the code

A sender is one `send()`; `stage` is its place in the nested loops of
`_send_handling_auth` and `_send_handling_redirects`. `responses[s]` lists the
responses it received with `is_closed`, whether the body was read, and the
history they carry; `history` and `authHistory` are the local variables of that name.
`original` is the request object the authentication flow holds, `request` the one
that is sent next: after a redirect they differ, and a digest retry goes back to
the first. `challenge` and `count` are the attributes of a `DigestAuth` that the
senders share; reading the count (`Sign`) and writing it (`Count`) are separate
steps, as are `TakeUp` and `Renew`. Stages without an await (`Busy`) keep the
event loop in `mode = "tasks"` and interleave in `"threads"`. Servers answer from
`Answers`: final, redirect to each kind of origin or to no URL, challenges that are
good, unsupported or malformed. Hooks, transports and body reading may raise at
every turn. `via` in a call is the way it was made: `request()` reads the response, `stream()`
and `sse()` leave that to the user, and `websocket()` wants the status 101 and closes any other
response itself (`UpgradeRefused`). A body is bytes; a form with files, which are rewound
before they are sent again; a generator, which refuses to be iterated twice; another iterator,
or a form with a file that cannot be rewound, which does not; or one of the wrong kind of
client. `sent` in a request is what the transport was given of it.

### How `ResponseBody` corresponds to the code

One response, its body cut by the network in any way (`Pull`), read by one of the
iterators (`mode`), which the user takes items from (`Take`), leaves (`Leave`), or
exhausts (`Exhausted`, `End`). `dec` is the state of the chunker, the line decoder or
the event decoder, `ready` what the generators have made and not yet yielded.
`FeedLines`, `FeedEvents` and `FeedChunks` are the `decode` methods and
the `Flush...` their `flush`; the bytes mode stands for `iter_text` too, whose chunker
cuts alike. A decompressor may hold back any part of what it could give
(`MayDecode`); a deflate body is tried with and without the zlib wrapper on the
first chunk, as the code does. In an asynchronous response (`awaits`) a
generator that the user abandons is closed by the event loop later (`Finalize`), unless
another one holds it with `aclosing`. The reference definitions (`Expected`,
`EventsOf`, `SplitLines`) look at the whole body at once.

### How `WebSocketSession` corresponds to the code

Three actors share the protocol state (`proto`), the stream, the queue and the
write lock. Each has an agenda, a stack of stages, because `close()` is called by all of
them: `Close` pushes its stages onto the caller's. In `"threads"` every access to
shared state is a step, in `"tasks"` a step ends at an await, the lock is fair
and leaving cancels the background group. `Emit` is `connection.send()` of wsproto,
which changes the protocol state *before* the bytes are written under the lock
(`Write`); the distance between the two is what the properties are about. The server
is free: fragments, final fragments, pings, pongs, a close frame, garbage, the end
of the stream. External are wsproto's state machine and the frames of the
server; payloads are left out, a message is the numbers of its frames. The typed receives
(`receive_text` and so on) are `receive()`; the exception they raise for a message of the other
type carries the message, which so counts as delivered. A read of the
background receiver, or a wait of the keep-alive ping, that is given up because the session
closes goes on in its executor (`_wait_until_closed`, `_api.py:592-601`) and its result is
discarded: the model ends it with the wait, and says nothing of the executor's workers.

### How `Urls`, `Mounts` and `Routing` correspond to the code

A URL's text is its scheme and the pieces between slashes; a piece is a name and
a port, so that reading `//` as the beginning of an authority is a matter of how
the pieces are read, as in `urlparse`. `Compose` validates and normalises
(`validate_path`, `normalize_path`, `normalize_port`), `Str` prints, `MergeUrl` and
`RedirectUrl` are the client's, the latter with both of its steps: a location without a host
gets the request's host, and if the result is still relative it is joined to the request's URL.
`Chosen` takes the first match of the patterns sorted by `Priority`, over the schemes http, https,
ws and wss and "all". `EnvironmentMounts` is `get_environment_proxies`, and `DictOf` the
`dict.update` that puts the user's mounts over it: an equal pattern keeps its place in the order
and gets the user's transport. An entry of NO_PROXY has a form in place of its characters: the
star; what is ignored (a name with a slash, what is no pattern); a name, a name with a dot before
it, an address (or localhost), a network; or, written with a scheme, the kind of host its
pattern has. Every form but the first two may have a scheme and a port as the code allows it
(`Entries`). Left out are percent-encoding, IDNA, user information, query and fragment, and
how the characters of an entry tell its form. `Resolve` (`urllib.parse.urljoin`) is external.

Definitions called *variants* are not part of the specification: each one is
what a plausible slip would make of the definition after it (a reserved
connection that is not exempt from the keep-alive check, a pass forgotten when
a request leaves, one connection too many), and stands next to it to show that
the property named for it in `PROJECT.json` notices.

## 3. Runs

| run | instance | checks |
|---|---|---|
| `pool_http1` | asyncio, HTTP/1.1, 3 requests, 2 origins, 2 slots, 1 kept alive | `NoCloseUnderRequest`, `KeepaliveBounded`, `NoLostSlot`, `NoOrphanSocket`, `ImplementsLeasePool` |
| `pool_threads` | threads, HTTP/1.1, 3 requests, 2 origins, 1 slot | `PoolBounded`, `ExclusiveUse` |
| `pool_http2` | trio, HTTP/2 or 1.1, 3 requests, 1 origin, 1 slot, none kept alive | `TypeOK`, `FirstComeFirstServed` |
| `pool_live` | asyncio, HTTP/1.1, 2 requests, 1 closer, 1 slot, fair | `Served` |
| `pool_ghost` | asyncio, HTTP/2, 1 slot | violates `ConcurrencyBounded` |
| `h2_streams` | 3 requests, 2 stream ids, 3 changes of the limit | `PermitsConserved`, `AdmissionBounded`, `NoNeedlessRead`, `StreamsDistinct`, `RetrySafe` |
| `h2_live` | trio, 2 requests, one with a body, fair | `Ends` |
| `proxy` | 3 requests, every kind of connection, threads, asyncio and trio, fair | `ReachesItsOrigin`, `SlotRecoverable`, `SocketAccounted`, `Ends` |
| `client` | tasks, 2 senders, 1 redirect, 2 challenges, an upgrade | `NoLeak`, `HistoryReadable`, `AuthorizationScoped`, `BodyWhole`, `RequestsBounded`, `NonceCountsFresh`, `StaysClosed` |
| `body` | every body of up to 4 characters, some longer; chunks of 2; events of up to 2 | `CutsDoNotMatter`, `LimitPerEvent`, `ContentWhole`, `ReleasedAtEnd` |
| `websocket` | threads and tasks, queue of 1, messages of up to 2 frames, 3 events, fair | `DeliveredInOrder`, `LeftClean`, `NothingAfterClose`, `ExitEnds`, `ReceiveAnsweredInTasks` |
| `routing` | 3 base URLs, paths of up to 3 pieces, every pair of mounts; environments: 2 sets of proxies, NO_PROXY in every form, with and without the user's mounts | `Canonical`, `PathResolved`, `MostSpecificMount`, `NoProxyHonoured` |

**Bounds.** With one slot, three requests are one that holds the connection and
two that wait, so that order matters and a request that gives up has somebody
behind it; with two slots they are two that hold connections and one that waits.
Two origins make eviction (case 3 of the pass) happen, two slots
with one kept alive make surplus and budget differ. There are enough connection
identities for `Fresh` never to be empty, four or, with one slot and one origin, three: a
connection is referred to by the pool, a closing list or a request, and a run that ran
out of identities would deadlock, which TLC looks for. One stream per HTTP/2 connection
makes requests queue for a permit; a larger limit only removes waiting. Symmetry
of requests, connections and origins is used for safety, not for `pool_live`.

For HTTP/2, a limit of 1 or 2 and three changes let it rise from its initial 1,
drop below the streams in use, and rise again before they are closed, so that
the deficit is made and paid in every way the code has. Two stream ids for three
requests make the connection run out of them; a third request always waits while
two streams run. `h2_streams` has no request with a body, so no window;
in `h2_live` the server's window is closed at first. Deadlock is looked for in both.

Two senders are enough for everything a `Client` shares: each shared value is
written by one and used by the other; one redirect and two challenges make the
histories mix redirects with retries, reach the limit and reset the nonce count
under the other sender. Three requests on a proxy connection are one in the
handshake, one waiting for the lock and one that the pool may still send; of the initial
states each picks one kind of connection, one origin and one runtime. A websocket
queue of one event is full as soon as the receiver is ahead by two; `MaxEvents` lets a
message in two fragments, a ping and a close frame meet in every order. Bodies of
four characters hold every pair of line ends with and without content around them
and every cut between; the longer ones have two events and an id that persists. Paths
of three pieces let `..` meet a name, the root and an empty piece. NO_PROXY has one entry of
every form, with a scheme or a port where they make a difference, or two that meet; the user's
mounts over an environment include one with the proxy's own pattern.
Senders stop, bodies end and a URL may admit no further text within the bound:
`client`, `body` and `routing` say `CHECK_DEADLOCK FALSE`, and so does `proxy`, where
all requests end. The bounds `MaxNonces`, `MaxEvents`, `MaxPath` and
`MaxSettings` are guards of the actions they cap. The threads of `Client` were
checked apart from the runs (`Modes = {"threads"}`, 8 million states): all of its
properties hold there that do not say `"tasks"`.

**Fairness.** `FairSpec` asks of each task that a step of its own that stays
possible is eventually taken. That is the event loop's (or the operating
system's) scheduling, plus two assumptions about the outside: a network call
returns or fails (timeouts are set), and the caller closes the response it was
given. `Submit`, cancellations, timeouts, expiry and GOAWAY are not fair. In
`HTTP2Connection` the same holds for a request's steps; a read returns or fails
(the read timeout), and what the server sends in it is not fair. In
`ProxyConnection` every step of a request's own is fair, on the same two assumptions, and the
pool's steps (`Assign`, `Drop`), giving up and cancellations are not; in
`WebSocketSession` every actor's own steps are, the server's are not: a blocked read
ends when the stream is closed, and a wait with a timeout may always time out.

**What the violation shows.** `connection.py:94-96` marks a connection as failed for
*any* exception inside the request lock, so a request cancelled while it merely waits
for the lock condemns the connection another request is making. The pool
forgets it, makes another, and both carry exchanges: more concurrent
connections than `max_connections`, and one that is not closed with the pool.

### What does not hold

The configurations and the wording of the properties tell apart what holds and
what does not. The following was met in the models; each item is a state that a model
reaches, or would reach with the constants named.

*Pool and connections.*
* HTTP/2, `NoLostSlot`: a connection with a remembered error is put back to idle
  (`http2.py:399-400`). It is not closed, so the clean-up keeps it; not available, so
  it is not evicted. A request to another origin waits for a slot that nobody
  uses, until a keep-alive deadline passes *and* some other request happens to run a
  pass. Cancelling a request in the init lock or waiting for a permit (`http2.py:91-124`)
  leads to the same state, and so does, under trio, a cancellation
  between the connect and the first send of an HTTP/1.1 connection, which stays NEW.
* Threads: `assign_to_connection` wakes the waiting thread before `is_idle()` is asked
  (`pool.py:346-350`). If the thread has started its request by then, the connection
  stays on the list, is assigned to a second request, and may later in the pass be
  evicted under it, although `httpcore2/docs/connection-pools.md:118` calls the pool
  thread-safe. The window is a few bytecodes wide and the
  consequence a failed request: the protocol connection refuses overlapping exchanges,
  so `ExclusiveUse` holds, and is proved.
* Threads, `KeepaliveBounded`: a connection that becomes idle after the pass has counted it is
  kept over the limit until the next pass.
* Connections are closed after the lock section (`pool.py:371-375`), possibly while the one
  created in their place connects: for a moment there are more sockets than
  `max_connections`. No property bounds that excess.
* Threads, `FirstComeFirstServed`: a connection that has just been connected for HTTP/2 becomes
  idle while the pass is between two requests. It could not be evicted for the first and is for
  the second, although both want the same origin.
* Threads on one HTTP/2 connection: `_sync/http2.py:127` asks for the next stream id
  without a lock, and two threads may get the same one (`StreamsDistinct` with
  `Yields = TRUE`).
* A request that entered an HTTP/2 connection and waits for a permit when the last
  stream closes opens its own on a connection that calls itself idle.
* `NoCloseUnderRequest` and `ImplementsLeasePool` are claims about HTTP/1.1 in async
  code. `NoOrphanSocket` fails when `aclose()` runs during a connect, because
  `AsyncHTTPConnection.aclose` has nothing to close yet; the queue keeps its entries
  over `aclose()`, whatever the comment at `pool.py:379` says, and `pool_live` shows
  that they are still served.
* `AdmissionBounded` needs `Checkpoints = FALSE`: under trio a request that is
  cancelled while it takes the surplus permits away (`http2.py:114-115`) leaves them in
  the semaphore. A cancelled write (`http2.py:461`) loses the frames of other streams,
  which then wait for their read timeout; and a stream id that h2 refused may be picked
  by a second request before the first one has closed it, which is the one exception
  `PermitsConserved` makes.

*Proxies.* Three states keep a slot although nobody uses it, the exceptions in
`SlotRecoverable`: TLS that fails inside a tunnel leaves the CONNECT exchange ACTIVE
(`http_proxy.py:290-303`); under trio a cancellation between the connect and the first send
leaves the link NEW; and an HTTP/2 link may be ACTIVE with a remembered error. A cancelled SOCKS
handshake is not noted (`socks_proxy.py:278`), but the connection is not connected either, so
the next pass drops it as garbage. Nobody closes the TCP stream of a SOCKS handshake that failed
or of a TLS handshake that was cancelled, and a request that waited for the lock may connect, or
send, after the pool dropped the connection: the exceptions in `SocketAccounted`. A ws:// URL
through an HTTP proxy is tunnelled, and inside a tunnel TLS is always spoken
(`http_proxy.py:290-303`), as `Secure` says.

*Client.*
* Threads: a closed client may be opened again by a `send()` between its check and its
  assignment (`_client.py:964-967`), and two headers may carry the same nonce count
  (`_auth.py:261-263`).
* `max_redirects` counts the authentication loop's responses too
  (`_client.py:1869`), which is why `RequestsBounded` is twice the limit and one:
  with 0, digest authentication itself is one redirect too many. An
  authentication retry overwrites the history of the redirects before it
  (`_client.py:1851`), and after a redirect it goes to the original URL.
* A challenge with an unsupported algorithm becomes the last challenge before it is
  found to be so (`_auth.py:207`): every later request with that `DigestAuth` fails.
* An iterator that is no generator is sent again, empty, by 307, 308 and 401: the
  exception in `BodyWhole`.
* If closing one transport raises, the others stay open (`_client.py:2199`).

*Websockets.* `_wait_until_closed` leaves its executor's worker in the read (`_api.py:592-601`)
when the session closes; what that read still takes from the stream is lost. A thread in `receive()` without a timeout may wait for ever when another
actor closes the session (`ReceiveAnsweredInTasks` is about tasks); threads may write a
message behind the close frame (`NothingAfterClose` is about tasks).

*Bodies.* A deflate body without the zlib wrapper whose first chunk is one byte fails
(the exception in `CutsDoNotMatter`); an abandoned asynchronous iterator keeps its
connection until the event loop finalizes it (`ReleasedAtEnd`); a comment that has
not ended counts for the event limit, one that has ended does not (`LimitPerEvent`); a
body that ends with a lone carriage return after a field dispatches the event.

*URLs and mounts.* The star of a wildcard counts as a character in `priority`, so
`*example.com` always comes before the exact `example.com`, and a wildcard before any exact
host that is not longer than it (`StarTips`). `normalize_path` (`_urlparse.py:442-446`) cites RFC
3986, 5.2.4, and differs from it: after a final "." or ".." the RFC leaves a slash ("/a/b/.."
becomes "/a/") and the code does not ("/a"). The example in its docstring says the same as the
code, so no run refutes it; `PathResolved` states the RFC's algorithm and this one difference
(`FinalSlash`).

A pattern loses the default port of its scheme: `https://e:443` matches every port, and
`example.com:443` in NO_PROXY, having no scheme, never matches `https://example.com`. Not every
entry of NO_PROXY beats a proxy from the environment (`YieldsTo`): one without host and port
comes behind the proxy of the same scheme, except the proxy's very own pattern (`https://`
against HTTPS_PROXY), which takes its place; `all://` yields to the proxy of the URL's scheme,
`https://*` and `https://:443` to HTTPS_PROXY, `all://*` to ALL_PROXY as well.

A location with a scheme and no host loses its port. A location with a port and no host, such as `//:8000/x`, gives a redirected URL
without a host: `_client.py:502` puts in the request's host only where the location has a
scheme, and `URL.join`, whose docstring (`_urls.py:373`) says "Return an absolute URL", keeps the
authority it is given. That is the hypothesis `HostsNamed` of `UrlsCanonical`.

## 4. Proofs

`ConnectionPoolProofs` proves for every value of the constants that satisfies
`PoolAssumption` (in particular for async and threaded code, HTTP/1.1 and HTTP/2,
any number of requests, closers, connections and origins):

* `TypeCorrect`: `Spec => []TypeOK`
* `PoolIsBounded`: `Spec => []PoolBounded`
* `UseIsExclusive`: `Spec => []ExclusiveUse`
* `FirstComeIsServed`: `~Threads => (Spec => FirstComeFirstServed)`, an action property

*Why an inductive invariant is needed.* `PoolBounded` says nothing about a pass in
progress, where the bound lives in local variables. `PassInv` says that at most
one task is in the pass; that in the clean-up loops what is kept and what is left
to look at fit into the limit together; that in the matching loop budget and
list add up to the limit; and that the list of available connections has no
duplicates and is contained in the pool, which is what makes `Evict` replace one
entry by one. `QueueInv` says that a request is in the queue from its submission
until it leaves, which is what makes `list.remove` remove something. `PInv`, the
conjunction with `TypeOK`, is inductive.

`ExclusiveUse` is about protocol state and holds even where the pool lends a
connection twice, so it does not follow from the pool's invariants. `UseInv` adds: at
most one request connects a connection and none uses it before; an HTTP/1.1
exchange keeps its connection ACTIVE, or CLOSED once the pool closed it; the
stages of the preface and of admission occur on HTTP/2 only; two
exchanges on an HTTP/1.1 connection are one. The interesting case is
`Begin`: it is allowed in NEW or IDLE only, which by the invariant nobody's exchange
is in; and the response of a connection closed in the meantime may put it back to
IDLE only because it was the only exchange.

`FirstComeFirstServed` compares two requests that the pass may look at in different
iterations. `TurnInv` remembers the first: whoever was passed by without a connection still
finds no budget, nothing available to its origin and nothing to evict. Reusing, taking off the
list, creating and evicting only ever take away, provided that nobody else runs during the
pass (`RunInv`); that is the hypothesis `~Threads`.

Layout: one lemma per action or group of actions that disturb the same
conjuncts, then `PInvNext` and `UseNext`, which put them together, and the
temporal theorems. `SequenceLemmas` holds the facts about lists; they rest on the
theorems of the library.

`ProxyConnectionProofs` proves, from `ProxyAssumption` and for any number of requests:

* `OriginReached`: `Spec => []ReachesItsOrigin`
* `SlotIsRecoverable`: `Spec => []SlotRecoverable`
* `SocketIsAccounted`: `Spec => []SocketAccounted`

None of the three is inductive. `Shape` is what is always so of the variables together, the
`TypeOK` of the module in the form the proofs use. `ReachesItsOrigin` reads who is at the other end of the
stream, which the handshake establishes step by step: `LockInv` says that the requests in the
handshake are the one that holds the connect lock, `HandshakeInv` what has been reached at each
of its points and that whoever sends has none left to run, and `ReachInv` that then the
stream ends at the origin. `SlotRecoverable` needs somebody responsible for every state of the
link that the pool cannot use or drop (`LinkInv`), and `TunnelInv`, that a tunnel whose TLS
failed is never dialled again; what has no link at all is garbage once nobody is on it.
`SocketInv` says the same of open sockets. Their conjunction `IInv` is inductive; there is one
lemma per action (`...Keeps`), with one step per conjunct that the action can disturb.

`HTTP2ConnectionProofs` proves, from `HTTP2Assumption`, for any number of requests, streams
and changes of the limit:

* `TypeCorrect`: `Spec => []TypeOK`; in particular permits and deficit never fall below zero
* `NoReadInVain`: `Spec => []NoNeedlessRead`
* `RetryIsSafe`: `Spec => []RetrySafe`
* `StreamsAreDistinct`: `~Yields => (Spec => []StreamsDistinct)`
* `PermitsAreConserved`: `~Checkpoints => (Spec => []PermitsConserved)`
* `AdmissionIsBounded`: `~Checkpoints => (Spec => AdmissionBounded)`, an action property

The two hypotheses are the constants that tell how the code is scheduled, and section "What
does not hold" says what happens with the other value of each; the runs use the same values.
`PermitsConserved` adds up the free permits, those just granted and the streams that are open,
and is inductive only with `InitInv`: while a request initialises the connection nobody else
is admitted and no stream is open, so that the sum is right when `Drain` ends. `NoNeedlessRead` needs
that at most one request reads and that nobody reads after GOAWAY (`ReadInv`), `RetrySafe`
that the streams above the last stream id are never answered (`RetryInv`), and
`StreamsDistinct` that the one request between `Pick` and `SendHeaders` still has the next
id (`PickInv`).

The second part of `ConnectionPoolProofs` is under `OneByOne`: no
threads, HTTP/1.1 only, nobody calls `aclose()`. That is the case `LeasePool` is about and the
instance of `pool_http1`; the other values of the constants are those with which section "What
does not hold" lists counterexamples. It proves:

* `NothingLentIsClosed`: `OneByOne => (Spec => []NoCloseUnderRequest)`
* `NoSocketIsForgotten`: `OneByOne => (Spec => []NoOrphanSocket)`
* `RefinesLeasePool`: `OneByOne => (Spec => ImplementsLeasePool)`
* `KeepaliveIsBounded`: `OneByOne => (Spec => []KeepaliveBounded)`
* `NoSlotIsLost`: `OneByOne /\ ~Checkpoints => (Spec => []NoLostSlot)`

`HInv` says who holds what: a connection is lent to one request, in a state that fits the
request's stage (`LeaseInv`, `Fit`), and is ACTIVE only for a request in an exchange
(`BusyInv`); what is lent and alive is on the pool's list, or on one of the two lists of
clean-up, and what waits to be closed is neither lent nor listed (`PlaceInv`). It is not
enough to look at the states between passes: in the middle of one, `scan.refs` must still be
the connections lent (`RefsInv`), and what the pass offers be idle and free except the one it
has just handed out (`OfferedInv`). For the refinement each action is shown to wear, lend,
renew or return a lease or to thin the pool (`Wears`, `Lends`, `Renews`, `Returns`, `Thins`);
these five cases are then shown once each to be steps of `LeasePool` or stutters.

`KeepaliveBounded` follows from what the pass has counted: when `Trim` has a surplus left,
nothing spare has been kept yet and what is left to look at exceeds the limit by at most that
surplus (`KeepInv`). `NoLostSlot` needs that a connection which survives clean-up is connected
or has somebody at work on it (`Vital`), that matching has offered every free one, and that
the requests it has passed by have a connection (`SlotInv`). With `Checkpoints` it is not the
code's: a connection made for a request that is then cancelled stays NEW, free and neither
idle nor closed.

`ClientProofs` proves, from the assumptions of `Client`, for any number of senders, any calls
and answers and any limit on redirects:

* `TypeCorrect`: `Spec => []TypeOK`
* `NothingLeaks`: `Spec => []NoLeak`
* `HistoriesAreReadable`: `Spec => []HistoryReadable`
* `CredentialsStayInScope`: `Spec => []AuthorizationScoped`
* `BodiesAreWhole`: `Spec => []BodyWhole`
* `SendIsBounded`: `Spec => []RequestsBounded`
* `NoNonceCountTwice`: `Spec => []NonceCountsFresh`
* `ClosedForGood`: `Spec => StaysClosed`, an action property

The first six concern one sender at a time, and so do their invariants: `LeakInv(s)` (only
the latest response may be open, and only while it is being read), `LengthInv(s)`,
`ScopeInv(s)` and `HistoryInv(s)`. The bound 2 * max_redirects + 1 is no count that the code
keeps, and `LengthInv` is where it comes from: before the challenge is answered the responses
are those in the history and the latest; answering it starts the loop again with an empty
history, behind at most `MaxRedirects + 1` responses. `HistoryInv` says that histories are
increasing lists of responses that were read, but for the one being drained. The last two
concern all senders. `LoopInv` is the discipline of the event loop: in a stage without an
await the sender is the running one. With it `SignInv` holds: every pair that went out has a
nonce that was taken up (`Taken`), pairs with the current nonce have a smaller count, and
nobody has yet to reset the count of a nonce that went out. `NonceInv` adds that a nonce
belongs to one response, so that a challenge that is taken up later is a new one.

`ResponseBodyProofs` proves, from `BodyAssumption`, for any bodies, chunk sizes and cuts:

* `ClosedAtEnd`: `Spec => []ReleasedAtEnd`
* `ContentIsWhole`: `Spec => []ContentWhole`
* `CutsNeverMatter`: `Spec => []CutsDoNotMatter`
* `LimitIsPerEvent`: `Spec => []LimitPerEvent`

`DecodedInv` says that a stream which is in has given all of its body, and `FormInv` that a
deflate body passes for zlib only on its first byte. The rest of the invariant has a part for
each kind of item.

*Bytes.* `ByteModes` are the readings whose items are bytes: `iter_raw`, `iter_bytes` and
`read`. The property is theirs before it is that of the content: `read()` keeps what it has
collected, so that `ContentWhole` needs to know that this is everything. `PieceInv` says so at
each point: what the user has, what is ready and what the chunker keeps is, joined, the source
as far as it was read; what was yielded are full chunks and what is kept is less than one.
`FeedShape` and `FlushShape` are the chunker's two calls.

*Lines.* A text that ends with a carriage return may go on with the line feed of the same line
end, so the decoder keeps it: `Known(t)` is the text without it. `LineInv` says that the user
has, with what is ready, the lines that end in what is known of the text, and that `buffer` is
what follows the last of them. `LinesStep` says what one more character does to the lines of a
text, and `LinesConcat`, character by character, that a text which is not cut inside a line
end has the lines of its parts, glued together at the cut; `KnownStep` that the decoder never
cuts there, `WholeLines` what that makes of the lines, and `FeedLinesShape` and
`FlushLinesShape` that this is what the two calls give. Lines are taken from the text where it
ends them (`Ended`, with `Width` for the characters of the end) and so can be compared place by
place.

*Events.* `Reflects(d, L)` relates the decoder to all the lines it has seen: its data, its id,
whether it has fields, and its size, which are those of the lines since the last blank one
(but the id, which stays). `DecodeStep` is one line more and `DecodeRuns` the loop, again over
a fold that needs its lemmas (below). `EventInv` says that the user has, with what is ready,
the events of the known lines, or that the limit was met.

*The limit.* The code counts as it goes and refuses at the first line that is too much, and it
also counts the line that is not ended; the property speaks of any lines that follow each
other without a blank one. `Small(L)` is what the counter has verified: at each place, the
lines since the last blank one are within the limit. A stretch ends at some place and is part
of what was counted there (`SmallStretches`, `SizeGrows`), so none is over. The other way
round, a refused event is a stretch that is over (`OverStep`), and more text only makes the
last line longer or adds lines (`Within`, `SplitGrows`), so it still is one in the whole body
(`OverGrows`). A comment counts while it is not ended, so what is over may need its comments:
that is why the property counts them on this side only. That joining lists is what it seems (`FlattenAppend`, `FlattenConcat`) and that cutting
and joining give back the text (`CutFlat`) hold for every length by a least counterexample:
the library's induction theorems take an operator, the one about well-founded relations takes
a set.

`WebSocketProofs` proves, from `SessionAssumption`, for threads and for tasks, any size of the
queue and any limit on messages:

* `TypeCorrect`: `Spec => []TypeOK`
* `LeavesNothing`: `Spec => []LeftClean`
* `CloseIsLast`: `Spec => NothingAfterClose`
* `InOrder`: `Spec => []DeliveredInOrder`

An actor may be in `close()` at any time and go on with something else afterwards, so the first
thing to say is which agendas there are: `Agendas(a)` lists them, `Rests(a)` what may follow
`close()`, `Handshakes(a)` those in which the closing handshake was started. `ShapeInv` is
that list, `FrameInv` that an actor keeps bytes exactly while it waits to write them, and
`UserInv` that the user hangs up only when wsproto has left "open", leaves only when the
stream is closed and finds no background actor then. None of these needs to know who holds the
event loop. For `NothingAfterClose` there is `WriterInv`, about tasks:
those who keep bytes are those who wait for the lock, behind a close frame only close frames
wait, and once one was written nothing else waits at all, nor will wsproto make anything else.
That the lock is handed on in the order of the bytes is what `RemoveFirst` keeps.

`DeliveredInOrder` speaks of what `receive()` has returned and is not inductive: the frames are
handled long before. `OrderInv` lays out where those in between are: there are numbers `b`
such that the event at place `k` of the queue carries the frames after `b[k - 1]` up to `b[k]`
(none, if it reports the end of the session), beginning where the user stopped (`Chain`), and
the receiver goes on from the last one with the event it is putting and then with
`partial_message_buffer` (`Follows`). It no longer holds once the user empties the queue on
the way out (`Gone`), and the receiver's part ends with the receiver (`Over`): both then
deliver nothing. `ItemInv` adds that whoever is on the way to the queue has an event, and that
an actor which still has to close the session before it puts one has a report: a message is
put straight after it was completed, so it cannot be overtaken by the end of the session or
be put twice. The actions that only pass on a report are one lemma (`Passes`), those that
touch the queue one each.

`RoutingProofs` proves, from `UrlAssumption`, `MountAssumption` and `RoutingAssumption`, for
paths of any length, any texts, base URLs, mounts and hosts:

* `UrlsCanonical`: `HostsNamed => (Spec => []Canonical)`
* `UrlReadAgain`: `Spec => [](url # None /\ url.host # "" => Parse(Str(url)) = url)`
* `PathsResolved`: `Spec => []PathResolved`
* `NoProxyIsHonoured`: `Spec => []NoProxyHonoured`

`normalize_path` is `FoldLeft` with `Descend`. The library defines the fold by a recursive
function on sets of places, about which the prover knows nothing until it is shown that there
is such a function (`FoldExists`) and that on the first `m` places it is the loop
(`FoldAgrees`), both by a least counterexample; `DescendRuns` then says that there is a list `g` of what
`output` was in each round. From it follow that what is normalized is rooted and has neither
"." nor ".." (`Normalized`), and that such a path is its own normal form (`NormalizedOnce`).
`Good(u)` collects what `urlparse` makes sure of; `UrlInv` says that the request's URL is `Good`
after any redirects, since each of `MergeUrl`, `Join`, `CopyWithHost` ends in `Compose`, and
`ReadAgain` that a `Good` URL with a host is read as it was printed. `HostsNamed` excludes
locations with a port and no host; section "What does not hold" says what they do, and
`UrlReadAgain` is what holds with them.

`PathResolved` says which pieces stay, as the RFC has it but for the final slash, by counting
over the whole path, the code keeps a stack. `Stack(p, m, out, o)` relates the two after `m` pieces: `out` is the root and the
pieces at the places `o`, which are, in order, those no ".." up to `m` takes back
(`Kept`). The step for ".." is the hard one (`StackUp`): the piece it takes is the last one kept, because
between that piece and the ".." the names and the ".." balance, and so no earlier piece is
taken by it.

`NoProxyHonoured` needs that the stable sort has a first pattern that fits (`ForemostExists`,
again from a least counterexample, with `LexOrder` for the tuples of `priority`) and that the
table is the environment's, which never changes (`MountsInv`). What the environment writes is
said by `ProxiedIs` and `ExemptionIs`, and `EnvironmentIs` puts them in their places; `DictIs` that
of equal patterns the last one counts at the place of the first, so that `TableIs` knows what is
in the table. `ExemptMatches` says that an entry fits the URLs it names, `ExemptPriority` and
`YieldsIs` that it sorts before a proxy exactly if the proxy yields to it, and
`EnvironmentChoice` combines them: it holds for every entry of every form in `Entries`.

*Only model-checked*: `MostSpecificMount` and the liveness properties. The first is about the
hosts it is checked with: over few enough hosts one pattern may reach less than another by
accident. The
`TypeOK` of `HTTP2Connection`, `Client` and `WebSocketSession` is proved, that of
`ProxyConnection` is stated for the reader and proved in the form of `Shape`; no run
spends time on these. The liveness properties (`Served`, `Ends`, `ExitEnds`,
`ReceiveAnsweredInTasks`) are out of the reach of the proof system. What a fold computes
for every input cannot be had from the library's induction theorems, which take an operator;
where it is proved (`PathsResolved`, `CutsNeverMatter`) a least counterexample takes their place.

## 5. Plan

The system's parts are modelled, and what the runs check of safety is proved, but for what
section 4 lists as only model-checked. What could be added: of the models, the ASGI transport,
the executors of the websocket session and the states of h11, so that the reuse of an unfinished
exchange could be told from that of a finished one; of the proofs, hypotheses on `Labels` under which the
order of the mounts is the order of how much they reach (`MostSpecificMount`).

## 6. Not modelled

Socket I/O and TLS (`_backends/`, `_ssl.py`): the models use what their callers see.
The ASGI and WSGI transports, which
run an application in the caller's task and serve tests, and the ASGI websocket
transport. Header, cookie and query parameter containers, the text of a form, JSON,
charset detection, percent-encoding and IDNA: values without shared state, which the
repository's example-based tests serve better. The decompression libraries, h2, h11,
wsproto and socksio are external and modelled by what the code relies on. Of the default transport the models use that it hands the request to httpcore2 and maps its
exceptions. Logging, tracing, configuration, the functions of `_api.py` and the command line keep
no state that outlives a call. `PROJECT.json` lists this component by component.
