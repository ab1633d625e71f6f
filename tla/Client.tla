------------------------------- MODULE Client -------------------------------
(***************************************************************************)
(* The client of httpx2: send() with its authentication loop around its    *)
(* redirect loop around the transport, the responses it opens on the way,  *)
(* the digest state that sends share, and close().                         *)
(*                                                                         *)
(* A sender is a thread of Client or a task of AsyncClient that sends one  *)
(* request.  Its stage names the point of the nested loops it has reached; *)
(* the actions are what it does up to the next point where another sender  *)
(* may run.  The server and the hooks decide how each step ends.           *)
(*                                                                         *)
(* Left out: payloads, cookies (kept by http.cookiejar), timeouts (a step  *)
(* that fails), and which transport serves which URL (module Routing).     *)
(***************************************************************************)
EXTENDS Naturals, Sequences, FiniteSets, SequencesExt, Functions

CONSTANTS Modes,        \* which of "threads" and "tasks" to consider
          Senders,
          Calls,        \* for each sender, the calls it may make
          Answers,      \* what a server may answer
          None,         \* no value, and
          Invalid,      \* a location that is no URL: neither is a string
          MaxRedirects, \* max_redirects
          MaxNonces     \* bound: challenges issued

Methods == {"GET", "OPTIONS", "HEAD", "DELETE", "POST", "PUT", "PATCH", "QUERY"}

\* A form has files that are read while it is sent; an iterator is also a form
\* with a file that cannot be rewound.
Bodies == {"none", "bytes", "form", "generator", "iterator", "foreign"}

\* websocket() always asks with a GET that has no body.
IsUpgrade(c) == c.via = "websocket"
UpgradeCall(c) == c.method = "GET" /\ c.body = "none"

\* stream(), and sse() and websocket() by way of it, ask for a response whose
\* body is not read yet.
Streams(c) == c.via # "request"

\* What the client is asked for, its defaults filled in.
IsCall(c) ==
  /\ c.via \in {"request", "stream", "sse", "websocket"}
  /\ c.method \in Methods /\ c.body \in Bodies
  /\ c.auth \in {"none", "basic", "digest"}
  /\ {c.userinfo, c.follow} \subseteq BOOLEAN
  /\ IsUpgrade(c) => UpgradeCall(c)

ASSUME ClientAssumption ==
  /\ Modes \subseteq {"threads", "tasks"}
  /\ "nobody" \notin Senders
  /\ {MaxRedirects, MaxNonces} \subseteq Nat
  /\ \A s \in Senders : \A c \in Calls[s] : IsCall(c)

VARIABLES
  mode,       \* a Client shared by threads or an AsyncClient shared by tasks
  state,      \* _state
  transports, \* how far closing the transports has got
  challenge,  \* DigestAuth._last_challenge, shared by the senders
  count,      \* DigestAuth._nonce_count
  nonces,     \* how many nonces the servers have issued
  signed,     \* the nonce counts written into headers, oldest first
  running,    \* the task between two awaits, "nobody" for threads
  stage,      \* where each sender is
  call,       \* the call it makes
  original,   \* the request the authentication flow works on
  request,    \* the request it sends next, or sent last
  spent,      \* its one-shot body was iterated
  flow,       \* its authentication flow
  drawn,      \* the challenge and count it is writing into a header
  responses,  \* the responses it received, oldest first
  history,    \* history in _send_handling_redirects
  authHistory \* history in _send_handling_auth

shared == <<mode, state, transports, nonces>>
digest == <<challenge, count, signed, drawn>>
progress == <<responses, history, authHistory>>
outgoing == <<original, request, spent>>
vars == <<shared, digest, running, stage, call, outgoing, flow, progress>>

Init ==
  /\ mode \in Modes /\ state = "unopened" /\ transports = "open"
  /\ challenge = None /\ count = 1 /\ nonces = 0 /\ signed = <<>>
  /\ running = "nobody"
  /\ stage = [s \in Senders |-> "idle"]
  /\ call = [s \in Senders |-> None]
  /\ original = [s \in Senders |-> None] /\ request = original
  /\ spent = [s \in Senders |-> FALSE]
  /\ flow = [s \in Senders |-> None]
  /\ drawn = [s \in Senders |-> None]
  /\ responses = [s \in Senders |-> <<>>]
  /\ history = responses /\ authHistory = responses

-----------------------------------------------------------------------------
\* Variant: send() awaits something between its check and its assignment.
BusyAfterOpen == {"prepare", "sign", "count", "judge", "renew"}

\* Stages without an await: a task that gets there keeps the event loop.
Busy == {"open", "prepare", "sign", "count", "judge", "renew"}
MayRun(s) == running \in {"nobody", s}

At(s, point) == stage[s] = point /\ MayRun(s)
Go(s, point) ==
  /\ stage' = [stage EXCEPT ![s] = point]
  /\ running' = IF mode = "tasks" /\ point \in Busy THEN s ELSE "nobody"

\* The latest response, and what becomes of it.
Latest(s) == Last(responses[s])
Mark(s, r) == responses' = [responses EXCEPT ![s] = Append(Front(@), r)]

\* Variant: the exception goes on at once.
OnlyRaise(s) == Mark(s, Latest(s)) /\ Go(s, "raised")

\* Response.aclose(), and the exception goes on.
CloseAndRaise(s) ==
  /\ Mark(s, [Latest(s) EXCEPT !.closed = TRUE])
  /\ Go(s, "raised")

-----------------------------------------------------------------------------
(***************************************************************************)
(* The parts of a redirect request.                                        *)
(***************************************************************************)
Redirects == {301, 302, 303, 307, 308}
IsRedirect(a) == a.status \in Redirects /\ a.location # None

RedirectMethod(method, status) ==
  IF \/ status = 303 /\ method # "HEAD"
     \/ status = 302 /\ method \notin {"HEAD", "QUERY"}
     \/ status = 301 /\ method = "POST"
  THEN "GET" ELSE method

\* Variant: any step from http to https on the host counts.
IsHttpsRedirectAnyPort(from, to) ==
  from.host = to.host /\ from.scheme = "http" /\ to.scheme = "https"

IsHttpsRedirect(from, to) ==
  /\ from.host = to.host
  /\ from.scheme = "http" /\ from.port = 80
  /\ to.scheme = "https" /\ to.port = 443

RedirectAuthorization(r, to) ==
  IF to = r.origin \/ IsHttpsRedirect(r.origin, to) THEN r.authorization ELSE None

RedirectBody(r, method) ==
  IF method # r.method /\ method = "GET" THEN "none" ELSE r.body

BuildRedirectRequest(r, a) ==
  LET method == RedirectMethod(r.method, a.status)
  IN [method |-> method, origin |-> a.location, body |-> RedirectBody(r, method),
      authorization |-> RedirectAuthorization(r, a.location), sent |-> "none"]

-----------------------------------------------------------------------------
(***************************************************************************)
(* send(): the check, then the state and the start of the flow.            *)
(***************************************************************************)
Submit(s) ==
  /\ stage[s] = "idle" /\ running = "nobody"
  /\ \E c \in Calls[s] : call' = [call EXCEPT ![s] = c]
  /\ Go(s, IF state = "closed" THEN "raised" ELSE "open")
  /\ UNCHANGED <<shared, digest, outgoing, flow, progress>>

\* The call's authentication, or basic if the URL names a user.
RequestAuth(c) == IF c.auth = "none" /\ c.userinfo THEN "basic" ELSE c.auth

\* What the user's call asks to be sent; nothing of the body was sent yet.
Asked(c) ==
  [method |-> c.method, origin |-> c.origin, body |-> c.body,
   authorization |-> None, sent |-> "none"]

Open(s) ==
  /\ At(s, "open")
  /\ state' = "opened"
  /\ original' = [original EXCEPT ![s] = Asked(call[s])]
  /\ request' = [request EXCEPT ![s] = Asked(call[s])]
  /\ Go(s, "prepare")
  /\ UNCHANGED <<mode, transports, nonces, digest, call, spent, flow, progress>>

\* The first step of the flow: BasicAuth writes its header, DigestAuth
\* answers the last challenge there was, Auth adds nothing.
Prepare(s) ==
  /\ At(s, "prepare")
  /\ flow' = [flow EXCEPT ![s] = RequestAuth(call[s])]
  /\ IF flow'[s] = "basic"
     THEN /\ original' = [original EXCEPT ![s].authorization = "basic"]
          /\ request' = [request EXCEPT ![s] = original'[s]]
     ELSE UNCHANGED <<original, request>>
  /\ Go(s, IF flow'[s] = "digest" /\ challenge # None THEN "sign" ELSE "attempt")
  /\ UNCHANGED <<shared, digest, call, spent, progress>>

-----------------------------------------------------------------------------
(***************************************************************************)
(* DigestAuth: writing a header and taking up a challenge.                 *)
(***************************************************************************)
\* Variant: the count is as it was before.
CountKept == count

CountUp == count + 1

\* The header gets the count and the challenge of this moment.
Sign(s) ==
  /\ At(s, "sign") /\ challenge.usable
  /\ drawn' = [drawn EXCEPT ![s] = <<challenge.nonce, count>>]
  /\ Go(s, "count")
  /\ UNCHANGED <<shared, challenge, count, signed, call, outgoing, flow, progress>>

\* The algorithm or the quality of protection is not supported.
CannotSign(s) ==
  /\ At(s, "sign") /\ ~challenge.usable
  /\ IF responses[s] = <<>> THEN Go(s, "raised") /\ UNCHANGED responses
                            ELSE CloseAndRaise(s)
  /\ UNCHANGED <<shared, digest, call, outgoing, flow, history, authHistory>>

\* The count goes up.  The header is on the original request, which is sent
\* at once if it answers a challenge of before.
Count(s) ==
  /\ At(s, "count")
  /\ count' = CountUp
  /\ signed' = Append(signed, drawn[s])
  /\ original' = [original EXCEPT ![s].authorization = drawn[s]]
  /\ request' = [request EXCEPT ![s] = original'[s]]
  /\ Go(s, IF responses[s] = <<>> THEN "attempt" ELSE "drain401")
  /\ UNCHANGED <<shared, challenge, drawn, call, spent, flow, progress>>

\* _send_handling_redirects returned a response: does the flow go on?
Challenged(s) == flow[s] = "digest" /\ Latest(s).status = 401
                 /\ Latest(s).challenge \in {"digest", "unusable"}
BadlyChallenged(s) == flow[s] = "digest" /\ Latest(s).status = 401
                      /\ Latest(s).challenge = "malformed"

\* The challenge is parsed and becomes the last one.
TakeUp(s) ==
  /\ At(s, "judge") /\ Challenged(s)
  /\ challenge' = [nonce |-> Latest(s).nonce, usable |-> Latest(s).challenge = "digest"]
  /\ flow' = [flow EXCEPT ![s] = "answered"]
  /\ Go(s, "renew")
  /\ UNCHANGED <<shared, count, signed, drawn, call, outgoing, progress>>

Renew(s) ==
  /\ At(s, "renew")
  /\ count' = 1
  /\ Go(s, "sign")
  /\ UNCHANGED <<shared, challenge, signed, drawn, call, outgoing, flow, progress>>

\* ProtocolError: the header cannot be parsed.
Malformed(s) ==
  /\ At(s, "judge") /\ BadlyChallenged(s)
  /\ CloseAndRaise(s)
  /\ UNCHANGED <<shared, digest, call, outgoing, flow, history, authHistory>>

\* The flow is over: the response is the one send() returns.
Settle(s) ==
  /\ At(s, "judge") /\ ~Challenged(s) /\ ~BadlyChallenged(s)
  /\ Go(s, IF Streams(call[s]) THEN "holding" ELSE "drainLast")
  /\ UNCHANGED <<shared, digest, call, outgoing, flow, progress>>

-----------------------------------------------------------------------------
(***************************************************************************)
(* One turn of the redirect loop.                                          *)
(***************************************************************************)
\* Variant: only a longer history is too long.
TooManyLate(s) == Len(history[s]) > MaxRedirects + 1

TooMany(s) == Len(history[s]) > MaxRedirects

\* What a body still has to give: a generator refuses to be iterated again,
\* any other iterator gives what is left of it.
\* Variant: it gives what is left of it as well.
RefusesNothing(s) == FALSE

Refuses(s) == request[s].body = "generator" /\ spent[s]

\* What has moved on once it was sent, and what is rewound before it is sent again.
Moving == {"form", "generator", "iterator"}
Rewinds == {"form"}
OneShot == Moving \ Rewinds

\* TooManyRedirects, a request hook that raises, a body of the other kind of
\* client, or a generator that was sent before.
GiveUp(s) ==
  /\ At(s, "attempt")
  /\ Go(s, "raised")
  /\ UNCHANGED <<shared, digest, call, outgoing, flow, progress>>

\* The request hooks ran; the transport takes the request and sends the body.
Attempt(s) ==
  /\ At(s, "attempt")
  /\ ~TooMany(s) /\ request[s].body # "foreign" /\ ~Refuses(s)
  /\ spent' = [spent EXCEPT ![s] = @ \/ request[s].body \in OneShot]
  /\ request' = [request EXCEPT ![s].sent =
       IF request[s].body \in OneShot /\ spent[s] THEN "none" ELSE request[s].body]
  /\ Go(s, "wire")
  /\ UNCHANGED <<shared, digest, call, original, flow, progress>>

\* The transport raises, or the task is cancelled while it waits.
TransportFails(s) ==
  /\ At(s, "wire")
  /\ Go(s, "raised")
  /\ UNCHANGED <<shared, digest, call, outgoing, flow, progress>>

\* The response to the answer a, as it arrives.
Arrived(a, nonce) ==
  [closed |-> FALSE, read |-> FALSE, history |-> <<>>, nonce |-> nonce,
   status |-> a.status, location |-> a.location, challenge |-> a.challenge]

\* A response has arrived and is open; a challenge has a nonce of its own.
Receive(s) ==
  /\ At(s, "wire")
  /\ \E a \in Answers :
       /\ a.status = 401 => nonces < MaxNonces
       /\ nonces' = IF a.status = 401 THEN nonces + 1 ELSE nonces
       /\ responses' = [responses EXCEPT ![s] = Append(@, Arrived(a, nonces'))]
  /\ Go(s, "hook")
  /\ UNCHANGED <<mode, state, transports, digest, call, outgoing, flow, history, authHistory>>

\* A response hook raises, or the redirect has a location that is no URL.
HookFails(s) ==
  /\ At(s, "hook")
  /\ CloseAndRaise(s)
  /\ UNCHANGED <<shared, digest, call, outgoing, flow, history, authHistory>>

Follows(s) == IsRedirect(Latest(s)) /\ call[s].follow

\* The response hooks ran.  A redirect that is followed is read first, any
\* other response goes back to the authentication loop.
Hooked(s) ==
  /\ At(s, "hook") /\ ~Follows(s)
  /\ Mark(s, [Latest(s) EXCEPT !.history = history[s]])
  /\ Go(s, "judge")
  /\ UNCHANGED <<shared, digest, call, outgoing, flow, history, authHistory>>

HistoryWith(s) == Append(history[s], Len(responses[s]))

Redirect(s) ==
  /\ At(s, "hook") /\ Follows(s) /\ Latest(s).location # Invalid
  /\ Mark(s, [Latest(s) EXCEPT !.history = history[s]])
  /\ request' = [request EXCEPT ![s] = BuildRedirectRequest(@, Latest(s))]
  /\ history' = [history EXCEPT ![s] = HistoryWith(s)]
  /\ Go(s, "drain")
  /\ UNCHANGED <<shared, digest, call, original, spent, flow, authHistory>>

-----------------------------------------------------------------------------
(***************************************************************************)
(* Reading the body of the latest response, which closes it, and the user. *)
(***************************************************************************)
\* Variant: the body is given up, not read.
OnlyClosed(r) == [r EXCEPT !.closed = TRUE]

ReadThrough(r) == [r EXCEPT !.read = TRUE, !.closed = TRUE]
Draining == {"drain", "drain401", "drainLast"}

Drained(s) ==
  /\ stage[s] \in Draining /\ MayRun(s)
  /\ IF stage[s] = "drain401"
     THEN /\ Mark(s, [ReadThrough(Latest(s)) EXCEPT !.history = authHistory[s]])
          /\ authHistory' = [authHistory EXCEPT ![s] = Append(@, Len(responses[s]))]
          /\ history' = [history EXCEPT ![s] = authHistory'[s]]
     ELSE /\ Mark(s, ReadThrough(Latest(s)))
          /\ UNCHANGED <<history, authHistory>>
  /\ Go(s, IF stage[s] = "drainLast" THEN "returned" ELSE "attempt")
  /\ UNCHANGED <<shared, digest, call, outgoing, flow>>

DrainFails(s) ==
  /\ stage[s] \in Draining /\ MayRun(s)
  /\ CloseAndRaise(s)
  /\ UNCHANGED <<shared, digest, call, outgoing, flow, history, authHistory>>

\* The server did not switch protocols: there is no session, and the response
\* is closed on the way out.
Refused(s) == IsUpgrade(call[s]) /\ Latest(s).status # 101

UpgradeRefused(s) ==
  /\ At(s, "holding") /\ Refused(s)
  /\ CloseAndRaise(s)
  /\ UNCHANGED <<shared, digest, call, outgoing, flow, history, authHistory>>

\* stream(), sse() and websocket() close the response whatever the user did;
\* the frames of a session are not its body.
LeaveStream(s) ==
  /\ At(s, "holding") /\ ~Refused(s)
  /\ \E all \in BOOLEAN :
       /\ all => ~IsUpgrade(call[s])
       /\ Mark(s, [Latest(s) EXCEPT !.read = all, !.closed = TRUE])
  /\ Go(s, "returned")
  /\ UNCHANGED <<shared, digest, call, outgoing, flow, history, authHistory>>

-----------------------------------------------------------------------------
(***************************************************************************)
(* The owner of the client.                                                *)
(***************************************************************************)
rest == <<mode, nonces, digest, running, stage, call, outgoing, flow, progress>>

Enter ==
  /\ running = "nobody" /\ state = "unopened"
  /\ state' = "opened"
  /\ UNCHANGED <<transports, rest>>

\* close(), or the end of the with block, which does not ask for the state.
Close ==
  /\ running = "nobody"
  /\ state' = "closed"
  /\ transports' = "closing"
  /\ UNCHANGED rest

\* Every transport was closed, or one of them raised and the rest was not.
TransportsClosed ==
  /\ transports = "closing" /\ running = "nobody"
  /\ transports' \in {"closed", "half"}
  /\ UNCHANGED <<state, rest>>

-----------------------------------------------------------------------------
Step(s) ==
  \/ Submit(s) \/ Open(s) \/ Prepare(s)
  \/ Sign(s) \/ CannotSign(s) \/ Count(s)
  \/ TakeUp(s) \/ Renew(s) \/ Malformed(s) \/ Settle(s)
  \/ GiveUp(s) \/ Attempt(s) \/ TransportFails(s) \/ Receive(s)
  \/ Hooked(s) \/ HookFails(s) \/ Redirect(s)
  \/ Drained(s) \/ DrainFails(s) \/ UpgradeRefused(s) \/ LeaveStream(s)

Next == (\E s \in Senders : Step(s)) \/ Enter \/ Close \/ TransportsClosed

Spec == Init /\ [][Next]_vars

-----------------------------------------------------------------------------
(***************************************************************************)
(* Properties.                                                             *)
(***************************************************************************)
Stages == {"idle", "open", "prepare", "sign", "count", "judge", "renew", "attempt",
           "wire", "hook", "holding", "returned", "raised"} \cup Draining

\* The shape of the state, and what the histories refer to.
TypeOK ==
  /\ mode \in Modes /\ running \in Senders \cup {"nobody"}
  /\ state \in {"unopened", "opened", "closed"}
  /\ transports \in {"open", "closing", "closed", "half"}
  /\ nonces \in 0..MaxNonces /\ count \in Nat \ {0}
  /\ challenge # None => challenge.nonce \in 1..nonces
  /\ \A s \in Senders :
       /\ stage[s] \in Stages
       /\ Range(history[s]) \subseteq DOMAIN responses[s]
       /\ Range(authHistory[s]) \subseteq DOMAIN responses[s]

\* However a send() ends, by returning, by an error of the server, a hook or
\* the authentication, or by cancellation, it leaves no response open but the
\* one it hands to a user who asked for the stream; each response before the
\* latest is closed before the next request goes out.  An open one would keep
\* its connection out of the pool.
NoLeak ==
  \A s \in Senders : \A i \in DOMAIN responses[s] :
    ~responses[s][i].closed =>
      /\ i = Len(responses[s])
      /\ stage[s] \notin {"attempt", "wire", "returned", "raised"}
      /\ stage[s] = "holding" => Streams(call[s])

\* What the user finds in a history was read to its end, so that its content
\* is there, and came before the response that has it, in order.
HistoryReadable ==
  \A s \in Senders : stage[s] = "returned" =>
    LET h == Latest(s).history
    IN /\ \A k \in DOMAIN h : responses[s][h[k]].read /\ h[k] < Len(responses[s])
       /\ \A j, k \in DOMAIN h : j < k => h[j] < h[k]

\* Credentials go to the origin they were written for, or to the https twin
\* of a plain http origin on the default ports, however redirects,
\* challenges and retries follow each other.
AuthorizationScoped ==
  \A s \in Senders : stage[s] = "wire" /\ request[s].authorization # None =>
    LET from == call[s].origin to == request[s].origin
    IN to = from \/ <<from.scheme, from.port, to.scheme, to.port, to.host>>
                    = <<"http", 80, "https", 443, from.host>>

\* A body that can be sent twice, a form from its start again, or that can tell
\* that it cannot, is sent whole by every request that has it; redirects that
\* turn the request into a GET drop it.  (Other iterators are sent again with
\* what they have left.)
BodyWhole ==
  \A s \in Senders : stage[s] = "wire" /\ request[s].body # "iterator" =>
    request[s].sent = request[s].body

\* The servers cannot keep one send() busy: however they mix redirects and
\* challenges, it stops after so many requests.
RequestsBounded == \A s \in Senders : Len(responses[s]) <= 2 * MaxRedirects + 1

\* No two headers carry the same nonce with the same count, which a server
\* would take for a replay, although tasks share the challenge and the count.
NonceCountsFresh == mode = "tasks" => IsInjective(signed)

\* A closed AsyncClient is never opened again by a send() that was on its way.
StaysClosed == [][mode = "tasks" /\ state = "closed" => state' = "closed"]_vars
=============================================================================
