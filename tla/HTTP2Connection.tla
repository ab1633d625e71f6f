-------------------------- MODULE HTTP2Connection --------------------------
(***************************************************************************)
(* One HTTP/2 connection of httpcore2 (AsyncHTTP2Connection) and the       *)
(* requests that share it: the preface, the admission of streams under a   *)
(* limit the server may change, the dispatch of events by whichever        *)
(* request reads the socket, GOAWAY, errors, cancellation and closing.     *)
(*                                                                         *)
(* pc[r] is the await request r is at, phase[r] what it is doing on its    *)
(* stream.  Requests interleave at every lock and at every network call.   *)
(* Under trio taking a free lock suspends; under asyncio the next step     *)
(* follows at once, which is one of the schedules.                         *)
(*                                                                         *)
(* The server and the h2 library are external.  The server sends one frame *)
(* per read; h2 numbers the streams (1, 2, 3 stand for 1, 3, 5) and knows  *)
(* which of them are open.                                                 *)
(*                                                                         *)
(* A definition called a variant is not part of the specification: it is   *)
(* what a slip in the code would make of the definition that follows it.   *)
(***************************************************************************)
EXTENDS Integers, Sequences, FiniteSets

CONSTANTS Requests,
          Uploads,      \* the requests with a body
          None,
          LocalLimit,   \* MAX_CONCURRENT_STREAMS of our own settings (100)
          LastStreamId, \* the highest stream id
          MaxSettings,  \* bound: SETTINGS frames that change the limit
          Windows,      \* may a body be sent at once, as the server sets it?
          Checkpoints,  \* acquiring a free permit can be cancelled (trio)
          Yields        \* others run between picking a stream id and sending
                        \* headers: threads, or a trace callback that awaits

ASSUME HTTP2Assumption ==
  /\ IsFiniteSet(Requests) /\ Uploads \subseteq Requests
  /\ LocalLimit \in Nat \ {0} /\ LastStreamId \in Nat /\ MaxSettings \in Nat
  /\ Windows \subseteq BOOLEAN
  /\ {Checkpoints, Yields} \subseteq BOOLEAN
  /\ None \notin Nat \cup {"ok", "failed", "retry"}

VARIABLES
  state,       \* _state
  ready,       \* _sent_connection_init
  used,        \* _used_all_stream_ids
  terminated,  \* last_stream_id of _connection_terminated, or None
  failed,      \* which of _read_exception, _write_exception are set
  limit,       \* _max_streams
  deficit,     \* _max_streams_deficit
  permits,     \* the value of _max_streams_semaphore
  events,      \* _events: stream id -> events not yet taken
  opened,      \* h2: streams 1 .. opened have sent headers
  remote,      \* h2: the server's limit, LocalLimit + 1 before it named one
  window,      \* h2: may a chunk of the body be sent on the stream?
  outbox,      \* h2: streams whose headers data_to_send() would return
  wire,        \* what the current writer took
  peer,        \* the server's view of each stream
  settings,    \* SETTINGS frames the server may still send
  pc, phase, sid, result

conn      == <<state, ready, used, terminated, failed>>
admission == <<limit, deficit, permits>>
library   == <<opened, remote, window, peer, settings>>
output    == <<outbox, wire>>
task      == <<pc, phase, sid, result>>
vars      == <<conn, admission, events, library, output, task>>

StreamIds == 1 .. LastStreamId

Stages == {"start", "init", "preface", "drain", "permit", "granted", "picked",
           "flush", "writing", "loop", "lockread", "reading", "closing", "done"}

Init ==
  /\ state = "IDLE" /\ ready = FALSE /\ used = FALSE
  /\ terminated = None /\ failed = {}
  /\ limit = 0 /\ deficit = 0 /\ permits = 0
  /\ events = <<>>
  /\ opened = 0 /\ remote = LocalLimit + 1
  /\ window \in {[s \in StreamIds |-> open] : open \in Windows}
  /\ outbox = {} /\ wire = {}
  /\ peer = [s \in StreamIds |-> "none"]
  /\ settings = MaxSettings
  /\ pc = [r \in Requests |-> "start"]
  /\ phase = [r \in Requests |-> IF r \in Uploads THEN "upload" ELSE "response"]
  /\ sid = [r \in Requests |-> None]
  /\ result = [r \in Requests |-> None]

-----------------------------------------------------------------------------
At(stage) == {r \in Requests : pc[r] = stage}

\* From asking h2 for a stream id to sending the headers nothing is awaited.
\* Variant: something is.
MayRunAnytime(r) == TRUE
MayRun(r) == Yields \/ At("picked") \subseteq {r}

Goto(r, stage) == pc' = [pc EXCEPT ![r] = stage]

\* A request that raises before it has a stream.
Raise(r, what) ==
  /\ Goto(r, "done")
  /\ result' = [result EXCEPT ![r] = what]

\* A request that raises, or ends, on its stream: the response is closed.
Unwind(r, what) ==
  /\ Goto(r, "closing")
  /\ result' = [result EXCEPT ![r] = what]
  /\ UNCHANGED <<phase, sid>>

Inbox(r) == IF sid[r] \in DOMAIN events THEN events[sid[r]] ELSE <<>>

\* Is there something for r to do without reading the socket?
Ready(r) == IF phase[r] = "upload" THEN window[sid[r]] ELSE Inbox(r) # <<>>

\* h2 refuses to send on a connection that is closed or was told to go away.
Hangup == state = "CLOSED" \/ terminated # None

\* h2 counts a stream until both sides are done, or it is reset.
Unfinished(s) ==
  \/ peer[s] \notin {"ended", "reset"}
  \/ /\ peer[s] = "ended"
     /\ \E r \in Uploads : sid[r] = s /\ phase[r] = "upload"

TooMany == Cardinality({s \in 1 .. opened : Unfinished(s)}) >= remote

-----------------------------------------------------------------------------
(***************************************************************************)
(* Up to the stream.                                                       *)
(***************************************************************************)
Accept(r) ==
  /\ pc[r] = "start" /\ state # "CLOSED" /\ MayRun(r)
  /\ state' = "ACTIVE"
  /\ Goto(r, "init")
  /\ UNCHANGED <<ready, used, terminated, failed, admission, events, library,
                 output, phase, sid, result>>

NotAvailable(r) ==
  /\ pc[r] = "start" /\ state = "CLOSED" /\ MayRun(r)
  /\ Raise(r, "retry")
  /\ UNCHANGED <<conn, admission, events, library, output, phase, sid>>

InitLock(r) ==
  /\ pc[r] = "init" /\ At("preface") \cup At("drain") = {} /\ MayRun(r)
  /\ Goto(r, IF ready THEN "permit" ELSE "preface")
  /\ UNCHANGED <<conn, admission, events, library, output, phase, sid, result>>

\* The preface is written and the semaphore created, with all its permits.
SendInit(r) ==
  /\ pc[r] = "preface" /\ ~Hangup /\ MayRun(r)
  /\ ready' = TRUE
  /\ limit' = 1 /\ deficit' = 0 /\ permits' = LocalLimit
  /\ Goto(r, "drain")
  /\ UNCHANGED <<state, used, terminated, failed, events, library, output,
                 phase, sid, result>>

\* The preface cannot be written, or the request is cancelled.
InitFails(r) ==
  /\ pc[r] = "preface" /\ MayRun(r)
  /\ state' = "CLOSED"
  /\ Raise(r, "failed")
  /\ UNCHANGED <<ready, used, terminated, failed, admission, events, library,
                 output, phase, sid>>

\* All permits but those of the initial limit are acquired.
Drain(r) ==
  /\ pc[r] = "drain" /\ MayRun(r)
  /\ permits' = limit
  /\ Goto(r, "permit")
  /\ UNCHANGED <<conn, limit, deficit, events, library, output, phase, sid, result>>

\* Cancelled among these acquisitions.
DrainCancelled(r) ==
  /\ pc[r] = "drain" /\ Checkpoints /\ MayRun(r)
  /\ permits' \in limit .. LocalLimit
  /\ Raise(r, "failed")
  /\ UNCHANGED <<conn, limit, deficit, events, library, output, phase, sid>>

Acquire(r) ==
  /\ pc[r] = "permit" /\ permits > 0 /\ MayRun(r)
  /\ permits' = permits - 1
  /\ Goto(r, "granted")
  /\ UNCHANGED <<conn, limit, deficit, events, library, output, phase, sid, result>>

\* Cancelled while waiting for the init lock or a permit.
WaitCancelled(r) ==
  /\ pc[r] \in {"init", "permit"} /\ MayRun(r)
  /\ Raise(r, "failed")
  /\ UNCHANGED <<conn, admission, events, library, output, phase, sid>>

\* The limit dropped before the permit was used: it pays for the deficit.
Forfeit(r) ==
  /\ pc[r] = "granted" /\ deficit > 0 /\ MayRun(r)
  /\ deficit' = deficit - 1
  /\ Goto(r, "permit")
  /\ UNCHANGED <<conn, limit, permits, events, library, output, phase, sid, result>>

\* May a permit be used?  Variant: the deficit is not looked at.
UsableAlways == TRUE
Usable == deficit = 0

\* h2 tells the next stream id, which is not reserved by asking.
Pick(r) ==
  /\ pc[r] = "granted" /\ Usable /\ opened < LastStreamId /\ MayRun(r)
  /\ sid' = [sid EXCEPT ![r] = opened + 1]
  /\ events' = [s \in DOMAIN events \cup {opened + 1} |->
                  IF s = opened + 1 THEN <<>> ELSE events[s]]
  /\ Goto(r, "picked")
  /\ UNCHANGED <<conn, admission, library, output, phase, result>>

Exhausted(r) ==
  /\ pc[r] = "granted" /\ Usable /\ opened = LastStreamId /\ MayRun(r)
  /\ used' = TRUE
  /\ permits' = permits + 1
  /\ Raise(r, "retry")
  /\ UNCHANGED <<state, ready, terminated, failed, limit, deficit, events,
                 library, output, phase, sid>>

\* The headers go to h2, which opens the stream ...
SendHeaders(r) ==
  /\ pc[r] = "picked" /\ ~Hangup /\ ~TooMany /\ sid[r] > opened
  /\ opened' = sid[r]
  /\ outbox' = outbox \cup {sid[r]}
  /\ Goto(r, "flush")
  /\ UNCHANGED <<conn, admission, events, remote, window, peer, settings, wire,
                 phase, sid, result>>

\* ... or raises a protocol error.
HeadersRefused(r) ==
  /\ pc[r] = "picked" /\ (Hangup \/ TooMany \/ sid[r] <= opened)
  /\ Unwind(r, "failed")
  /\ UNCHANGED <<conn, admission, events, library, output>>

-----------------------------------------------------------------------------
(***************************************************************************)
(* Writing: the holder of the write lock sends what h2 has for everybody.  *)
(***************************************************************************)
Write(r) ==
  /\ pc[r] = "flush" /\ At("writing") = {} /\ "write" \notin failed /\ MayRun(r)
  /\ wire' = outbox /\ outbox' = {}
  /\ Goto(r, "writing")
  /\ UNCHANGED <<conn, admission, events, library, phase, sid, result>>

\* A saved error is raised again, after the data was taken from h2.
WriteRaises(r) ==
  /\ pc[r] = "flush" /\ At("writing") = {} /\ "write" \in failed /\ MayRun(r)
  /\ outbox' = {}
  /\ Unwind(r, "failed")
  /\ UNCHANGED <<conn, admission, events, library, wire>>

\* The server has seen the headers in the set d.
Deliver(d) ==
  peer' = [s \in StreamIds |-> IF s \in d THEN "reached" ELSE peer[s]]

Written(r) ==
  /\ pc[r] = "writing" /\ state # "CLOSED" /\ MayRun(r)
  /\ Deliver(wire)
  /\ wire' = {}
  /\ Goto(r, "loop")
  /\ UNCHANGED <<conn, admission, events, opened, remote, window, settings,
                 outbox, phase, sid, result>>

WriteFails(r) ==
  /\ pc[r] = "writing" /\ MayRun(r)
  /\ failed' = failed \cup {"write"}
  /\ \E d \in {{}, wire} : Deliver(d)
  /\ wire' = {}
  /\ Unwind(r, "failed")
  /\ UNCHANGED <<state, ready, used, terminated, admission, events, opened,
                 remote, window, settings, outbox>>

\* A cancellation is not remembered as an error of the connection.
WriteCancelled(r) ==
  /\ pc[r] = "writing" /\ MayRun(r)
  /\ \E d \in {{}, wire} : Deliver(d)
  /\ wire' = {}
  /\ Unwind(r, "failed")
  /\ UNCHANGED <<conn, admission, events, opened, remote, window, settings, outbox>>

-----------------------------------------------------------------------------
(***************************************************************************)
(* The request on its stream.                                              *)
(***************************************************************************)
\* The window allows it: the rest of the body goes to h2.
SendBody(r) ==
  /\ pc[r] = "loop" /\ phase[r] = "upload" /\ window[sid[r]] /\ MayRun(r)
  /\ ~Hangup /\ peer[sid[r]] # "reset"
  /\ phase' = [phase EXCEPT ![r] = "response"]
  /\ Goto(r, "flush")
  /\ UNCHANGED <<conn, admission, events, library, output, sid, result>>

\* h2 raises a protocol error on a stream that was reset, or after a hangup.
BodyRefused(r) ==
  /\ pc[r] = "loop" /\ phase[r] = "upload" /\ MayRun(r)
  /\ \/ peer[sid[r]] = "reset"
     \/ window[sid[r]] /\ Hangup
  /\ Unwind(r, "failed")
  /\ UNCHANGED <<conn, admission, events, library, output>>

\* The response headers have come.
TakeResponse(r) ==
  /\ pc[r] = "loop" /\ phase[r] = "response" /\ MayRun(r)
  /\ Inbox(r) # <<>> /\ Head(Inbox(r)) = "response"
  /\ events' = [events EXCEPT ![sid[r]] = Tail(@)]
  /\ phase' = [phase EXCEPT ![r] = "body"]
  /\ UNCHANGED <<conn, admission, library, output, pc, sid, result>>

\* The end of the body, or a reset.
TakeLast(r) ==
  /\ pc[r] = "loop" /\ phase[r] # "upload" /\ MayRun(r)
  /\ Inbox(r) # <<>> /\ Head(Inbox(r)) \in {"end", "reset"}
  /\ events' = [events EXCEPT ![sid[r]] = Tail(@)]
  /\ Unwind(r, IF Head(Inbox(r)) = "end" THEN "ok" ELSE "failed")
  /\ UNCHANGED <<conn, admission, library, output>>

\* The caller closes the response without reading it to the end.
Abandon(r) ==
  /\ pc[r] = "loop" /\ phase[r] = "body" /\ MayRun(r)
  /\ Unwind(r, "ok")
  /\ UNCHANGED <<conn, admission, events, library, output>>

\* Nothing there: the socket must be read.
AwaitEvent(r) ==
  /\ pc[r] = "loop" /\ ~Ready(r) /\ MayRun(r)
  /\ phase[r] = "upload" => peer[sid[r]] # "reset"
  /\ Goto(r, "lockread")
  /\ UNCHANGED <<conn, admission, events, library, output, phase, sid, result>>

ReadLockFree == At("reading") = {}

\* Does another look under the read lock show something?  Variant: it is not
\* taken.
AnsweredNever(r) == FALSE
Answered(r) == Ready(r)

\* Another request has read it meanwhile.
NoNeedToRead(r) ==
  /\ pc[r] = "lockread" /\ ReadLockFree /\ Answered(r) /\ MayRun(r)
  /\ Goto(r, IF phase[r] = "upload" THEN "loop" ELSE "flush")
  /\ UNCHANGED <<conn, admission, events, library, output, phase, sid, result>>

\* After GOAWAY: was r's stream left unprocessed for sure?  A last stream id
\* of 0, and a request that is still sending, count as unknown.  Variant: off
\* by one.
UnprocessedFrom(r) ==
  phase[r] # "upload" /\ terminated # 0 /\ sid[r] >= terminated
Unprocessed(r) ==
  phase[r] # "upload" /\ terminated # 0 /\ sid[r] > terminated

GoneAway(r) ==
  /\ pc[r] = "lockread" /\ ReadLockFree /\ ~Answered(r) /\ MayRun(r)
  /\ terminated # None
  /\ Unwind(r, IF Unprocessed(r) THEN "retry" ELSE "failed")
  /\ UNCHANGED <<conn, admission, events, library, output>>

\* A saved read error is raised again.
ReadRaises(r) ==
  /\ pc[r] = "lockread" /\ ReadLockFree /\ ~Answered(r) /\ MayRun(r)
  /\ terminated = None /\ "read" \in failed
  /\ Unwind(r, "failed")
  /\ UNCHANGED <<conn, admission, events, library, output>>

Read(r) ==
  /\ pc[r] = "lockread" /\ ReadLockFree /\ ~Answered(r) /\ MayRun(r)
  /\ terminated = None /\ "read" \notin failed
  /\ Goto(r, "reading")
  /\ UNCHANGED <<conn, admission, events, library, output, phase, sid, result>>

ReadFails(r) ==
  /\ pc[r] = "reading" /\ MayRun(r)
  /\ failed' = failed \cup {"read"}
  /\ Unwind(r, "failed")
  /\ UNCHANGED <<state, ready, used, terminated, admission, events, library, output>>

\* Cancelled at a lock or in the read: on the stream, but not in a write.
ExchangeCancelled(r) ==
  /\ pc[r] \in {"flush", "lockread", "reading"} /\ MayRun(r)
  /\ Unwind(r, "failed")
  /\ UNCHANGED <<conn, admission, events, library, output>>

-----------------------------------------------------------------------------
(***************************************************************************)
(* What one read brings.                                                   *)
(***************************************************************************)
Smaller(m, n) == IF m < n THEN m ELSE n

\* The reader holds the socket and goes on to flush.
Receives(r) ==
  /\ pc[r] = "reading" /\ state # "CLOSED" /\ MayRun(r)
  /\ Goto(r, "flush")

\* The limit rises: the deficit is paid first, the rest are new permits.
Raised(n) ==
  LET more == n - limit
      paid == Smaller(deficit, more)
  IN deficit' = deficit - paid /\ permits' = permits + (more - paid)

\* The limit drops: free permits are taken away first.
Lowered(n) ==
  LET less == limit - n
      taken == Smaller(permits, less)
  IN permits' = permits - taken /\ deficit' = deficit + (less - taken)

\* A limit of 0 leaves the permits as they are.
ReceiveSettings(r) ==
  /\ Receives(r) /\ settings > 0
  /\ settings' = settings - 1
  /\ \E n \in 0 .. LocalLimit :
       /\ remote' = n
       /\ IF n = 0 THEN UNCHANGED admission
          ELSE /\ limit' = n
               /\ IF n >= limit THEN Raised(n) ELSE Lowered(n)
  /\ UNCHANGED <<conn, events, opened, window, peer, output, phase, sid, result>>

\* Events for a stream that is not in _events any more are dropped.
Dispatch(s, e) ==
  events' = IF s \in DOMAIN events THEN [events EXCEPT ![s] = Append(@, e)]
                                   ELSE events

ReceiveEvent(r) ==
  /\ Receives(r)
  /\ \E s \in 1 .. opened :
       \/ /\ peer[s] = "reached"
          /\ peer' = [peer EXCEPT ![s] = "answered"] /\ Dispatch(s, "response")
       \/ /\ peer[s] = "answered"
          /\ peer' = [peer EXCEPT ![s] = "ended"] /\ Dispatch(s, "end")
       \/ /\ peer[s] \in {"reached", "answered"}
          /\ peer' = [peer EXCEPT ![s] = "reset"] /\ Dispatch(s, "reset")
  /\ UNCHANGED <<conn, admission, opened, remote, window, settings, output,
                 phase, sid, result>>

ReceiveWindow(r) ==
  /\ Receives(r)
  /\ \E s \in 1 .. opened :
       /\ ~window[s] /\ peer[s] # "none"
       /\ window' = [window EXCEPT ![s] = TRUE]
  /\ UNCHANGED <<conn, admission, events, opened, remote, peer, settings, output,
                 phase, sid, result>>

\* The streams above the last stream id were not and will not be processed.
ReceiveGoAway(r) ==
  /\ Receives(r)
  /\ \E last \in 0 .. opened :
       /\ \A s \in last + 1 .. opened : peer[s] \in {"none", "reached"}
       /\ terminated' = last
  /\ UNCHANGED <<state, ready, used, failed, admission, events, library, output,
                 phase, sid, result>>

-----------------------------------------------------------------------------
(***************************************************************************)
(* Closing.                                                                *)
(***************************************************************************)
\* The permit of a closed stream.  Variants: the deficit is forgotten; the
\* permit is lost.
ReleaseFreely == deficit' = deficit /\ permits' = permits + 1
ReleaseNothing == deficit' = deficit /\ permits' = permits

Release ==
  IF deficit > 0 THEN deficit' = deficit - 1 /\ permits' = permits
                 ELSE deficit' = deficit /\ permits' = permits + 1

\* The state after the last stream was closed, or one of several.
StateAfter(remaining) ==
  IF terminated # None /\ remaining = {} THEN "CLOSED"
  ELSE IF state = "ACTIVE" /\ remaining = {} THEN IF used THEN "CLOSED" ELSE "IDLE"
  ELSE state

\* _response_closed, shielded.
CloseStream(r) ==
  /\ pc[r] = "closing" /\ MayRun(r)
  /\ LET remaining == DOMAIN events \ {sid[r]}
     IN /\ events' = [s \in remaining |-> events[s]]
        /\ state' = StateAfter(remaining)
  /\ IF sid[r] \in DOMAIN events THEN Release ELSE UNCHANGED <<deficit, permits>>
  /\ Goto(r, "done")
  /\ UNCHANGED <<ready, used, terminated, failed, limit, library, output,
                 phase, sid, result>>

\* The pool closes the connection.
AClose ==
  /\ state # "CLOSED" /\ (Yields \/ At("picked") = {})
  /\ state' = "CLOSED"
  /\ UNCHANGED <<ready, used, terminated, failed, admission, events, library,
                 output, task>>

-----------------------------------------------------------------------------
Receive(r) ==
  ReceiveSettings(r) \/ ReceiveEvent(r) \/ ReceiveWindow(r) \/ ReceiveGoAway(r)

\* What the scheduler and the network owe to a request.
Progress(r) ==
  \/ Accept(r) \/ NotAvailable(r) \/ InitLock(r) \/ SendInit(r) \/ InitFails(r)
  \/ Drain(r) \/ Acquire(r) \/ Forfeit(r) \/ Pick(r) \/ Exhausted(r)
  \/ SendHeaders(r) \/ HeadersRefused(r)
  \/ Write(r) \/ WriteRaises(r) \/ Written(r) \/ WriteFails(r)
  \/ SendBody(r) \/ BodyRefused(r) \/ TakeResponse(r) \/ TakeLast(r)
  \/ AwaitEvent(r) \/ NoNeedToRead(r) \/ GoneAway(r) \/ ReadRaises(r) \/ Read(r)
  \/ Receive(r) \/ ReadFails(r) \/ CloseStream(r)

Cancel(r) ==
  \/ DrainCancelled(r) \/ WaitCancelled(r) \/ WriteCancelled(r)
  \/ ExchangeCancelled(r) \/ Abandon(r)

Finished == At("done") = Requests /\ UNCHANGED vars

Next ==
  \/ \E r \in Requests : Progress(r) \/ Cancel(r)
  \/ AClose
  \/ Finished

Spec == Init /\ [][Next]_vars

FairSpec == Spec /\ \A r \in Requests : WF_vars(Progress(r))

-----------------------------------------------------------------------------
(***************************************************************************)
(* Properties.                                                             *)
(***************************************************************************)
\* The variables keep their types; in particular permits and deficit never
\* fall below zero, however the limit moves (_receive_remote_settings_change).
TypeOK ==
  /\ state \in {"IDLE", "ACTIVE", "CLOSED"}
  /\ ready \in BOOLEAN /\ used \in BOOLEAN
  /\ terminated \in 0 .. LastStreamId \cup {None}
  /\ failed \subseteq {"read", "write"}
  /\ limit \in 0 .. LocalLimit /\ deficit \in Nat /\ permits \in Nat
  /\ DOMAIN events \subseteq StreamIds
  /\ \A s \in DOMAIN events : events[s] \in Seq({"response", "end", "reset"})
  /\ opened \in 0 .. LastStreamId
  /\ remote \in 0 .. LocalLimit + 1
  /\ window \in [StreamIds -> BOOLEAN]
  /\ outbox \subseteq StreamIds /\ wire \subseteq StreamIds
  /\ peer \in [StreamIds -> {"none", "reached", "answered", "ended", "reset"}]
  /\ settings \in 0 .. MaxSettings
  /\ pc \in [Requests -> Stages]
  /\ phase \in [Requests -> {"upload", "response", "body"}]
  /\ sid \in [Requests -> StreamIds \cup {None}]
  /\ result \in [Requests -> {"ok", "failed", "retry", None}]

\* Has r a stream it has not yet closed?
OnStream(r) == sid[r] # None /\ pc[r] # "done"

\* Every permit the limit allows, and every one it revoked but that is still
\* out, is free, in a request's hand, or in use by a stream; permits are not
\* free while some are owed.  Permits never multiply; one is lost only when a
\* stream id is given out twice (its first user was refused by h2, and closes
\* the stream after the second one has picked it).
PermitsConserved ==
  ready /\ At("drain") = {} =>
    LET accounted == permits + Cardinality(At("granted")) + Cardinality(DOMAIN events)
    IN /\ deficit > 0 => permits = 0
       /\ accounted <= limit + deficit
       /\ (\A r, q \in Requests : sid[r] = sid[q] /\ sid[r] # None => r = q)
            => accounted = limit + deficit

\* A stream is opened only below the limit in force, however often it moved: a
\* permit acquired before a drop pays for the drop and is not used.
AdmissionBounded ==
  [][DOMAIN events' \subseteq DOMAIN events
     \/ Cardinality(DOMAIN events') <= limit]_vars

\* A request waits for the socket only if there is nothing for it already: an
\* event read by another request never leaves its receiver waiting (the second
\* look under the read lock).
NoNeedlessRead ==
  \A r \in Requests : pc[r] = "reading" => ~Ready(r)

\* A request is sent again elsewhere (ConnectionNotAvailable) only if the server
\* did not process it.
RetrySafe ==
  \A r \in Requests :
    result[r] = "retry" /\ sid[r] # None =>
      peer[sid[r]] \notin {"answered", "ended", "reset"}

\* No two requests work on one stream: the id h2 tells is used at once.
StreamsDistinct ==
  \A r, q \in {p \in Requests : OnStream(p) /\ pc[p] # "closing"} :
    sid[r] = sid[q] => r = q

\* Every request that entered the connection ends: no permit, lock or event it
\* waits for is lost for ever.
Ends == \A r \in Requests : pc[r] = "init" ~> pc[r] = "done"

=============================================================================
