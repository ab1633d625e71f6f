------------------------- MODULE WebSocketSession -------------------------
(***************************************************************************)
(* A websocket session of httpx2: the user's thread or task, the receiver  *)
(* and the keep-alive ping in the background, the wsproto connection they  *)
(* share, the stream and the queue of events between receiver and user.    *)
(*                                                                         *)
(* Each actor has an agenda: what it is doing, followed by what it does    *)
(* after that, so that close(), which all three call, needs no return      *)
(* address.  An action is what an actor does between two points at which   *)
(* another one may run: in threads any two accesses to shared state, in    *)
(* tasks two awaits.                                                       *)
(*                                                                         *)
(* Payloads are left out: a message frame is its number.  The server may   *)
(* send anything at any time and hang up; writes may fail; timeouts may    *)
(* expire whenever somebody waits.  A variant is what a slip in the code   *)
(* would make of the definition after it.                                  *)
(***************************************************************************)
EXTENDS Naturals, Sequences, FiniteSets, SequencesExt

CONSTANTS Modes,      \* which of "threads" and "tasks" to consider
          QueueSize,  \* queue_size
          MaxSize,    \* max_message_size_bytes, in frames
          MaxEvents   \* bound: messages sent, pings sent, frames received

ASSUME SessionAssumption ==
  /\ Modes \subseteq {"threads", "tasks"}
  /\ QueueSize \in Nat \ {0}
  /\ {MaxSize, MaxEvents} \subseteq Nat

VARIABLES
  mode,        \* the sync session with threads or the async one with tasks
  proto,       \* the state of the wsproto connection
  sock,        \* the network stream
  shouldClose, \* _should_close
  cancelled,   \* the cancel scope of the background task group
  queue,       \* _events
  shut,        \* queue.shutdown() was called
  agenda,      \* what each actor does, and does next
  running,     \* the task between two awaits, "nobody" for threads
  frame,       \* the bytes an actor has got from wsproto and not written yet
  item,        \* the event a background actor is putting into the queue
  writers,     \* the tasks waiting for _write_lock, in order
  wire,        \* the frame written to the stream last
  batch,       \* the events of the last read that are not handled yet
  partial,     \* partial_message_buffer
  frames,      \* for every message frame handled, whether it ends a message
  delivered,   \* the messages receive() has returned
  awaited,     \* a ping was sent and its pong not yet handled
  events       \* how many sends, pings and arrivals there were

shared == <<mode, shut, cancelled>>
control == <<agenda, running>>
counts == <<awaited, events>>
inbox  == <<batch, partial, frames>>
vars == <<shared, proto, sock, shouldClose, queue, control, frame, item,
          writers, wire, inbox, delivered, counts>>

Actors == {"user", "receiver", "pinger"}
Background == {"receiver", "pinger"}
Threads == mode = "threads"

Kinds == {"part", "last", "ping", "pong", "close", "bad"}

Init ==
  /\ mode \in Modes
  /\ proto = "open" /\ sock = "open"
  /\ shouldClose = FALSE /\ cancelled = FALSE /\ shut = FALSE
  /\ queue = <<>> /\ writers = <<>> /\ wire = "none"
  /\ agenda = [a \in Actors |-> IF a = "user" THEN <<"connect">> ELSE <<"done">>]
  /\ running = "nobody"
  /\ frame = [a \in Actors |-> "none"]
  /\ item = [a \in Background |-> <<>>]
  /\ batch = <<>> /\ partial = <<>> /\ frames = <<>> /\ delivered = <<>>
  /\ awaited = FALSE /\ events = 0

-----------------------------------------------------------------------------
Doing(a) == Head(agenda[a])

\* Stages without an await: a task that gets there keeps the event loop.
Busy == {"handle", "die"}
MayRun(a) == running \in {"nobody", a}

Instead(a, stages) ==
  /\ agenda' = [agenda EXCEPT ![a] = stages]
  /\ running' = IF ~Threads /\ Head(stages) \in Busy THEN a ELSE "nobody"

\* The actor goes on with these stages, then with the rest of its agenda.
Continue(a, stages) == Instead(a, stages \o Tail(agenda[a]))

\* wsproto: what may be sent in which state, and what it does to the state.
Sendable(kind) ==
  proto \in IF kind = "close" THEN {"open", "remote_closing"} ELSE {"open"}
AfterSending(kind) ==
  IF kind # "close" THEN proto
  ELSE IF proto = "open" THEN "local_closing" ELSE "closed"

\* connection.send(), and the bytes wait to be written under _write_lock,
\* which anyio gives to tasks in order and the threads get in any order.
Emit(a, kind) ==
  /\ frame' = [frame EXCEPT ![a] = kind]
  /\ proto' = AfterSending(kind)
  /\ writers' = IF Threads THEN writers ELSE Append(writers, a)

-----------------------------------------------------------------------------
(***************************************************************************)
(* Opening: WebSocketClient.connect and __enter__.                         *)
(***************************************************************************)
\* The server agreed to the upgrade; the background actors start.
Connect ==
  /\ Doing("user") = "connect"
  /\ running' = "nobody"
  /\ agenda' = [user |-> <<"idle">>, receiver |-> <<"read">>, pinger |-> <<"sleep">>]
  /\ UNCHANGED <<mode, shut, cancelled, proto, sock, shouldClose, queue, frame,
                 item, writers, wire, inbox, delivered, counts>>

\* It did not: WebSocketUpgradeError, and the response is closed on the way.
Refuse ==
  /\ Doing("user") = "connect"
  /\ sock' = "closed"
  /\ Instead("user", <<"raised">>)
  /\ UNCHANGED <<mode, shut, cancelled, proto, shouldClose, queue, frame, item,
                 writers, wire, inbox, delivered, counts>>

-----------------------------------------------------------------------------
(***************************************************************************)
(* Closing, called by any actor.                                           *)
(***************************************************************************)
NeedsFarewell == proto \notin {"local_closing", "closed"}

\* Variant: nothing is left to do when another actor is closing.
AlreadyClosingReturns == <<>>

\* What is left to do when the close frame was sent before.
AlreadyClosing == <<"hangup">>

\* _should_close is set and the state is tested; a task also gets the bytes.
Close(a) ==
  /\ Doing(a) = "close" /\ MayRun(a)
  /\ shouldClose' = TRUE
  /\ IF ~NeedsFarewell
     THEN Continue(a, AlreadyClosing) /\ UNCHANGED <<proto, frame, writers>>
     ELSE IF Threads
          THEN Continue(a, <<"farewell">>) /\ UNCHANGED <<proto, frame, writers>>
          ELSE Continue(a, <<"write", "hangup">>) /\ Emit(a, "close")
  /\ UNCHANGED <<shared, sock, queue, item, wire, inbox, delivered, counts>>

\* An exception nobody catches: the end of a thread, and for a task also the
\* end of its task group.
Dies(a) == IF Threads THEN <<"done">> ELSE <<"die">>

\* Variant: the session is closed and nobody is told.
ReportNothing == <<"close", "done">>

\* What a background actor does when the session is over for it.
Report == <<"close", "put", "done">>

\* The user is in __exit__.
Leaving == Last(agenda["user"]) \in {"join", "drain", "shutdown"}

\* A thread gets the bytes of its close frame, unless another one was faster:
\* then LocalProtocolError leaves close(), and __exit__ without joining, and
\* closing the response closes the stream.
Farewell(a) ==
  /\ Doing(a) = "farewell"
  /\ IF Sendable("close")
     THEN Continue(a, <<"write", "hangup">>) /\ Emit(a, "close")
          /\ sock' = sock
     ELSE /\ Instead(a, IF a \in Background THEN Dies(a)
                        ELSE IF Leaving THEN <<"raised">> ELSE <<"closed">>)
          /\ sock' = IF a = "user" /\ Leaving THEN "closed" ELSE sock
          /\ UNCHANGED <<proto, frame, writers>>
  /\ UNCHANGED <<shared, shouldClose, queue, item, wire, inbox,
                 delivered, counts>>

Hangup(a) ==
  /\ Doing(a) = "hangup" /\ MayRun(a)
  /\ sock' = "closed"
  /\ Continue(a, <<>>)
  /\ UNCHANGED <<shared, proto, shouldClose, queue, frame, item, writers, wire,
                 inbox, delivered, counts>>

-----------------------------------------------------------------------------
(***************************************************************************)
(* Writing under the lock, called by any actor.                            *)
(***************************************************************************)
\* Variant: tasks get the lock in any order.
HasLockAnyhow(a) == TRUE

HasLock(a) == writers # <<>> => a = Head(writers)

Written(a) ==
  /\ frame' = [frame EXCEPT ![a] = "none"]
  /\ writers' = RemoveFirst(writers, a)

Write(a) ==
  /\ Doing(a) = "write" /\ HasLock(a) /\ MayRun(a) /\ sock = "open"
  /\ wire' = frame[a]
  /\ Written(a)
  /\ Continue(a, <<>>)
  /\ UNCHANGED <<shared, proto, sock, shouldClose, queue, item, inbox,
                 delivered, counts>>

\* WriteError: ignored in close(); a send closes the session and raises
\* WebSocketNetworkError, which kills the pinger; the receiver closes and
\* reports it.
WriteFails(a) ==
  /\ Doing(a) = "write" /\ HasLock(a) /\ MayRun(a)
  /\ Written(a)
  /\ sock' = IF sock = "open" THEN "broken" ELSE sock
  /\ \/ agenda[a][2] = "hangup" /\ Continue(a, <<>>) /\ item' = item
     \/ /\ agenda[a][2] # "hangup"
        /\ CASE a = "user" -> Instead(a, <<"close", "closed">>) /\ item' = item
             [] a = "receiver" -> /\ Instead(a, Report)
                                  /\ item' = [item EXCEPT ![a] = <<"error">>]
             [] a = "pinger" -> /\ Instead(a, <<"close">> \o Dies(a))
                                /\ item' = item
  /\ UNCHANGED <<shared, proto, shouldClose, queue, wire, inbox, delivered, counts>>

-----------------------------------------------------------------------------
(***************************************************************************)
(* The user: send, receive, close, leave the context.                      *)
(***************************************************************************)
\* send(): wsproto refuses unless the connection is open.
Send ==
  /\ Doing("user") = "idle" /\ MayRun("user")
  /\ events < MaxEvents /\ Sendable("data")
  /\ events' = events + 1
  /\ Continue("user", <<"write", "idle">>)
  /\ Emit("user", "data")
  /\ UNCHANGED <<shared, sock, shouldClose, queue, item, wire, inbox,
                 delivered, awaited>>

UserAgenda(from, to) ==
  /\ Doing("user") = from /\ MayRun("user")
  /\ Continue("user", to)

Receive ==
  /\ UserAgenda("idle", <<"receive">>)
  /\ UNCHANGED <<shared, proto, sock, shouldClose, queue, frame, item, writers,
                 wire, inbox, delivered, counts>>

\* A user who closes the session does nothing more with it than to leave.
UserCloses ==
  /\ UserAgenda("idle", <<"close", "closed">>)
  /\ UNCHANGED <<shared, proto, sock, shouldClose, queue, frame, item, writers,
                 wire, inbox, delivered, counts>>

\* receive(): a message is returned, anything else is raised and the user does
\* nothing more than to leave.  receive_text(), receive_bytes() and receive_json()
\* call it; when they raise WebSocketInvalidTypeReceived, the exception carries
\* the message, which counts as delivered here.
Gets(event) == delivered' = IF event[1] = "message" THEN Append(delivered, event[2])
                                                    ELSE delivered
After(event) == IF event[1] = "message" THEN <<"idle">> ELSE <<"closed">>

\* A thread takes the event out of the queue.
Take ==
  /\ Threads /\ Doing("user") = "receive" /\ queue # <<>>
  /\ Gets(Head(queue))
  /\ queue' = Tail(queue)
  /\ Instead("user", After(Head(queue)))
  /\ UNCHANGED <<shared, proto, sock, shouldClose, frame, item, writers, wire,
                 inbox, counts>>

ReceiveTimeout ==
  /\ UserAgenda("receive", <<"idle">>)
  /\ UNCHANGED <<shared, proto, sock, shouldClose, queue, frame, item, writers,
                 wire, inbox, delivered, counts>>

\* Leaving the context: __exit__ of Python before 3.13 or from then on; for
\* tasks it first cancels the background tasks.
Exits == IF Threads THEN {"drain", "shutdown"} ELSE {"join"}
Exit ==
  /\ \E from \in {"idle", "closed"}, to \in Exits : UserAgenda(from, <<"close", to>>)
  /\ cancelled' = ~Threads
  /\ UNCHANGED <<mode, shut, proto, sock, shouldClose, queue, frame,
                 item, writers, wire, inbox, delivered, counts>>

\* The task group cancels its host: whatever the user awaits, it leaves.
UserCancelled ==
  /\ cancelled /\ Doing("user") \notin {"connect", "left", "raised"}
  /\ ~Leaving /\ MayRun("user")
  /\ Instead("user", <<"close", "join">>)
  /\ Written("user")
  /\ UNCHANGED <<shared, proto, sock, shouldClose, queue, item, wire, inbox,
                 delivered, counts>>

\* From Python 3.13 on the queue is shut down, which drops its content ...
ShutQueue ==
  /\ Doing("user") = "shutdown" /\ ~shut
  /\ shut' = TRUE /\ queue' = <<>>
  /\ UNCHANGED <<mode, cancelled, proto, sock, shouldClose, control,
                 frame, item, writers, wire, inbox, delivered, counts>>

\* Variant: the threads are joined without making room for their events.
DrainNothing == Doing("user") = "drain" /\ queue # <<>> /\ UNCHANGED vars

\* ... before that it is emptied again and again while a thread is alive.
Drain ==
  /\ Doing("user") = "drain" /\ queue # <<>>
  /\ queue' = Tail(queue)
  /\ UNCHANGED <<shared, proto, sock, shouldClose, control, frame, item, writers,
                 wire, inbox, delivered, counts>>

Joined == \A a \in Background : Doing(a) = "done"

\* The user has left.
Join ==
  /\ Leaving /\ Joined /\ Doing("user") \in Exits
  /\ Doing("user") = "shutdown" => shut
  /\ Instead("user", <<"left">>)
  /\ UNCHANGED <<mode, shut, cancelled, proto, sock, shouldClose, queue, frame,
                 item, writers, wire, inbox, delivered, counts>>

-----------------------------------------------------------------------------
(***************************************************************************)
(* The background actors.                                                  *)
(***************************************************************************)
\* The test of _should_close at the head of both loops.
Again(a) == IF shouldClose THEN <<"done">>
            ELSE IF a = "receiver" THEN <<"read">> ELSE <<"sleep">>

\* _wait_until_closed: a thread that waits ends with ShouldClose, whatever
\* else has happened meanwhile.  What it had submitted to the executor (the read,
\* the sleep, the wait for the pong) goes on in a worker until its own end, and
\* its result is discarded; workers are not actors here, and Background does
\* not contain them.
ShouldClose(a) ==
  /\ Threads /\ shouldClose /\ Doing(a) \in {"read", "sleep", "pong"}
  /\ Instead(a, <<"done">>)
  /\ UNCHANGED <<shared, proto, sock, shouldClose, queue, frame, item, writers,
                 wire, inbox, delivered, counts>>

\* What one read may bring; a ping is answered once it was written.
Arrivals ==
  {b \in {<<k>> : k \in Kinds} \cup {<<k, l>> : k \in Kinds \ {"close", "bad"}, l \in Kinds} :
     /\ events + Len(b) <= MaxEvents
     /\ Cardinality({i \in DOMAIN b : b[i] = "pong"}) <=
          IF awaited /\ frame["pinger"] # "ping" THEN 1 ELSE 0}

Waits(a, stage) == Doing(a) = stage /\ MayRun(a) /\ ~(Threads /\ shouldClose)

Read ==
  /\ Waits("receiver", "read") /\ sock = "open"
  /\ \E b \in Arrivals : batch' = b /\ events' = events + Len(b)
  /\ Continue("receiver", <<"handle">>)
  /\ UNCHANGED <<shared, proto, sock, shouldClose, queue, frame, item, writers,
                 wire, partial, frames, delivered, awaited>>

\* ReadError, or EndOfStream: close and report it.
ReadFails ==
  /\ Waits("receiver", "read")
  /\ sock' = IF sock = "open" THEN "broken" ELSE sock
  /\ Instead("receiver", Report)
  /\ item' = [item EXCEPT !["receiver"] = <<"error">>]
  /\ UNCHANGED <<shared, proto, shouldClose, queue, frame, writers, wire, inbox,
                 delivered, counts>>

HandleNext(kind) ==
  /\ Doing("receiver") = "handle"
  /\ batch # <<>> /\ Head(batch) = kind
  /\ batch' = Tail(batch)

Handled ==
  /\ Doing("receiver") = "handle" /\ batch = <<>>
  /\ Continue("receiver", Again("receiver"))
  /\ UNCHANGED <<shared, proto, sock, shouldClose, queue, frame, item, writers,
                 wire, inbox, delivered, counts>>

\* A ping is answered; wsproto refuses if close() came in between.
HandlePing ==
  /\ HandleNext("ping")
  /\ IF Sendable("pong")
     THEN Continue("receiver", <<"write", "handle">>) /\ Emit("receiver", "pong")
     ELSE Instead("receiver", Dies("receiver")) /\ UNCHANGED <<proto, frame, writers>>
  /\ UNCHANGED <<shared, sock, shouldClose, queue, item, wire, partial, frames,
                 delivered, counts>>

\* PingManager.ack: whoever waits for this pong is woken.
HandlePong ==
  /\ HandleNext("pong")
  /\ awaited' = FALSE
  /\ UNCHANGED <<shared, proto, sock, shouldClose, queue, control, frame, item,
                 writers, wire, partial, frames, delivered, events>>

\* The server's close frame, or what wsproto makes of a frame it cannot parse.
HandleClose ==
  /\ HandleNext("close") \/ HandleNext("bad")
  /\ shouldClose' = TRUE
  /\ proto' = IF Head(batch) = "bad" THEN proto
              ELSE IF proto = "local_closing" THEN "closed" ELSE "remote_closing"
  /\ Continue("receiver", <<"put", "handle">>)
  /\ item' = [item EXCEPT !["receiver"] = <<"close">>]
  /\ UNCHANGED <<shared, sock, queue, frame, writers, wire, partial, frames,
                 delivered, counts>>

Buffered == Append(partial, Len(frames) + 1)
TooBig == Len(Buffered) > MaxSize

\* Variant: the buffer survives the message it was part of.
KeepBuffer == Buffered

\* partial_message_buffer after a message is complete.
ClearBuffer == <<>>

\* An unfinished message is kept, a finished one put into the queue.
HandleMessage ==
  /\ batch # <<>> /\ ~TooBig
  /\ frames' = Append(frames, Head(batch) = "last")
  /\ \/ /\ HandleNext("part")
        /\ partial' = Buffered
        /\ UNCHANGED <<control, item>>
     \/ /\ HandleNext("last")
        /\ partial' = ClearBuffer
        /\ item' = [item EXCEPT !["receiver"] = <<"message", Buffered>>]
        /\ Continue("receiver", <<"put", "handle">>)
  /\ UNCHANGED <<shared, proto, sock, shouldClose, queue, frame, writers, wire,
                 delivered, counts>>

\* More than max_message_size_bytes: close, report, and drop the other events.
HandleTooBig ==
  /\ HandleNext("part") \/ HandleNext("last")
  /\ TooBig
  /\ Continue("receiver", Report)
  /\ item' = [item EXCEPT !["receiver"] = <<"close">>]
  /\ UNCHANGED <<shared, proto, sock, shouldClose, queue, frame, writers, wire,
                 partial, frames, delivered, counts>>

\* A thread blocks while the queue is full and ends when it is shut down ...
PutInQueue(a) ==
  /\ Threads /\ Doing(a) = "put"
  /\ \/ shut /\ Instead(a, <<"done">>) /\ queue' = queue
     \/ /\ ~shut /\ Len(queue) < QueueSize
        /\ queue' = Append(queue, item[a])
        /\ Continue(a, <<>>)
  /\ item' = [item EXCEPT ![a] = <<>>]
  /\ UNCHANGED <<shared, proto, sock, shouldClose, frame, writers, wire, inbox,
                 delivered, counts>>

\* ... a task hands it over to a user who is receiving (a stream without
\* buffer).
HandOver(a) ==
  /\ ~Threads /\ Doing(a) = "put" /\ MayRun(a) /\ Doing("user") = "receive"
  /\ Gets(item[a])
  /\ agenda' = [agenda EXCEPT ![a] = Tail(@), !["user"] = After(item[a])]
  /\ running' = "nobody"
  /\ item' = [item EXCEPT ![a] = <<>>]
  /\ UNCHANGED <<shared, proto, sock, shouldClose, queue, frame, writers, wire,
                 inbox, counts>>

\* The interval is over: the next ping, unless the connection is closing.
Ping ==
  /\ Waits("pinger", "sleep") /\ events < MaxEvents
  /\ IF Sendable("ping")
     THEN /\ Continue("pinger", <<"write", "pong">>) /\ Emit("pinger", "ping")
          /\ awaited' = TRUE /\ events' = events + 1
     ELSE Instead("pinger", <<"done">>) /\ UNCHANGED <<proto, frame, writers, counts>>
  /\ UNCHANGED <<shared, sock, shouldClose, queue, item, wire, inbox, delivered>>

Ponged ==
  /\ Waits("pinger", "pong") /\ ~awaited
  /\ Continue("pinger", Again("pinger"))
  /\ UNCHANGED <<shared, proto, sock, shouldClose, queue, frame, item, writers,
                 wire, inbox, delivered, counts>>

\* No pong in time: close and report it.
PongTimeout ==
  /\ Waits("pinger", "pong") /\ awaited
  /\ Continue("pinger", Report)
  /\ item' = [item EXCEPT !["pinger"] = <<"error">>]
  /\ UNCHANGED <<shared, proto, sock, shouldClose, queue, frame, writers, wire,
                 inbox, delivered, counts>>

\* An exception leaves a background task: the task group cancels the others.
Die(a) ==
  /\ Doing(a) = "die"
  /\ cancelled' = TRUE
  /\ Instead(a, <<"done">>)
  /\ UNCHANGED <<mode, shut, proto, sock, shouldClose, queue, frame,
                 item, writers, wire, inbox, delivered, counts>>

\* A background task is cancelled at the await it is at.
BackgroundCancelled(a) ==
  /\ cancelled /\ Doing(a) \notin Busy \cup {"done"} /\ MayRun(a)
  /\ Instead(a, <<"done">>)
  /\ Written(a)
  /\ UNCHANGED <<shared, proto, sock, shouldClose, queue, item, wire, inbox,
                 delivered, counts>>

-----------------------------------------------------------------------------
\* What an actor does once it can: everything but starting something new,
\* hearing from the server, failing, and timers.
Progress(a) ==
  \/ Close(a) \/ Farewell(a) \/ Hangup(a) \/ Write(a) \/ WriteFails(a)
  \/ /\ a \in Background
     /\ \/ ShouldClose(a) \/ PutInQueue(a) \/ HandOver(a)
        \/ Die(a) \/ BackgroundCancelled(a)
  \/ /\ a = "receiver"
     /\ \/ Handled \/ HandlePing \/ HandlePong \/ HandleClose
        \/ HandleMessage \/ HandleTooBig
        \/ sock # "open" /\ ReadFails
  \/ a = "pinger" /\ Ponged
  \/ a = "user" /\ (Take \/ UserCancelled \/ ShutQueue \/ Drain \/ Join)

\* Nothing is left to do for the user, nor for the background actors, unless
\* they are stuck.
Finished == Doing("user") \in {"left", "raised"} /\ UNCHANGED vars

Next ==
  \/ Connect \/ Refuse
  \/ Send \/ Receive \/ UserCloses \/ ReceiveTimeout \/ Exit
  \/ \E a \in Actors : Progress(a)
  \/ Read \/ ReadFails
  \/ Ping \/ PongTimeout
  \/ Finished

Spec == Init /\ [][Next]_vars

FairSpec == Spec /\ \A a \in Actors : WF_vars(Progress(a))

-----------------------------------------------------------------------------
(***************************************************************************)
(* Properties.                                                             *)
(***************************************************************************)
Stages == {"connect", "idle", "closed", "receive", "join", "drain", "shutdown", "left", "raised", "close",
           "farewell", "write", "hangup", "read", "handle", "sleep",
           "pong", "put", "die", "done"}

\* Types; an agenda is never empty, nobody waits for the lock twice.
TypeOK ==
  /\ mode \in Modes
  /\ proto \in {"open", "local_closing", "remote_closing", "closed"}
  /\ sock \in {"open", "broken", "closed"}
  /\ {shouldClose, cancelled, shut} \subseteq BOOLEAN
  /\ Len(queue) <= QueueSize
  /\ agenda \in [Actors -> Seq(Stages) \ {<<>>}]
  /\ running \in Background \cup {"nobody"}
  /\ frame \in [Actors -> {"none", "data", "ping", "pong", "close"}]
  /\ IsInjective(writers) /\ ToSet(writers) \subseteq Actors
  /\ wire \in {"none", "data", "ping", "pong", "close"}
  /\ ToSet(batch) \subseteq Kinds
  /\ ToSet(frames) \subseteq BOOLEAN
  /\ Len(partial) <= MaxSize

\* The user gets every message once, whole and in the order of its frames,
\* however they were cut into reads and whoever else was running.
DeliveredInOrder ==
  LET got == FlattenSeq(delivered)
  IN /\ got = [i \in 1..Len(got) |-> i]
     /\ \A m \in ToSet(delivered) : \A i \in DOMAIN m :
          frames[m[i]] <=> i = Len(m)

\* Tasks write nothing after the close frame.
NothingAfterClose == [][mode = "tasks" /\ wire = "close" => wire' = wire]_vars

\* A user who has left the context without an exception from close() leaves
\* nothing behind: the stream is closed, the closing handshake was started, no
\* background actor is alive.  (A worker of the executor may be: see ShouldClose.)
LeftClean ==
  Doing("user") = "left" =>
    /\ sock = "closed" /\ proto # "open"
    /\ \A a \in Background : Doing(a) = "done"
    /\ \A a \in Actors : frame[a] = "none"

\* Leaving the context ends, even if a background actor is blocked on a full
\* queue, in a write or in a read.
ExitEnds == Leaving ~> Doing("user") \in {"left", "raised"}

\* A task's receive() that waits when the session is closing is answered: the
\* documentation of receive() promises it an exception.  (A thread's is not, see
\* the README.)
ReceiveAnsweredInTasks ==
  Doing("user") = "receive" /\ shouldClose /\ mode = "tasks" ~> Doing("user") # "receive"

=============================================================================
