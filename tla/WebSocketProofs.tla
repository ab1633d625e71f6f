-------------------------- MODULE WebSocketProofs --------------------------
(***************************************************************************)
(* What a websocket session delivers, what it leaves behind and what it    *)
(* writes last, for every queue size, message size and number of events.   *)
(*                                                                         *)
(* The agendas that can occur are enumerated: close() is on the agenda of  *)
(* whoever calls it, in front of what the caller does after it.  Every     *)
(* action then is a move of one actor from one agenda to another (Moves),  *)
(* and the invariant is preserved by moves, whichever action makes them.   *)
(* The order of the messages has an invariant of its own, at the end: most *)
(* actions only pass on what their actor has to report (Passes).           *)
(***************************************************************************)
EXTENDS WebSocketSession, SequenceLemmas

-----------------------------------------------------------------------------
(***************************************************************************)
(* The invariant.                                                          *)
(***************************************************************************)
\* What an actor does once close() has returned.
Rests(a) == IF a = "user" THEN {<<x>> : x \in {"closed", "join", "drain", "shutdown"}}
                          ELSE {<<"put", "done">>, <<"done">>, <<"die">>}

\* close() before it has tested or changed the state of wsproto, and after.
Calls(a) == {<<k>> \o r : k \in {"close", "farewell"}, r \in Rests(a)}
Handshakes(a) == {<<"hangup">> \o r : r \in Rests(a)}
                 \cup {<<"write", "hangup">> \o r : r \in Rests(a)}

\* The rest of the agendas.
Others(a) ==
  IF a = "user"
  THEN {<<"connect">>, <<"idle">>, <<"receive">>, <<"write", "idle">>, <<"left">>, <<"raised">>}
  ELSE {<<"read">>, <<"handle">>, <<"sleep">>, <<"pong">>,
        <<"put", "handle">>, <<"write", "handle">>, <<"write", "pong">>}

Agendas(a) == Calls(a) \cup Handshakes(a) \cup Rests(a) \cup Others(a)

Protos == {"open", "local_closing", "remote_closing", "closed"}
Frames == {"none", "data", "ping", "pong", "close"}

ShapeInv ==
  /\ proto \in Protos /\ frame \in [Actors -> Frames]
  /\ writers \in Seq(Actors) /\ IsInjective(writers)
  /\ agenda = [a \in Actors |-> agenda[a]]
  /\ \A a \in Actors : agenda[a] \in Agendas(a)

\* Bytes are kept exactly while they are waiting to be written.
FrameInv == \A a \in Actors : frame[a] # "none" <=> Doing(a) = "write"

\* Nobody is in the background before the session and after it.
Alone == \A a \in Background : Doing(a) = "done"

\* The user hangs up when the closing handshake was started, and leaves when the
\* stream is closed.
UserInv ==
  /\ Doing("user") \in {"connect", "left"} => Alone
  /\ agenda["user"] \in Handshakes("user") => proto # "open"
  /\ Doing("user") \in {"join", "drain", "shutdown", "left"} =>
       proto # "open" /\ sock = "closed"

\* Tasks: who waits for the lock has bytes to write; behind a close frame there
\* are only close frames, in the queue of writers and on the wire.
WriterInv ==
  ~Threads =>
    /\ ToSet(writers) = {a \in Actors : frame[a] # "none"}
    /\ \A j, k \in DOMAIN writers :
         j < k /\ frame[writers[j]] = "close" => frame[writers[k]] = "close"
    /\ \A a \in Actors : frame[a] = "close" => proto # "open"
    /\ wire = "close" =>
         proto # "open" /\ \A a \in ToSet(writers) : frame[a] = "close"

IInv == ShapeInv /\ FrameInv /\ UserInv /\ WriterInv

-----------------------------------------------------------------------------
(***************************************************************************)
(* Agendas.                                                                *)
(***************************************************************************)
LEMMA Prefix ==
  ASSUME NEW S, NEW k \in S, NEW r \in Seq(S)
  PROVE  /\ <<k>> \o r \in Seq(S) /\ Head(<<k>> \o r) = k /\ Tail(<<k>> \o r) = r
         /\ r # << >> => Last(<<k>> \o r) = Last(r)
<1> DEFINE p == <<k>>
           t == p \o r
<1>1. p \in Seq(S) /\ Len(p) = 1 /\ p[1] = k
  OBVIOUS
<1>2. Len(r) \in Nat
  BY LenProperties
<1> HIDE DEF p
<1>3. /\ t \in Seq(S) /\ Len(t) = 1 + Len(r)
      /\ \A i \in 1 .. (1 + Len(r)) : t[i] = IF i <= 1 THEN p[i] ELSE r[i - 1]
  <2>1. /\ t \in Seq(S) /\ Len(t) = Len(p) + Len(r)
        /\ \A i \in 1 .. (Len(p) + Len(r)) : t[i] = IF i <= Len(p) THEN p[i] ELSE r[i - Len(p)]
    BY <1>1, ConcatProperties
  <2>2. QED BY <1>1, <2>1
<1> HIDE DEF t
<1>4. t # << >> /\ t[1] = k
  BY <1>1, <1>2, <1>3, EmptySeq
<1>5. /\ Head(t) = t[1] /\ Tail(t) \in Seq(S) /\ Len(Tail(t)) = Len(t) - 1
      /\ \A i \in 1 .. Len(Tail(t)) : Tail(t)[i] = t[i + 1]
  BY <1>3, <1>4, HeadTailProperties
<1>6. Len(Tail(t)) = Len(r)
  BY <1>2, <1>3, <1>5
<1>7. ASSUME NEW i \in 1 .. Len(r) PROVE Tail(t)[i] = r[i]
  BY <1>2, <1>3, <1>5, <1>6
<1>8. Tail(t) = r
  BY <1>5, <1>6, <1>7, SeqEqual
<1>9. r # << >> => Last(t) = Last(r)
  <2> SUFFICES ASSUME r # << >> PROVE Last(t) = Last(r)
    OBVIOUS
  <2>1. Len(r) \in Nat \ {0}
    BY EmptySeq
  <2>2. t[1 + Len(r)] = r[Len(r)]
    BY <1>3, <2>1
  <2>3. QED BY <1>3, <2>2 DEF Last
<1>10. QED BY <1>3, <1>4, <1>5, <1>8, <1>9 DEF t, p

\* Tuples put together from shorter ones.
LEMMA Pair ==
  ASSUME NEW S, NEW k \in S, NEW l \in S
  PROVE  <<k>> \o <<l>> = <<k, l>>
<1> DEFINE x == <<k>>
           y == <<l>>
           c == x \o y
<1>1. x \in Seq(S) /\ y \in Seq(S) /\ Len(x) = 1 /\ Len(y) = 1 /\ x[1] = k /\ y[1] = l
  OBVIOUS
<1>2. c \in Seq(S) /\ Len(c) = 2 /\ c[1] = x[1] /\ c[2] = y[1]
  <2> HIDE DEF x, y
  <2>1. 1 \in 1 .. 2 /\ 2 \in 1 .. 2
    OBVIOUS
  <2>2. QED BY <1>1, <2>1, ConcatProperties, SMTT(40)
<1>3. c = <<c[1], c[2]>>
  <2> HIDE DEF c
  <2>1. QED BY <1>2
<1>4. QED BY <1>1, <1>2, <1>3

LEMMA Triple ==
  ASSUME NEW S, NEW k \in S, NEW l \in S, NEW m \in S
  PROVE  <<k>> \o <<l, m>> = <<k, l, m>>
<1> DEFINE x == <<k>>
           y == <<l, m>>
           c == x \o y
<1>1. x \in Seq(S) /\ y \in Seq(S) /\ Len(x) = 1 /\ Len(y) = 2
      /\ x[1] = k /\ y[1] = l /\ y[2] = m
  OBVIOUS
<1>2. c \in Seq(S) /\ Len(c) = 3 /\ c[1] = x[1] /\ c[2] = y[1] /\ c[3] = y[2]
  <2> HIDE DEF x, y
  <2>1. 1 \in 1 .. 3 /\ 2 \in 1 .. 3 /\ 3 \in 1 .. 3
    OBVIOUS
  <2>2. QED BY <1>1, <2>1, ConcatProperties, SMTT(40)
<1>3. c = <<c[1], c[2], c[3]>>
  <2> HIDE DEF c
  <2>1. QED BY <1>2
<1>4. QED BY <1>1, <1>2, <1>3

LEMMA TwoPrefix ==
  ASSUME NEW S, NEW k \in S, NEW l \in S, NEW r \in Seq(S)
  PROVE  <<k, l>> \o r = <<k>> \o (<<l>> \o r) /\ (<<k, l>> \o r)[2] = l
<1> DEFINE p == <<k, l>>
<1>1. <<k>> \in Seq(S) /\ <<l>> \in Seq(S) /\ p \in Seq(S) /\ Len(p) = 2 /\ p[2] = l
  OBVIOUS
<1>2. <<k>> \o <<l>> = p
  BY Pair
<1>3. (<<k>> \o <<l>>) \o r = <<k>> \o (<<l>> \o r)
  BY <1>1, ConcatAssociative
<1> HIDE DEF p
<1>4. Len(r) \in Nat
  BY LenProperties
<1>5. 2 \in 1 .. (Len(p) + Len(r)) /\ 2 <= Len(p)
  BY <1>1, <1>4
<1>6. (p \o r)[2] = p[2]
  BY <1>1, <1>5, ConcatProperties, ZenonT(60)
<1>7. QED BY <1>1, <1>2, <1>3, <1>6 DEF p

\* What follows a close() is never empty, and begins with none of its stages.
LEMMA RestShape ==
  ASSUME NEW a \in Actors, NEW r \in Rests(a)
  PROVE  /\ r \in Seq(Stages) /\ r # << >>
         /\ Head(r) \in {"closed", "join", "drain", "shutdown", "put", "done", "die"}
         /\ a # "user" => Head(r) \in {"put", "done", "die"}
         /\ a = "user" => Head(r) \in {"closed", "join", "drain", "shutdown"}
         /\ r = <<Head(r)>> \/ r = <<"put", "done">>
<1>1. {"closed", "join", "drain", "shutdown", "put", "done", "die"} \subseteq Stages
  BY DEF Stages
<1>2. CASE a = "user"
  <2>1. PICK x \in {"closed", "join", "drain", "shutdown"} : r = <<x>>
    BY <1>2 DEF Rests
  <2>2. QED BY <1>1, <1>2, <2>1
<1>3. CASE a # "user"
  <2>1. r \in {<<"put", "done">>, <<"done">>, <<"die">>}
    BY <1>3 DEF Rests
  <2>2. CASE r = <<"put", "done">>
    BY <1>1, <1>3, <2>2
  <2>3. CASE r = <<"done">>
    BY <1>1, <1>3, <2>3
  <2>4. CASE r = <<"die">>
    BY <1>1, <1>3, <2>4
  <2>5. QED BY <2>1, <2>2, <2>3, <2>4
<1>4. QED BY <1>2, <1>3

\* The agendas of a close().
LEMMA CallShape ==
  ASSUME NEW a \in Actors, NEW r \in Rests(a)
  PROVE  /\ \A k \in {"close", "farewell", "hangup"} :
              /\ <<k>> \o r \in Agendas(a) /\ <<k>> \o r \in Seq(Stages)
              /\ Head(<<k>> \o r) = k /\ Tail(<<k>> \o r) = r
         /\ <<"hangup">> \o r \in Handshakes(a)
         /\ <<"write", "hangup">> \o r \in Agendas(a)
         /\ <<"write", "hangup">> \o r \in Handshakes(a)
         /\ Head(<<"write", "hangup">> \o r) = "write"
         /\ Tail(<<"write", "hangup">> \o r) = <<"hangup">> \o r
         /\ (<<"write", "hangup">> \o r)[2] = "hangup"
<1>1. {"close", "farewell", "hangup", "write"} \subseteq Stages /\ r \in Seq(Stages)
  BY RestShape DEF Stages
<1>2. ASSUME NEW k \in {"close", "farewell", "hangup"}
      PROVE  /\ <<k>> \o r \in Agendas(a) /\ <<k>> \o r \in Seq(Stages)
             /\ Head(<<k>> \o r) = k /\ Tail(<<k>> \o r) = r
  <2>1. k \in Stages
    BY <1>1
  <2>2. /\ <<k>> \o r \in Seq(Stages)
        /\ Head(<<k>> \o r) = k /\ Tail(<<k>> \o r) = r
    BY <1>1, <2>1, Prefix
  <2>3. <<k>> \o r \in Agendas(a)
    BY DEF Agendas, Calls, Handshakes
  <2>4. QED BY <2>2, <2>3
<1>3. <<"hangup">> \o r \in Handshakes(a) /\ <<"write", "hangup">> \o r \in Handshakes(a)
  BY DEF Handshakes
<1>4. <<"hangup">> \o r \in Seq(Stages)
  BY <1>2
<1>5. /\ <<"write", "hangup">> \o r = <<"write">> \o (<<"hangup">> \o r)
      /\ (<<"write", "hangup">> \o r)[2] = "hangup"
  BY <1>1, TwoPrefix
<1>6. /\ Head(<<"write">> \o (<<"hangup">> \o r)) = "write"
      /\ Tail(<<"write">> \o (<<"hangup">> \o r)) = <<"hangup">> \o r
  BY <1>1, <1>4, Prefix
<1>7. QED BY <1>2, <1>3, <1>5, <1>6 DEF Agendas

\* The stages that are an agenda of their own.
Single == {"connect", "idle", "closed", "receive", "join", "drain", "shutdown", "left",
           "raised", "read", "handle", "sleep", "pong", "die", "done"}

\* What an actor does says what its agenda is.
LEMMA ByStage ==
  ASSUME NEW a \in Actors, NEW t \in Agendas(a)
  PROVE  /\ Head(t) \in {"close", "farewell", "hangup"} =>
              \E r \in Rests(a) : t = <<Head(t)>> \o r
         /\ Head(t) \in Single => t = <<Head(t)>>
         /\ Head(t) = "put" => a # "user" /\ t \in {<<"put", "done">>, <<"put", "handle">>}
         /\ Head(t) = "write" =>
              \/ \E r \in Rests(a) : t = <<"write", "hangup">> \o r
              \/ a = "user" /\ t = <<"write", "idle">>
              \/ a # "user" /\ t \in {<<"write", "handle">>, <<"write", "pong">>}
         /\ t \in Handshakes(a) =>
              Head(t) = "hangup" \/ (Head(t) = "write" /\ t[2] = "hangup")
         /\ a = "user" => Head(t) \notin {"put", "read", "handle", "sleep", "pong", "die", "done"}
         /\ a # "user" => Head(t) \notin {"connect", "idle", "closed", "receive", "join",
                                           "drain", "shutdown", "left", "raised"}
<1>1. ASSUME NEW r \in Rests(a), NEW k \in {"close", "farewell", "hangup"}, t = <<k>> \o r
      PROVE  Head(t) = k /\ k \notin Single
  BY <1>1, CallShape DEF Single
<1>2. ASSUME NEW r \in Rests(a), t = <<"write", "hangup">> \o r
      PROVE  Head(t) = "write" /\ t[2] = "hangup"
  BY <1>2, CallShape
<1>3. CASE t \in Calls(a)
  <2>1. PICK k \in {"close", "farewell"}, r \in Rests(a) : t = <<k>> \o r
    BY <1>3 DEF Calls
  <2>2. Head(t) = k /\ k \notin Single
    BY <1>1, <2>1
  <2>3. t \notin Handshakes(a)
    BY <1>1, <1>2, <2>2 DEF Handshakes
  <2>4. QED BY <2>1, <2>2, <2>3
<1>4. CASE t \in Handshakes(a)
  <2>1. PICK r \in Rests(a) : t = <<"hangup">> \o r \/ t = <<"write", "hangup">> \o r
    BY <1>4 DEF Handshakes
  <2>2. CASE t = <<"hangup">> \o r
    <3>1. Head(t) = "hangup" /\ Head(t) \notin Single
      BY <1>1, <2>2
    <3>2. QED BY <2>2, <3>1
  <2>3. CASE t = <<"write", "hangup">> \o r
    <3>1. Head(t) = "write" /\ t[2] = "hangup" /\ Head(t) \notin Single
      BY <1>2, <2>3 DEF Single
    <3>2. QED BY <2>3, <3>1
  <2>4. QED BY <2>1, <2>2, <2>3
<1>5. CASE t \in Rests(a)
  <2>1. /\ Head(t) \in {"closed", "join", "drain", "shutdown", "put", "done", "die"}
        /\ a # "user" => Head(t) \in {"put", "done", "die"}
        /\ a = "user" => Head(t) \in {"closed", "join", "drain", "shutdown"}
        /\ t = <<Head(t)>> \/ t = <<"put", "done">>
    BY <1>5, RestShape
  <2>2. t \notin Handshakes(a)
    BY <1>1, <1>2, <2>1 DEF Handshakes
  <2>3. Head(t) = "put" => a # "user" /\ t = <<"put", "done">>
    <3>1. ASSUME a # "user", Head(t) = "put" PROVE t = <<"put", "done">>
      BY <1>5, <3>1 DEF Rests
    <3>2. QED BY <2>1, <3>1
  <2>4. Head(t) \in Single => t = <<Head(t)>>
    <3>1. Head(<<"put", "done">>) = "put" /\ "put" \notin Single
      BY DEF Single
    <3>2. QED BY <2>1, <3>1
  <2>5. QED BY <2>1, <2>2, <2>3, <2>4
<1>6. CASE t \in Others(a)
  <2>1. /\ a = "user" => t \in {<<"connect">>, <<"idle">>, <<"receive">>, <<"write", "idle">>,
                                <<"left">>, <<"raised">>}
        /\ a # "user" => t \in {<<"read">>, <<"handle">>, <<"sleep">>, <<"pong">>,
                                <<"put", "handle">>, <<"write", "handle">>, <<"write", "pong">>}
    BY <1>6 DEF Others
  <2>2. t[2] = "hangup" /\ Head(t) = "write" => FALSE
    BY <2>1
  <2>3. t \notin Handshakes(a)
    BY <1>1, <1>2, <2>1, <2>2 DEF Handshakes
  <2>4. QED BY <2>1, <2>3 DEF Single
<1>7. QED BY <1>3, <1>4, <1>5, <1>6 DEF Agendas

-----------------------------------------------------------------------------
(***************************************************************************)
(* Moves.                                                                  *)
(***************************************************************************)
\* Nobody writes; the actor gets bytes to write; it has written them or not, and
\* does no longer wait to.
Silent(a, t) == Head(t) # "write" /\ Doing(a) # "write" /\ UNCHANGED <<frame, writers, wire>>

Emits(a, t) ==
  /\ Head(t) = "write" /\ Doing(a) # "write" /\ wire' = wire
  /\ \E kind \in Frames \ {"none"} : Sendable(kind) /\ Emit(a, kind)

Writes(a, t) ==
  /\ Head(t) # "write" /\ Written(a) /\ proto' = proto
  /\ wire' = wire \/ (wire' = frame[a] /\ Doing(a) = "write" /\ HasLock(a))

\* The closing handshake and the stream go one way only.
OneWay ==
  /\ mode' = mode /\ proto' \in Protos
  /\ proto # "open" => proto' # "open"
  /\ sock = "closed" => sock' = "closed"

\* An actor that is there goes on with the agenda t.
Moves(a, t) ==
  /\ Doing(a) \notin {"left", "raised", "done"}
  /\ t \in Agendas(a) /\ agenda' = [agenda EXCEPT ![a] = t]
  /\ OneWay
  /\ Silent(a, t) \/ Emits(a, t) \/ Writes(a, t)
  /\ a = "user" =>
       /\ Head(t) # "connect"
       /\ t \in Handshakes(a) => proto' # "open"
       /\ Head(t) \in {"join", "drain", "shutdown", "left"} => proto' # "open" /\ sock' = "closed"
       /\ Head(t) = "left" => Alone

\* The rest of the session goes on while all agendas stay.
Stays == UNCHANGED <<agenda, frame, writers, wire>> /\ OneWay

\* What is written while the close frame is on the wire.
Quiet == ~Threads /\ wire = "close" => wire' = wire

LEMMA MoveShape ==
  ASSUME ShapeInv, FrameInv, WriterInv, NEW a \in Actors, NEW t, Moves(a, t)
  PROVE  ShapeInv' /\ agenda' = [b \in Actors |-> IF b = a THEN t ELSE agenda[b]]
<1>1. agenda' = [b \in Actors |-> IF b = a THEN t ELSE agenda[b]]
  <2>1. agenda = [b \in Actors |-> agenda[b]] /\ agenda' = [agenda EXCEPT ![a] = t]
    BY DEF Moves, ShapeInv
  <2>2. QED BY <2>1
<1>2. agenda' = [b \in Actors |-> agenda'[b]] /\ \A b \in Actors : agenda'[b] \in Agendas(b)
  BY <1>1 DEF Moves, ShapeInv
<1>3. frame' \in [Actors -> Frames] /\ writers' \in Seq(Actors) /\ IsInjective(writers')
  <2>1. CASE Silent(a, t)
    BY <2>1 DEF Silent, ShapeInv
  <2>2. CASE Emits(a, t)
    <3>1. PICK kind \in Frames \ {"none"} : Emit(a, kind)
      BY <2>2 DEF Emits
    <3>2. frame' \in [Actors -> Frames]
      BY <3>1 DEF Emit, ShapeInv
    <3>3. frame[a] = "none"
      BY <2>2 DEF Emits, FrameInv
    <3>4. CASE Threads
      BY <3>1, <3>2, <3>4 DEF Emit, ShapeInv
    <3>5. CASE ~Threads
      <4>1. writers' = Append(writers, a)
        BY <3>1, <3>5 DEF Emit
      <4>2. CASE a \notin ToSet(writers)
        BY <3>2, <4>1, <4>2, AppendList DEF ShapeInv
      <4>3. QED BY <3>3, <3>5, <4>2 DEF WriterInv
    <3>6. QED BY <3>4, <3>5
  <2>3. CASE Writes(a, t)
    <3>1. frame' = [frame EXCEPT ![a] = "none"] /\ writers' = RemoveFirst(writers, a)
      BY <2>3 DEF Writes, Written
    <3>2. frame' \in [Actors -> Frames]
      BY <3>1 DEF ShapeInv, Frames
    <3>3. QED BY <3>1, <3>2, RemoveFirstList DEF ShapeInv
  <2>4. QED BY <2>1, <2>2, <2>3 DEF Moves
<1>4. proto' \in Protos
  BY DEF Moves, OneWay
<1>5. QED BY <1>1, <1>2, <1>3, <1>4 DEF ShapeInv

LEMMA MoveFrames ==
  ASSUME ShapeInv, FrameInv, NEW a \in Actors, NEW t, Moves(a, t),
         agenda' = [b \in Actors |-> IF b = a THEN t ELSE agenda[b]]
  PROVE  FrameInv'
<1>1. \A b \in Actors : Doing(b)' = IF b = a THEN Head(t) ELSE Doing(b)
  BY DEF Doing
<1>2. CASE Silent(a, t)
  BY <1>1, <1>2 DEF Silent, FrameInv
<1>3. CASE Emits(a, t)
  <2>1. PICK kind \in Frames \ {"none"} : frame' = [frame EXCEPT ![a] = kind]
    BY <1>3 DEF Emits, Emit
  <2>2. \A b \in Actors : frame'[b] = IF b = a THEN kind ELSE frame[b]
    BY <2>1 DEF ShapeInv
  <2>3. Head(t) = "write"
    BY <1>3 DEF Emits
  <2>4. QED BY <1>1, <2>2, <2>3 DEF FrameInv
<1>4. CASE Writes(a, t)
  <2>1. \A b \in Actors : frame'[b] = IF b = a THEN "none" ELSE frame[b]
    BY <1>4 DEF Writes, Written, ShapeInv
  <2>2. Head(t) # "write"
    BY <1>4 DEF Writes
  <2>3. QED BY <1>1, <2>1, <2>2 DEF FrameInv
<1>5. QED BY <1>2, <1>3, <1>4 DEF Moves

LEMMA MoveUser ==
  ASSUME UserInv, NEW a \in Actors, NEW t, Moves(a, t),
         agenda' = [b \in Actors |-> IF b = a THEN t ELSE agenda[b]]
  PROVE  UserInv'
<1>1. \A b \in Actors : agenda'[b] = IF b = a THEN t ELSE agenda[b]
  OBVIOUS
<1>2. /\ proto # "open" => proto' # "open"
      /\ sock = "closed" => sock' = "closed"
  BY DEF Moves, OneWay
<1>3. CASE a = "user"
  <2>1. \A b \in Background : Doing(b)' = Doing(b)
    BY <1>1, <1>3 DEF Background, Actors, Doing
  <2>2. agenda'["user"] = t /\ Doing("user")' = Head(t)
    BY <1>1, <1>3 DEF Actors, Doing
  <2>3. Handshakes("user")' = Handshakes("user")
    BY DEF Handshakes, Rests
  <2>4. Head(t) = "left" => Alone'
    BY <1>3, <2>1 DEF Moves, Alone
  <2>5. QED BY <1>3, <2>2, <2>3, <2>4 DEF Moves, UserInv
<1>4. CASE a # "user"
  <2>1. agenda'["user"] = agenda["user"] /\ Doing("user")' = Doing("user")
    BY <1>1, <1>4 DEF Actors, Doing
  <2>2. ~Alone
    BY <1>4 DEF Moves, Alone, Actors, Background
  <2>3. QED BY <1>2, <2>1, <2>2 DEF UserInv, Handshakes, Rests
<1>5. QED BY <1>3, <1>4

LEMMA MoveWriters ==
  ASSUME ShapeInv, FrameInv, WriterInv, NEW a \in Actors, NEW t, Moves(a, t)
  PROVE  WriterInv' /\ Quiet
<1> SUFFICES ASSUME ~Threads
             PROVE  /\ ToSet(writers') = {b \in Actors : frame'[b] # "none"}
                    /\ \A j, k \in DOMAIN writers' :
                         j < k /\ frame'[writers'[j]] = "close" => frame'[writers'[k]] = "close"
                    /\ \A b \in Actors : frame'[b] = "close" => proto' # "open"
                    /\ wire' = "close" =>
                         proto' # "open" /\ \A b \in ToSet(writers') : frame'[b] = "close"
                    /\ wire = "close" => wire' = wire
  BY DEF Moves, OneWay, Threads, WriterInv, Quiet
<1>1. proto # "open" => proto' # "open"
  BY DEF Moves, OneWay
<1>2. /\ ToSet(writers) = {b \in Actors : frame[b] # "none"}
      /\ \A j, k \in DOMAIN writers :
           j < k /\ frame[writers[j]] = "close" => frame[writers[k]] = "close"
      /\ \A b \in Actors : frame[b] = "close" => proto # "open"
      /\ wire = "close" =>
           proto # "open" /\ \A b \in ToSet(writers) : frame[b] = "close"
  BY DEF WriterInv
<1>3. CASE Silent(a, t)
  BY <1>1, <1>2, <1>3 DEF Silent
<1>4. CASE Emits(a, t)
  <2>1. PICK kind \in Frames \ {"none"} : Sendable(kind) /\ Emit(a, kind)
    BY <1>4 DEF Emits
  <2>2. /\ \A b \in Actors : frame'[b] = IF b = a THEN kind ELSE frame[b]
        /\ writers' = Append(writers, a) /\ proto' = AfterSending(kind) /\ wire' = wire
    BY <1>4, <2>1 DEF Emit, Emits, ShapeInv
  <2>3. frame[a] = "none" /\ a \notin ToSet(writers)
    BY <1>2, <1>4 DEF Emits, FrameInv
  <2>4. /\ kind = "close" => proto' # "open"
        /\ kind # "close" => proto = "open"
    BY <2>1, <2>2 DEF AfterSending, Sendable
  <2>5. ToSet(writers') = ToSet(writers) \cup {a}
    BY <2>2, AppendList DEF ShapeInv
  <2>6. /\ Len(writers) \in Nat /\ DOMAIN writers = 1 .. Len(writers)
        /\ DOMAIN writers' = 1 .. (Len(writers) + 1)
        /\ \A i \in DOMAIN writers : writers'[i] = writers[i] /\ writers[i] \in ToSet(writers)
        /\ writers'[Len(writers) + 1] = a
    BY <2>2, AppendProperties, Elements DEF ShapeInv
  <2>7. ASSUME NEW j \in DOMAIN writers', NEW k \in DOMAIN writers', j < k,
               frame'[writers'[j]] = "close"
        PROVE  frame'[writers'[k]] = "close"
    <3>1. j \in DOMAIN writers /\ writers[j] \in Actors /\ writers[j] # a
      BY <2>3, <2>6, <2>7, <1>2
    <3>2. frame[writers[j]] = "close"
      BY <2>2, <2>6, <2>7, <3>1
    <3>3. kind = "close"
      BY <1>2, <2>4, <3>1, <3>2
    <3>4. CASE k \in DOMAIN writers
      <4>1. writers[k] \in Actors /\ writers'[k] = writers[k] /\ writers[k] # a
        BY <1>2, <2>3, <2>6, <3>4
      <4>2. frame[writers[k]] = "close"
        BY <1>2, <2>7, <3>1, <3>2, <3>4
      <4>3. QED BY <2>2, <4>1, <4>2
    <3>5. CASE k = Len(writers) + 1
      BY <2>2, <2>6, <3>3, <3>5
    <3>6. QED BY <2>6, <3>4, <3>5
  <2>8. ToSet(writers') = {b \in Actors : frame'[b] # "none"}
    BY <1>2, <2>2, <2>5
  <2>9. \A b \in Actors : frame'[b] = "close" => proto' # "open"
    BY <1>1, <1>2, <2>2, <2>4
  <2>10. wire' = "close" =>
           proto' # "open" /\ \A b \in ToSet(writers') : frame'[b] = "close"
    BY <1>1, <1>2, <2>2, <2>4, <2>5
  <2>11. QED BY <2>2, <2>7, <2>8, <2>9, <2>10
<1>5. CASE Writes(a, t)
  <2>1. /\ \A b \in Actors : frame'[b] = IF b = a THEN "none" ELSE frame[b]
        /\ writers' = RemoveFirst(writers, a) /\ proto' = proto
    BY <1>5 DEF Writes, Written, ShapeInv
  <2>2. /\ ToSet(writers') = ToSet(writers) \ {a}
        /\ \A j, k \in DOMAIN writers' : j < k =>
             \E m, n \in DOMAIN writers :
               m < n /\ writers'[j] = writers[m] /\ writers'[k] = writers[n]
    BY <2>1, RemoveFirstList DEF ShapeInv
  <2>3. \A i \in DOMAIN writers' : writers'[i] \in ToSet(writers) \ {a}
    BY <2>2 DEF ToSet
  <2>4. ASSUME NEW j \in DOMAIN writers', NEW k \in DOMAIN writers', j < k,
               frame'[writers'[j]] = "close"
        PROVE  frame'[writers'[k]] = "close"
    <3>1. PICK m \in DOMAIN writers, n \in DOMAIN writers :
            m < n /\ writers'[j] = writers[m] /\ writers'[k] = writers[n]
      BY <2>2, <2>4
    <3>2. frame'[writers'[j]] = frame[writers[m]] /\ frame'[writers'[k]] = frame[writers[n]]
      BY <1>2, <2>1, <2>3, <3>1
    <3>3. QED BY <1>2, <2>4, <3>1, <3>2
  <2>5. ToSet(writers') = {b \in Actors : frame'[b] # "none"}
    BY <1>2, <2>1, <2>2
  <2>6. \A b \in Actors : frame'[b] = "close" => proto' # "open"
    BY <1>2, <2>1
  <2>7. CASE wire' = wire
    <3>1. wire' = "close" =>
            proto' # "open" /\ \A b \in ToSet(writers') : frame'[b] = "close"
      BY <1>2, <2>1, <2>2, <2>7
    <3>2. QED BY <2>4, <2>5, <2>6, <2>7, <3>1
  <2>8. CASE wire' = frame[a] /\ Doing(a) = "write" /\ HasLock(a)
    <3>1. a \in ToSet(writers)
      BY <1>2, <2>8 DEF FrameInv
    <3>2. Len(writers) \in Nat /\ DOMAIN writers = 1 .. Len(writers) /\ writers # << >>
      <4>1. ToSet(<< >>) = {}
        BY EmptyList
      <4>2. QED BY <3>1, <4>1, Elements DEF ShapeInv
    <3>3. writers[1] = a
      <4>1. Head(writers) = writers[1]
        BY <3>2, HeadTailProperties DEF ShapeInv
      <4>2. QED BY <2>8, <3>2, <4>1 DEF HasLock
    <3>4. ASSUME frame[a] = "close", NEW b \in ToSet(writers')
          PROVE  frame'[b] = "close"
      <4>1. b \in ToSet(writers) /\ b # a /\ b \in Actors
        BY <1>2, <2>2, <3>4
      <4>2. PICK n \in DOMAIN writers : writers[n] = b
        BY <4>1 DEF ToSet
      <4>3. 1 \in DOMAIN writers /\ 1 < n
        BY <3>2, <3>3, <4>1, <4>2
      <4>4. frame[b] = "close"
        BY <1>2, <3>3, <3>4, <4>2, <4>3
      <4>5. QED BY <2>1, <4>1, <4>4
    <3>5. wire' = "close" =>
            proto' # "open" /\ \A b \in ToSet(writers') : frame'[b] = "close"
      BY <1>2, <2>1, <2>8, <3>4
    <3>6. wire = "close" => wire' = wire
      BY <1>2, <2>8, <3>1
    <3>7. QED BY <2>4, <2>5, <2>6, <3>5, <3>6
  <2>9. QED BY <1>5, <2>7, <2>8 DEF Writes
<1>6. QED BY <1>3, <1>4, <1>5 DEF Moves

LEMMA MoveKeeps ==
  ASSUME IInv, NEW a \in Actors, NEW t, Moves(a, t)
  PROVE  IInv' /\ Quiet
BY MoveShape, MoveFrames, MoveUser, MoveWriters DEF IInv

LEMMA StayKeeps ==
  ASSUME IInv, Stays
  PROVE  IInv' /\ Quiet
<1>1. Quiet
  BY DEF Stays, Quiet
<1>2. ShapeInv' /\ FrameInv'
  <2>1. ShapeInv'
    BY DEF IInv, Stays, OneWay, ShapeInv
  <2>2. FrameInv'
    BY DEF IInv, Stays, FrameInv, Doing
  <2>3. QED BY <2>1, <2>2
<1>3. UserInv'
  BY DEF IInv, Stays, OneWay, UserInv, Doing, Alone, Handshakes, Rests
<1>4. WriterInv'
  BY DEF IInv, Stays, OneWay, WriterInv, Threads
<1>5. QED BY <1>1, <1>2, <1>3, <1>4 DEF IInv

-----------------------------------------------------------------------------
(***************************************************************************)
(* Closing and writing, by any actor.                                      *)
(***************************************************************************)
\* A move that neither hangs up nor leaves.
LEMMA MoveOn ==
  ASSUME NEW a \in Actors, NEW t \in Agendas(a), OneWay,
         agenda' = [agenda EXCEPT ![a] = t],
         Doing(a) \notin {"left", "raised", "done"},
         Silent(a, t) \/ Emits(a, t) \/ Writes(a, t),
         t \in Handshakes(a) => proto' # "open",
         Head(t) \notin {"connect", "join", "drain", "shutdown", "left"}
  PROVE  Moves(a, t)
BY DEF Moves

\* What wsproto makes of a frame it sends.
LEMMA EmitOneWay ==
  ASSUME ShapeInv, NEW a \in Actors, NEW kind \in Frames \ {"none"}, Sendable(kind),
         Emit(a, kind), mode' = mode, sock' = sock
  PROVE  OneWay /\ (kind = "close" => proto' # "open")
BY DEF ShapeInv, Sendable, Emit, AfterSending, OneWay, Protos

\* What is left of an agenda when its first stage is over.
LEMMA GoOn ==
  ASSUME ShapeInv, NEW a \in Actors, NEW s \in Seq(Stages), Continue(a, s),
         Doing(a) \in Single
  PROVE  agenda' = [agenda EXCEPT ![a] = s]
<1>1. agenda[a] \in Agendas(a)
  BY DEF ShapeInv
<1>2. agenda[a] = <<Doing(a)>>
  BY <1>1, ByStage DEF Doing
<1>3. Tail(agenda[a]) = << >>
  BY <1>2
<1>4. s \o << >> = s
  BY ConcatEmptySeq
<1>5. QED BY <1>3, <1>4 DEF Continue, Instead

\* And when nothing is put in its place.
LEMMA GoBack ==
  ASSUME NEW a \in Actors, Tail(agenda[a]) \in Seq(Stages), Continue(a, << >>)
  PROVE  agenda' = [agenda EXCEPT ![a] = Tail(agenda[a])]
<1>1. << >> \o Tail(agenda[a]) = Tail(agenda[a])
  BY ConcatEmptySeq
<1>2. QED BY <1>1 DEF Continue, Instead

LEMMA CloseKeeps ==
  ASSUME IInv, NEW a \in Actors, Close(a)
  PROVE  IInv' /\ Quiet
<1>1. ShapeInv /\ agenda[a] \in Agendas(a) /\ Doing(a) = "close"
  BY DEF IInv, ShapeInv, Close
<1>2. PICK r \in Rests(a) : agenda[a] = <<"close">> \o r
  BY <1>1, ByStage DEF Doing
<1>3. Tail(agenda[a]) = r
  BY <1>2, CallShape
<1>4. mode' = mode /\ sock' = sock /\ wire' = wire
  BY DEF Close, shared
<1>5. CASE ~NeedsFarewell
  <2> DEFINE t == <<"hangup">> \o r
  <2>1. t \in Agendas(a) /\ Head(t) = "hangup"
    BY CallShape
  <2>2. agenda' = [agenda EXCEPT ![a] = t] /\ UNCHANGED <<proto, frame, writers>>
    BY <1>3, <1>5 DEF Close, Continue, Instead, AlreadyClosing
  <2>3. proto # "open" /\ OneWay
    BY <1>1, <1>4, <1>5, <2>2 DEF NeedsFarewell, OneWay, ShapeInv
  <2> HIDE DEF t
  <2>4. Silent(a, t)
    BY <1>1, <1>4, <2>1, <2>2 DEF Silent
  <2>5. Moves(a, t)
    BY <1>1, <2>1, <2>2, <2>3, <2>4, MoveOn
  <2>6. QED BY <2>5, MoveKeeps
<1>6. CASE NeedsFarewell /\ Threads
  <2> DEFINE t == <<"farewell">> \o r
  <2>1. t \in Agendas(a) /\ Head(t) = "farewell"
    BY CallShape
  <2>2. agenda' = [agenda EXCEPT ![a] = t] /\ UNCHANGED <<proto, frame, writers>>
    BY <1>3, <1>6 DEF Close, Continue, Instead
  <2>3. OneWay
    BY <1>1, <1>4, <2>2 DEF OneWay, ShapeInv
  <2> HIDE DEF t
  <2>4. Silent(a, t)
    BY <1>1, <1>4, <2>1, <2>2 DEF Silent
  <2>5. t \notin Handshakes(a)
    BY <2>1, ByStage
  <2>6. Moves(a, t)
    BY <1>1, <2>1, <2>2, <2>3, <2>4, <2>5, MoveOn
  <2>7. QED BY <2>6, MoveKeeps
<1>7. CASE NeedsFarewell /\ ~Threads
  <2> DEFINE t == <<"write", "hangup">> \o r
  <2>1. t \in Agendas(a) /\ Head(t) = "write"
    BY CallShape
  <2>2. agenda' = [agenda EXCEPT ![a] = t] /\ Emit(a, "close")
    BY <1>3, <1>7 DEF Close, Continue, Instead
  <2>3. Sendable("close") /\ "close" \in Frames \ {"none"}
    BY <1>1, <1>7 DEF NeedsFarewell, Sendable, ShapeInv, Protos, Frames
  <2>4. OneWay /\ proto' # "open"
    BY <1>1, <1>4, <2>2, <2>3, EmitOneWay
  <2> HIDE DEF t
  <2>5. Emits(a, t)
    BY <1>1, <1>4, <2>1, <2>2, <2>3 DEF Emits
  <2>6. Moves(a, t)
    BY <1>1, <2>1, <2>2, <2>4, <2>5, MoveOn
  <2>7. QED BY <2>6, MoveKeeps
<1>8. QED BY <1>5, <1>6, <1>7

\* Where the user goes on after a close, a message or an exception.
LEMMA UserGoals ==
  /\ \A x \in {"idle", "receive", "closed", "left", "raised"} :
       /\ <<x>> \in Agendas("user") /\ <<x>> \in Seq(Stages)
       /\ Head(<<x>>) = x /\ <<x>> \notin Handshakes("user")
  /\ \A x \in {"closed", "join", "drain", "shutdown"} :
       /\ <<"close", x>> \in Agendas("user") /\ <<"close", x>> \in Seq(Stages)
       /\ Head(<<"close", x>>) = "close" /\ <<"close", x>> \notin Handshakes("user")
  /\ <<"write", "idle">> \in Agendas("user") /\ <<"write", "idle">> \in Seq(Stages)
  /\ <<"write", "idle">> \notin Handshakes("user")
<1>1. "user" \in Actors
  BY DEF Actors
<1>2. ASSUME NEW x \in {"idle", "receive", "closed", "left", "raised"}
      PROVE  /\ <<x>> \in Agendas("user") /\ <<x>> \in Seq(Stages)
             /\ Head(<<x>>) = x /\ <<x>> \notin Handshakes("user")
  <2>1. <<x>> \in Agendas("user") /\ Head(<<x>>) = x
    BY DEF Agendas, Others, Rests
  <2>2. <<x>> \notin Handshakes("user")
    BY <1>1, <2>1, ByStage
  <2>3. x \in Stages
    BY DEF Stages
  <2>4. QED BY <2>1, <2>2, <2>3
<1>3. ASSUME NEW x \in {"closed", "join", "drain", "shutdown"}
      PROVE  /\ <<"close", x>> \in Agendas("user") /\ <<"close", x>> \in Seq(Stages)
             /\ Head(<<"close", x>>) = "close" /\ <<"close", x>> \notin Handshakes("user")
  <2>1. <<x>> \in Rests("user") /\ x \in Stages /\ "close" \in Stages
    BY DEF Rests, Stages
  <2>2. <<"close">> \o <<x>> = <<"close", x>>
    BY <2>1, Pair
  <2>3. <<"close", x>> \in Agendas("user") /\ Head(<<"close", x>>) = "close"
    BY <1>1, <2>1, <2>2, CallShape
  <2>4. <<"close", x>> \notin Handshakes("user")
    BY <1>1, <2>3, ByStage
  <2>5. QED BY <2>1, <2>3, <2>4
<1>4. <<"write", "idle">> \in Agendas("user") /\ <<"write", "idle">> \in Seq(Stages)
  BY DEF Agendas, Others, Stages
<1>5. <<"write", "idle">> \notin Handshakes("user")
  <2>1. <<"write", "idle">>[2] = "idle" /\ Head(<<"write", "idle">>) = "write"
    OBVIOUS
  <2>2. QED BY <1>1, <1>4, <2>1, ByStage
<1>6. QED BY <1>2, <1>3, <1>4, <1>5

\* And the background actors.
LEMMA BackGoals ==
  ASSUME NEW a \in Background
  PROVE  /\ a \in Actors /\ a # "user"
         /\ \A x \in {"read", "handle", "sleep", "done", "die"} :
              /\ <<x>> \in Agendas(a) /\ <<x>> \in Seq(Stages)
              /\ Head(<<x>>) = x /\ <<x>> \notin Handshakes(a)
         /\ \A t \in {<<"put", "handle">>, <<"write", "handle">>, <<"write", "pong">>} :
              t \in Agendas(a) /\ t \in Seq(Stages) /\ t \notin Handshakes(a)
         /\ Report \in Agendas(a) /\ Report \in Seq(Stages)
         /\ Head(Report) = "close" /\ Report \notin Handshakes(a)
         /\ <<"close">> \o Dies(a) \in Agendas(a) /\ Head(<<"close">> \o Dies(a)) = "close"
         /\ <<"close">> \o Dies(a) \notin Handshakes(a)
<1>1. a \in Actors /\ a # "user"
  BY DEF Actors, Background
<1>2. ASSUME NEW x \in {"read", "handle", "sleep", "done", "die"}
      PROVE  /\ <<x>> \in Agendas(a) /\ <<x>> \in Seq(Stages)
             /\ Head(<<x>>) = x /\ <<x>> \notin Handshakes(a)
  <2>1. <<x>> \in Agendas(a) /\ Head(<<x>>) = x
    BY <1>1 DEF Agendas, Others, Rests
  <2>2. <<x>> \notin Handshakes(a)
    BY <1>1, <2>1, ByStage
  <2>3. x \in Stages
    BY DEF Stages
  <2>4. QED BY <2>1, <2>2, <2>3
<1>3. ASSUME NEW t \in {<<"put", "handle">>, <<"write", "handle">>, <<"write", "pong">>}
      PROVE  t \in Agendas(a) /\ t \in Seq(Stages) /\ t \notin Handshakes(a)
  <2>1. t \in Agendas(a)
    BY <1>1 DEF Agendas, Others
  <2>2. {"put", "write", "handle", "pong"} \subseteq Stages
    BY DEF Stages
  <2>3. Head(t) # "hangup" /\ t[2] # "hangup" /\ t \in Seq(Stages)
    <3>1. CASE t = <<"put", "handle">>
      BY <2>2, <3>1
    <3>2. CASE t = <<"write", "handle">>
      BY <2>2, <3>2
    <3>3. CASE t = <<"write", "pong">>
      BY <2>2, <3>3
    <3>4. QED BY <3>1, <3>2, <3>3
  <2>4. QED BY <1>1, <2>1, <2>3, ByStage
<1>4. Report \in Agendas(a) /\ Head(Report) = "close" /\ Report \in Seq(Stages)
  <2>1. {"close", "put", "done"} \subseteq Stages /\ <<"put", "done">> \in Rests(a)
    BY <1>1 DEF Stages, Rests
  <2>2. <<"close">> \o <<"put", "done">> = Report
    BY <2>1, Triple DEF Report
  <2>3. QED BY <1>1, <2>1, <2>2, CallShape
<1>5. <<"close">> \o Dies(a) \in Agendas(a) /\ Head(<<"close">> \o Dies(a)) = "close"
  <2>1. Dies(a) \in Rests(a)
    BY <1>1 DEF Dies, Rests
  <2>2. QED BY <1>1, <2>1, CallShape
<1>6. Report \notin Handshakes(a) /\ <<"close">> \o Dies(a) \notin Handshakes(a)
  BY <1>1, <1>4, <1>5, ByStage
<1>7. QED BY <1>1, <1>2, <1>3, <1>4, <1>5, <1>6

LEMMA FarewellKeeps ==
  ASSUME IInv, NEW a \in Actors, Farewell(a)
  PROVE  IInv' /\ Quiet
<1>1. ShapeInv /\ agenda[a] \in Agendas(a) /\ Doing(a) = "farewell"
  BY DEF IInv, ShapeInv, Farewell
<1>2. PICK r \in Rests(a) : agenda[a] = <<"farewell">> \o r
  BY <1>1, ByStage DEF Doing
<1>3. Tail(agenda[a]) = r
  BY <1>2, CallShape
<1>4. mode' = mode /\ wire' = wire
  BY DEF Farewell, shared
<1>5. CASE Sendable("close")
  <2> DEFINE t == <<"write", "hangup">> \o r
  <2>1. t \in Agendas(a) /\ Head(t) = "write"
    BY CallShape
  <2>2. agenda' = [agenda EXCEPT ![a] = t] /\ Emit(a, "close") /\ sock' = sock
    BY <1>3, <1>5 DEF Farewell, Continue, Instead
  <2>3. "close" \in Frames \ {"none"}
    BY DEF Frames
  <2>4. OneWay /\ proto' # "open"
    BY <1>1, <1>4, <1>5, <2>2, <2>3, EmitOneWay
  <2> HIDE DEF t
  <2>5. Emits(a, t)
    BY <1>1, <1>4, <1>5, <2>1, <2>2, <2>3 DEF Emits
  <2>6. Moves(a, t)
    BY <1>1, <2>1, <2>2, <2>4, <2>5, MoveOn
  <2>7. QED BY <2>6, MoveKeeps
<1>6. CASE ~Sendable("close")
  <2> DEFINE t == IF a \in Background THEN Dies(a)
                  ELSE IF Leaving THEN <<"raised">> ELSE <<"closed">>
  <2>1. agenda' = [agenda EXCEPT ![a] = t] /\ UNCHANGED <<proto, frame, writers>>
        /\ sock' \in {sock, "closed"}
    BY <1>6 DEF Farewell, Instead
  <2>2. t \in Agendas(a) /\ t \notin Handshakes(a)
        /\ Head(t) \in {"done", "die", "raised", "closed"}
    <3>1. CASE a \in Background
      <4>1. Dies(a) \in {<<"done">>, <<"die">>}
        BY DEF Dies
      <4>2. QED BY <3>1, <4>1, BackGoals
    <3>2. CASE a \notin Background
      <4>1. a = "user"
        BY <3>2 DEF Actors, Background
      <4>2. t \in {<<"raised">>, <<"closed">>}
        BY <3>2
      <4> HIDE DEF t
      <4>3. QED BY <4>1, <4>2, UserGoals
    <3>3. QED BY <3>1, <3>2
  <2> HIDE DEF t
  <2>3. OneWay
    BY <1>1, <1>4, <2>1 DEF OneWay, ShapeInv
  <2>4. Silent(a, t)
    BY <1>1, <1>4, <2>1, <2>2 DEF Silent
  <2>5. Moves(a, t)
    BY <1>1, <2>1, <2>2, <2>3, <2>4, MoveOn
  <2>6. QED BY <2>5, MoveKeeps
<1>7. QED BY <1>5, <1>6

LEMMA HangupKeeps ==
  ASSUME IInv, NEW a \in Actors, Hangup(a)
  PROVE  IInv' /\ Quiet
<1>1. ShapeInv /\ agenda[a] \in Agendas(a) /\ Doing(a) = "hangup"
  BY DEF IInv, ShapeInv, Hangup
<1>2. PICK r \in Rests(a) : agenda[a] = <<"hangup">> \o r
  BY <1>1, ByStage DEF Doing
<1>3. Tail(agenda[a]) = r /\ agenda[a] \in Handshakes(a)
  BY <1>2, CallShape
<1>4. mode' = mode /\ wire' = wire /\ proto' = proto /\ sock' = "closed"
      /\ UNCHANGED <<frame, writers>>
  BY DEF Hangup, shared
<1>5. r \in Seq(Stages) /\ r \in Agendas(a)
      /\ Head(r) \in {"closed", "join", "drain", "shutdown", "put", "done", "die"}
  BY RestShape DEF Agendas
<1>6. agenda' = [agenda EXCEPT ![a] = r]
  BY <1>3, <1>5, GoBack DEF Hangup
<1>7. OneWay
  BY <1>1, <1>4 DEF OneWay, ShapeInv
<1>8. Silent(a, r)
  BY <1>1, <1>4, <1>5 DEF Silent
<1>9. a = "user" => proto' # "open"
  BY <1>3, <1>4 DEF IInv, UserInv
<1>10. Moves(a, r)
  BY <1>1, <1>4, <1>5, <1>6, <1>7, <1>8, <1>9 DEF Moves
<1>11. QED BY <1>10, MoveKeeps

\* What is next after writing.
LEMMA AfterWrite ==
  ASSUME NEW a \in Actors, NEW u \in Agendas(a), Head(u) = "write"
  PROVE  /\ Tail(u) \in Agendas(a) /\ Tail(u) \in Seq(Stages)
         /\ Head(Tail(u)) \in {"hangup", "idle", "handle", "pong"}
         /\ u[2] = Head(Tail(u))
         /\ Head(Tail(u)) = "hangup" => u \in Handshakes(a)
         /\ Tail(u) \in Handshakes(a) => u \in Handshakes(a)
<1>1. CASE \E r \in Rests(a) : u = <<"write", "hangup">> \o r
  <2>1. PICK r \in Rests(a) : u = <<"write", "hangup">> \o r
    BY <1>1
  <2>2. /\ u \in Handshakes(a) /\ Tail(u) = <<"hangup">> \o r /\ u[2] = "hangup"
        /\ <<"hangup">> \o r \in Agendas(a) /\ <<"hangup">> \o r \in Seq(Stages)
        /\ Head(<<"hangup">> \o r) = "hangup"
    BY <2>1, CallShape
  <2>3. QED BY <2>2
<1>2. CASE a = "user" /\ u = <<"write", "idle">>
  <2>1. Tail(u) = <<"idle">> /\ u[2] = "idle" /\ Head(Tail(u)) = "idle"
    BY <1>2
  <2>2. QED BY <1>2, <2>1, UserGoals
<1>3. CASE a # "user" /\ u \in {<<"write", "handle">>, <<"write", "pong">>}
  <2>1. {"handle", "pong"} \subseteq Stages
    BY DEF Stages
  <2>2. PICK x \in {"handle", "pong"} : u = <<"write", x>>
    BY <1>3
  <2>3. Tail(u) = <<x>> /\ u[2] = x /\ Head(Tail(u)) = x /\ Tail(u) \in Seq(Stages)
    BY <2>1, <2>2
  <2>4. Tail(u) \in Agendas(a)
    BY <1>3, <2>2, <2>3 DEF Agendas, Others
  <2>5. Tail(u) \notin Handshakes(a)
    BY <2>3, <2>4, ByStage
  <2>6. QED BY <2>3, <2>4, <2>5
<1>4. QED BY <1>1, <1>2, <1>3, ByStage

LEMMA WriteKeeps ==
  ASSUME IInv, NEW a \in Actors, Write(a)
  PROVE  IInv' /\ Quiet
<1> DEFINE t == Tail(agenda[a])
<1>1. ShapeInv /\ agenda[a] \in Agendas(a) /\ Doing(a) = "write"
  BY DEF IInv, ShapeInv, Write
<1>2. /\ t \in Agendas(a) /\ t \in Seq(Stages)
      /\ Head(t) \in {"hangup", "idle", "handle", "pong"}
      /\ t \in Handshakes(a) => agenda[a] \in Handshakes(a)
  BY <1>1, AfterWrite DEF Doing
<1>3. mode' = mode /\ proto' = proto /\ sock' = sock /\ wire' = frame[a]
      /\ HasLock(a) /\ Written(a)
  BY DEF Write, shared
<1>4. agenda' = [agenda EXCEPT ![a] = t]
  BY <1>2, GoBack DEF Write
<1> HIDE DEF t
<1>5. OneWay
  BY <1>1, <1>3 DEF OneWay, ShapeInv
<1>6. Writes(a, t)
  BY <1>1, <1>2, <1>3 DEF Writes
<1>7. a = "user" /\ t \in Handshakes(a) => proto' # "open"
  BY <1>2, <1>3 DEF IInv, UserInv
<1>8. Moves(a, t)
  BY <1>1, <1>2, <1>4, <1>5, <1>6, <1>7 DEF Moves
<1>9. QED BY <1>8, MoveKeeps

LEMMA WriteFailsKeeps ==
  ASSUME IInv, NEW a \in Actors, WriteFails(a)
  PROVE  IInv' /\ Quiet
<1>1. ShapeInv /\ agenda[a] \in Agendas(a) /\ Doing(a) = "write"
  BY DEF IInv, ShapeInv, WriteFails
<1>2. mode' = mode /\ proto' = proto /\ wire' = wire /\ Written(a)
      /\ sock' = IF sock = "open" THEN "broken" ELSE sock
  BY DEF WriteFails, shared
<1>3. OneWay
  BY <1>1, <1>2 DEF OneWay, ShapeInv
<1>4. CASE Continue(a, << >>)
  <2> DEFINE t == Tail(agenda[a])
  <2>1. /\ t \in Agendas(a) /\ t \in Seq(Stages)
        /\ Head(t) \in {"hangup", "idle", "handle", "pong"}
        /\ t \in Handshakes(a) => agenda[a] \in Handshakes(a)
    BY <1>1, AfterWrite DEF Doing
  <2>2. agenda' = [agenda EXCEPT ![a] = t]
    BY <1>4, <2>1, GoBack
  <2> HIDE DEF t
  <2>3. Writes(a, t)
    BY <1>2, <2>1 DEF Writes
  <2>4. a = "user" /\ t \in Handshakes(a) => proto' # "open"
    BY <1>2, <2>1 DEF IInv, UserInv
  <2>5. Moves(a, t)
    BY <1>1, <1>3, <2>1, <2>2, <2>3, <2>4 DEF Moves
  <2>6. QED BY <2>5, MoveKeeps
<1>5. CASE \E t \in {<<"close", "closed">>, Report, <<"close">> \o Dies(a)} :
             /\ Instead(a, t)
             /\ (a = "user" /\ t = <<"close", "closed">>)
                \/ (a \in Background /\ t # <<"close", "closed">>)
  <2>1. PICK t \in {<<"close", "closed">>, Report, <<"close">> \o Dies(a)} :
          /\ agenda' = [agenda EXCEPT ![a] = t]
          /\ (a = "user" /\ t = <<"close", "closed">>)
             \/ (a \in Background /\ t # <<"close", "closed">>)
    BY <1>5 DEF Instead
  <2>2. t \in Agendas(a) /\ Head(t) = "close" /\ t \notin Handshakes(a)
    BY <2>1, UserGoals, BackGoals
  <2>3. Writes(a, t)
    BY <1>2, <2>2 DEF Writes
  <2>4. Moves(a, t)
    BY <1>1, <1>3, <2>1, <2>2, <2>3, MoveOn
  <2>5. QED BY <2>4, MoveKeeps
<1>6. QED
  <2>1. Report # <<"close", "closed">>
    BY DEF Report
  <2>2. a \in Background => <<"close">> \o Dies(a) # <<"close", "closed">>
    <3>1. {"close", "done", "die"} \subseteq Stages
      BY DEF Stages
    <3>2. <<"close">> \o <<"done">> = <<"close", "done">>
          /\ <<"close">> \o <<"die">> = <<"close", "die">>
      BY <3>1, Pair
    <3>3. QED BY <3>2 DEF Dies
  <2>3. a = "user" \/ a = "receiver" \/ a = "pinger"
    BY DEF Actors
  <2>4. CASE a = "user"
    BY <1>4, <1>5, <2>4 DEF WriteFails
  <2>5. CASE a = "receiver"
    BY <1>4, <1>5, <2>1, <2>5 DEF WriteFails, Background
  <2>6. CASE a = "pinger"
    BY <1>4, <1>5, <2>2, <2>6 DEF WriteFails, Background
  <2>7. QED BY <2>3, <2>4, <2>5, <2>6

-----------------------------------------------------------------------------
(***************************************************************************)
(* The user.                                                               *)
(***************************************************************************)
\* What the user goes on with between two calls.
LEMMA UserGoes ==
  ASSUME IInv, OneWay, UNCHANGED <<frame, writers, wire>>,
         NEW t, agenda' = [agenda EXCEPT !["user"] = t],
         Doing("user") \notin {"left", "raised", "write"},
         \/ \E x \in {"idle", "receive", "closed", "raised"} : t = <<x>>
         \/ \E x \in {"closed", "join", "drain", "shutdown"} : t = <<"close", x>>
  PROVE  IInv' /\ Quiet
<1>1. "user" \in Actors /\ ShapeInv /\ agenda["user"] \in Agendas("user")
  BY DEF Actors, IInv, ShapeInv
<1>2. Doing("user") # "done"
  BY <1>1, ByStage DEF Doing
<1>3. /\ t \in Agendas("user") /\ t \notin Handshakes("user")
      /\ Head(t) \in {"idle", "receive", "closed", "raised", "close"}
  BY UserGoals
<1>4. Silent("user", t)
  BY <1>3 DEF Silent
<1>5. Moves("user", t)
  BY <1>1, <1>2, <1>3, <1>4, MoveOn
<1>6. QED BY <1>1, <1>5, MoveKeeps

LEMMA SendKeeps ==
  ASSUME IInv, Send
  PROVE  IInv' /\ Quiet
<1> DEFINE t == <<"write", "idle">>
<1>1. "user" \in Actors /\ ShapeInv /\ Doing("user") = "idle" /\ "idle" \in Single
  BY DEF Actors, IInv, Send, Single
<1>2. t \in Agendas("user") /\ t \in Seq(Stages) /\ t \notin Handshakes("user")
  BY UserGoals
<1>3. Head(t) = "write"
  OBVIOUS
<1> HIDE DEF t
<1>4. /\ Continue("user", t) /\ Emit("user", "data") /\ Sendable("data")
      /\ mode' = mode /\ sock' = sock /\ wire' = wire
  BY DEF Send, shared, t
<1>5. agenda' = [agenda EXCEPT !["user"] = t]
  BY <1>1, <1>2, <1>4, GoOn
<1>6. "data" \in Frames \ {"none"}
  BY DEF Frames
<1>7. OneWay
  BY <1>1, <1>4, <1>6, EmitOneWay
<1>8. Emits("user", t)
  BY <1>1, <1>3, <1>4, <1>6 DEF Emits
<1>9. Moves("user", t)
  BY <1>1, <1>2, <1>3, <1>5, <1>7, <1>8, MoveOn
<1>10. QED BY <1>1, <1>9, MoveKeeps

LEMMA UserKeeps ==
  ASSUME IInv, Refuse \/ Receive \/ UserCloses \/ ReceiveTimeout \/ Exit \/ Take
  PROVE  IInv' /\ Quiet
<1>1. "user" \in Actors /\ ShapeInv
  BY DEF Actors, IInv
<1>2. {"connect", "idle", "receive", "closed"} \subseteq Single
  BY DEF Single
<1>3. UNCHANGED <<mode, proto, frame, writers, wire>> /\ sock' \in {sock, "closed"}
  BY DEF Refuse, Receive, UserCloses, ReceiveTimeout, Exit, Take, shared
<1>4. OneWay
  BY <1>1, <1>3 DEF OneWay, ShapeInv
<1>5. Doing("user") \in {"connect", "idle", "receive", "closed"}
  BY DEF Refuse, Receive, UserCloses, ReceiveTimeout, Exit, Take, UserAgenda
<1>6. \E t \in Seq(Stages) :
        /\ agenda' = [agenda EXCEPT !["user"] = t]
        /\ \/ \E x \in {"idle", "receive", "closed", "raised"} : t = <<x>>
           \/ \E x \in {"closed", "join", "drain", "shutdown"} : t = <<"close", x>>
  <2>1. CASE Refuse
    <3>1. agenda' = [agenda EXCEPT !["user"] = <<"raised">>]
      BY <2>1 DEF Refuse, Instead
    <3>2. <<"raised">> \in Seq(Stages)
      BY UserGoals
    <3>3. QED BY <3>1, <3>2
  <2>2. CASE Receive \/ ReceiveTimeout
    <3>1. PICK x \in {"idle", "receive"} : Continue("user", <<x>>)
      BY <2>2 DEF Receive, ReceiveTimeout, UserAgenda
    <3>2. <<x>> \in Seq(Stages)
      BY UserGoals
    <3>3. agenda' = [agenda EXCEPT !["user"] = <<x>>]
      BY <1>1, <1>2, <1>5, <3>1, <3>2, GoOn
    <3>4. QED BY <3>2, <3>3
  <2>3. CASE UserCloses \/ Exit
    <3>1. PICK x \in {"closed", "join", "drain", "shutdown"} : Continue("user", <<"close", x>>)
      BY <2>3 DEF UserCloses, Exit, Exits, UserAgenda
    <3>2. <<"close", x>> \in Seq(Stages)
      BY UserGoals
    <3>3. agenda' = [agenda EXCEPT !["user"] = <<"close", x>>]
      BY <1>1, <1>2, <1>5, <3>1, <3>2, GoOn
    <3>4. QED BY <3>2, <3>3
  <2>4. CASE Take
    <3>1. PICK x \in {"idle", "closed"} : agenda' = [agenda EXCEPT !["user"] = <<x>>]
      BY <2>4 DEF Take, Instead, After
    <3>2. <<x>> \in Seq(Stages)
      BY UserGoals
    <3>3. QED BY <3>1, <3>2
  <2>5. QED BY <2>1, <2>2, <2>3, <2>4
<1>7. QED BY <1>3, <1>4, <1>5, <1>6, UserGoes

LEMMA CancelledKeeps ==
  ASSUME IInv, UserCancelled
  PROVE  IInv' /\ Quiet
<1> DEFINE t == <<"close", "join">>
<1>1. "user" \in Actors /\ ShapeInv /\ agenda["user"] \in Agendas("user")
  BY DEF Actors, IInv, ShapeInv
<1>2. t \in Agendas("user") /\ Head(t) = "close" /\ t \notin Handshakes("user")
  BY UserGoals
<1> HIDE DEF t
<1>3. /\ agenda' = [agenda EXCEPT !["user"] = t] /\ Written("user")
      /\ mode' = mode /\ proto' = proto /\ sock' = sock /\ wire' = wire
      /\ Doing("user") \notin {"connect", "left", "raised"}
  BY DEF UserCancelled, Instead, shared, t
<1>4. Doing("user") # "done"
  BY <1>1, ByStage DEF Doing
<1>5. OneWay
  BY <1>1, <1>3 DEF OneWay, ShapeInv
<1>6. Writes("user", t)
  BY <1>2, <1>3 DEF Writes
<1>7. Moves("user", t)
  BY <1>1, <1>2, <1>3, <1>4, <1>5, <1>6, MoveOn
<1>8. QED BY <1>1, <1>7, MoveKeeps

LEMMA JoinKeeps ==
  ASSUME IInv, Join
  PROVE  IInv' /\ Quiet
<1>1. "user" \in Actors /\ ShapeInv
  BY DEF Actors, IInv
<1>2. /\ agenda' = [agenda EXCEPT !["user"] = <<"left">>]
      /\ UNCHANGED <<mode, proto, sock, frame, writers, wire>>
      /\ Alone /\ Doing("user") \in {"join", "drain", "shutdown"}
  BY DEF Join, Instead, Joined, Alone, Exits, shared
<1>3. <<"left">> \in Agendas("user") /\ Head(<<"left">>) = "left"
      /\ <<"left">> \notin Handshakes("user")
  BY UserGoals
<1>4. proto' # "open" /\ sock' = "closed"
  BY <1>2 DEF IInv, UserInv
<1>5. OneWay
  BY <1>1, <1>2 DEF OneWay, ShapeInv
<1>6. Silent("user", <<"left">>)
  BY <1>2, <1>3 DEF Silent
<1>7. Moves("user", <<"left">>)
  BY <1>2, <1>3, <1>4, <1>5, <1>6 DEF Moves
<1>8. QED BY <1>1, <1>7, MoveKeeps

\* The session begins: both background actors start, the lock is free.
LEMMA ConnectKeeps ==
  ASSUME IInv, Connect
  PROVE  IInv' /\ Quiet
<1>1. /\ UNCHANGED <<mode, proto, sock, frame, writers, wire>>
      /\ Doing("user") = "connect"
      /\ agenda' = [user |-> <<"idle">>, receiver |-> <<"read">>, pinger |-> <<"sleep">>]
  BY DEF Connect, shared
<1>2. ShapeInv /\ FrameInv /\ Alone
  BY <1>1 DEF IInv, UserInv
<1>3. /\ agenda'["user"] = <<"idle">> /\ agenda'["receiver"] = <<"read">>
      /\ agenda'["pinger"] = <<"sleep">>
      /\ agenda' = [a \in Actors |-> agenda'[a]]
  BY <1>1 DEF Actors
<1>4. Actors = {"user", "receiver", "pinger"} /\ Background = {"receiver", "pinger"}
  BY DEF Actors, Background
<1>5. ShapeInv'
  <2>1. \A a \in Actors : agenda'[a] \in Agendas(a)
    BY <1>3, <1>4, UserGoals, BackGoals
  <2>2. QED BY <1>1, <1>2, <1>3, <2>1 DEF ShapeInv
<1>6. FrameInv'
  <2>1. \A a \in Actors : Doing(a)' \in {"idle", "read", "sleep"}
    BY <1>3, <1>4 DEF Doing
  <2>2. \A a \in Actors : frame[a] = "none"
    BY <1>1, <1>2, <1>4 DEF FrameInv, Alone
  <2>3. QED BY <1>1, <2>1, <2>2 DEF FrameInv
<1>7. UserInv'
  <2>1. Doing("user")' = "idle" /\ agenda'["user"] \notin Handshakes("user")
    BY <1>3, UserGoals DEF Doing
  <2>2. QED BY <2>1 DEF UserInv, Handshakes, Rests
<1>8. WriterInv' /\ Quiet
  BY <1>1 DEF IInv, WriterInv, Quiet, Threads
<1>9. QED BY <1>5, <1>6, <1>7, <1>8 DEF IInv

-----------------------------------------------------------------------------
(***************************************************************************)
(* The background actors.                                                  *)
(***************************************************************************)
\* What a background actor goes on with when it writes nothing.
LEMMA BackGoes ==
  ASSUME IInv, OneWay, UNCHANGED <<frame, writers, wire>>,
         NEW a \in Background, NEW t, agenda' = [agenda EXCEPT ![a] = t],
         Doing(a) \notin {"done", "write"},
         \/ \E x \in {"read", "handle", "sleep", "done", "die"} : t = <<x>>
         \/ t \in {<<"put", "handle">>, Report}
  PROVE  IInv' /\ Quiet
<1>1. a \in Actors /\ a # "user" /\ ShapeInv /\ agenda[a] \in Agendas(a)
  BY BackGoals DEF IInv, ShapeInv
<1>2. Doing(a) \notin {"left", "raised"}
  BY <1>1, ByStage DEF Doing
<1>3. Head(<<"put", "handle">>) = "put"
  OBVIOUS
<1>4. /\ t \in Agendas(a) /\ t \notin Handshakes(a)
      /\ Head(t) \in {"read", "handle", "sleep", "done", "die", "put", "close"}
  BY <1>3, BackGoals
<1>5. Silent(a, t)
  BY <1>4 DEF Silent
<1>6. Moves(a, t)
  BY <1>1, <1>2, <1>4, <1>5, MoveOn
<1>7. QED BY <1>1, <1>6, MoveKeeps

\* What it does once it can write.
LEMMA BackWrites ==
  ASSUME IInv, NEW a \in Background, Doing(a) \in {"handle", "sleep"},
         NEW t \in {<<"write", "handle">>, <<"write", "pong">>}, Continue(a, t),
         NEW kind \in Frames \ {"none"}, Sendable(kind), Emit(a, kind),
         mode' = mode, sock' = sock, wire' = wire
  PROVE  IInv' /\ Quiet
<1>1. a \in Actors /\ a # "user" /\ ShapeInv
  BY BackGoals DEF IInv
<1>2. t \in Agendas(a) /\ t \in Seq(Stages) /\ t \notin Handshakes(a)
  BY BackGoals
<1>3. Head(t) = "write"
  OBVIOUS
<1>4. agenda' = [agenda EXCEPT ![a] = t]
  BY <1>1, <1>2, GoOn DEF Single
<1>5. OneWay
  BY <1>1, EmitOneWay
<1>6. Emits(a, t)
  BY <1>3 DEF Emits
<1>7. Moves(a, t)
  BY <1>1, <1>2, <1>3, <1>4, <1>5, <1>6, MoveOn
<1>8. QED BY <1>1, <1>7, MoveKeeps

LEMMA ReceiverKeeps ==
  ASSUME IInv, Read \/ ReadFails \/ Handled \/ HandleClose \/ HandleTooBig
  PROVE  IInv' /\ Quiet
<1>1. "receiver" \in Background /\ "receiver" \in Actors /\ ShapeInv
  BY DEF Background, Actors, IInv
<1>2. {"read", "handle"} \subseteq Single
  BY DEF Single
<1>3. Doing("receiver") \in {"read", "handle"}
  BY DEF Read, ReadFails, Handled, HandleClose, HandleTooBig, Waits, HandleNext
<1>4. UNCHANGED <<mode, frame, writers, wire>>
  BY DEF Read, ReadFails, Handled, HandleClose, HandleTooBig, shared
<1>5. OneWay
  <2>1. CASE Read \/ Handled \/ HandleTooBig
    BY <1>1, <1>4, <2>1 DEF Read, Handled, HandleTooBig, OneWay, ShapeInv
  <2>2. CASE ReadFails
    BY <1>1, <1>4, <2>2 DEF ReadFails, OneWay, ShapeInv
  <2>3. CASE HandleClose
    BY <1>1, <1>4, <2>3 DEF HandleClose, OneWay, ShapeInv, Protos
  <2>4. QED BY <2>1, <2>2, <2>3
<1>6. \E t \in Seq(Stages) :
        /\ agenda' = [agenda EXCEPT !["receiver"] = t]
        /\ \/ \E x \in {"read", "handle", "sleep", "done", "die"} : t = <<x>>
           \/ t \in {<<"put", "handle">>, Report}
  <2>1. CASE Read \/ Handled
    <3>1. PICK x \in {"handle", "read", "done"} : Continue("receiver", <<x>>)
      BY <2>1 DEF Read, Handled, Again
    <3>2. <<x>> \in Seq(Stages)
      BY <1>1, BackGoals
    <3>3. agenda' = [agenda EXCEPT !["receiver"] = <<x>>]
      BY <1>1, <1>2, <1>3, <3>1, <3>2, GoOn
    <3>4. QED BY <3>2, <3>3
  <2>2. CASE ReadFails
    <3>1. agenda' = [agenda EXCEPT !["receiver"] = Report]
      BY <2>2 DEF ReadFails, Instead
    <3>2. QED BY <1>1, <3>1, BackGoals
  <2>3. CASE HandleClose
    <3>1. Continue("receiver", <<"put", "handle">>)
      BY <2>3 DEF HandleClose
    <3>2. <<"put", "handle">> \in Seq(Stages)
      BY <1>1, BackGoals
    <3>3. agenda' = [agenda EXCEPT !["receiver"] = <<"put", "handle">>]
      BY <1>1, <1>2, <1>3, <3>1, <3>2, GoOn
    <3>4. QED BY <3>2, <3>3
  <2>4. CASE HandleTooBig
    <3>1. Continue("receiver", Report)
      BY <2>4 DEF HandleTooBig
    <3>2. Report \in Seq(Stages)
      BY <1>1, BackGoals
    <3>3. agenda' = [agenda EXCEPT !["receiver"] = Report]
      BY <1>1, <1>2, <1>3, <3>1, <3>2, GoOn
    <3>4. QED BY <3>2, <3>3
  <2>5. QED BY <2>1, <2>2, <2>3, <2>4
<1>7. QED BY <1>1, <1>3, <1>4, <1>5, <1>6, BackGoes

LEMMA HandlePingKeeps ==
  ASSUME IInv, HandlePing
  PROVE  IInv' /\ Quiet
<1>1. "receiver" \in Background /\ Doing("receiver") = "handle" /\ "pong" \in Frames \ {"none"}
      /\ ShapeInv
  BY DEF Background, HandlePing, HandleNext, Frames, IInv
<1>2. mode' = mode /\ sock' = sock /\ wire' = wire
  BY DEF HandlePing, shared
<1>3. CASE Sendable("pong")
  <2>1. Continue("receiver", <<"write", "handle">>) /\ Emit("receiver", "pong")
    BY <1>3 DEF HandlePing
  <2>2. QED BY <1>1, <1>2, <1>3, <2>1, BackWrites
<1>4. CASE ~Sendable("pong")
  <2>1. /\ \E x \in {"done", "die"} : agenda' = [agenda EXCEPT !["receiver"] = <<x>>]
        /\ UNCHANGED <<proto, frame, writers>>
    BY <1>4 DEF HandlePing, Instead, Dies
  <2>2. OneWay
    BY <1>1, <1>2, <2>1 DEF OneWay, ShapeInv
  <2>3. QED BY <1>1, <1>2, <2>1, <2>2, BackGoes
<1>5. QED BY <1>3, <1>4

LEMMA HandleMessageKeeps ==
  ASSUME IInv, HandleMessage
  PROVE  IInv' /\ Quiet
<1>1. /\ "receiver" \in Background /\ "receiver" \in Actors /\ ShapeInv
      /\ Doing("receiver") = "handle" /\ "handle" \in Single
  BY DEF Background, Actors, HandleMessage, HandleNext, IInv, Single
<1>2. UNCHANGED <<mode, proto, sock, frame, writers, wire>>
  BY DEF HandleMessage, shared
<1>3. OneWay
  BY <1>1, <1>2 DEF OneWay, ShapeInv
<1>4. CASE UNCHANGED agenda
  BY <1>2, <1>3, <1>4, StayKeeps DEF Stays
<1>5. CASE Continue("receiver", <<"put", "handle">>)
  <2>1. <<"put", "handle">> \in Seq(Stages)
    BY <1>1, BackGoals
  <2>2. agenda' = [agenda EXCEPT !["receiver"] = <<"put", "handle">>]
    BY <1>1, <1>5, <2>1, GoOn
  <2>3. QED BY <1>1, <1>2, <1>3, <2>2, BackGoes
<1>6. QED BY <1>4, <1>5 DEF HandleMessage, control

LEMMA PingKeeps ==
  ASSUME IInv, Ping
  PROVE  IInv' /\ Quiet
<1>1. "pinger" \in Background /\ Doing("pinger") = "sleep" /\ "ping" \in Frames \ {"none"}
      /\ ShapeInv
  BY DEF Background, Ping, Waits, Frames, IInv
<1>2. mode' = mode /\ sock' = sock /\ wire' = wire
  BY DEF Ping, shared
<1>3. CASE Sendable("ping")
  <2>1. Continue("pinger", <<"write", "pong">>) /\ Emit("pinger", "ping")
    BY <1>3 DEF Ping
  <2>2. QED BY <1>1, <1>2, <1>3, <2>1, BackWrites
<1>4. CASE ~Sendable("ping")
  <2>1. /\ agenda' = [agenda EXCEPT !["pinger"] = <<"done">>]
        /\ UNCHANGED <<proto, frame, writers>>
    BY <1>4 DEF Ping, Instead
  <2>2. OneWay
    BY <1>1, <1>2, <2>1 DEF OneWay, ShapeInv
  <2>3. QED BY <1>1, <1>2, <2>1, <2>2, BackGoes
<1>5. QED BY <1>3, <1>4

LEMMA PingerKeeps ==
  ASSUME IInv, Ponged \/ PongTimeout
  PROVE  IInv' /\ Quiet
<1>1. /\ "pinger" \in Background /\ "pinger" \in Actors /\ ShapeInv
      /\ Doing("pinger") = "pong" /\ "pong" \in Single
  BY DEF Background, Actors, Ponged, PongTimeout, Waits, IInv, Single
<1>2. UNCHANGED <<mode, proto, sock, frame, writers, wire>>
  BY DEF Ponged, PongTimeout, shared
<1>3. OneWay
  BY <1>1, <1>2 DEF OneWay, ShapeInv
<1>4. PICK t : /\ Continue("pinger", t)
               /\ t \in {<<"sleep">>, <<"done">>, Report}
  BY DEF Ponged, PongTimeout, Again
<1>5. t \in Seq(Stages)
  BY <1>1, <1>4, BackGoals
<1>6. agenda' = [agenda EXCEPT !["pinger"] = t]
  BY <1>1, <1>4, <1>5, GoOn
<1>7. QED BY <1>1, <1>2, <1>3, <1>4, <1>6, BackGoes

LEMMA BackgroundKeeps ==
  ASSUME IInv, NEW a \in Background, ShouldClose(a) \/ Die(a)
  PROVE  IInv' /\ Quiet
<1>1. UNCHANGED <<mode, proto, sock, frame, writers, wire>>
      /\ agenda' = [agenda EXCEPT ![a] = <<"done">>]
      /\ Doing(a) \in {"read", "sleep", "pong", "die"}
  BY DEF ShouldClose, Die, Instead, shared
<1>2. OneWay
  BY <1>1 DEF OneWay, IInv, ShapeInv
<1>3. QED BY <1>1, <1>2, BackGoes

LEMMA BackgroundCancelledKeeps ==
  ASSUME IInv, NEW a \in Background, BackgroundCancelled(a)
  PROVE  IInv' /\ Quiet
<1> DEFINE t == <<"done">>
<1>1. a \in Actors /\ a # "user" /\ ShapeInv /\ agenda[a] \in Agendas(a)
  BY BackGoals DEF IInv, ShapeInv
<1>2. t \in Agendas(a) /\ Head(t) = "done" /\ t \notin Handshakes(a)
  BY BackGoals
<1> HIDE DEF t
<1>3. /\ agenda' = [agenda EXCEPT ![a] = t] /\ Written(a)
      /\ mode' = mode /\ proto' = proto /\ sock' = sock /\ wire' = wire
      /\ Doing(a) # "done"
  BY DEF BackgroundCancelled, Instead, shared, t
<1>4. Doing(a) \notin {"left", "raised"}
  BY <1>1, ByStage DEF Doing
<1>5. OneWay
  BY <1>1, <1>3 DEF OneWay, ShapeInv
<1>6. Writes(a, t)
  BY <1>2, <1>3 DEF Writes
<1>7. Moves(a, t)
  BY <1>1, <1>2, <1>3, <1>4, <1>5, <1>6, MoveOn
<1>8. QED BY <1>1, <1>7, MoveKeeps

\* What comes after the queue.
LEMMA AfterPut ==
  ASSUME ShapeInv, NEW a \in Background, Doing(a) = "put"
  PROVE  \E x \in {"done", "handle"} : Tail(agenda[a]) = <<x>>
<1>1. a \in Actors /\ agenda[a] \in Agendas(a)
  BY BackGoals DEF ShapeInv
<1>2. agenda[a] = <<"put", "done">> \/ agenda[a] = <<"put", "handle">>
  BY <1>1, ByStage DEF Doing
<1>3. Tail(<<"put", "done">>) = <<"done">> /\ Tail(<<"put", "handle">>) = <<"handle">>
  OBVIOUS
<1>4. QED BY <1>2, <1>3

LEMMA PutKeeps ==
  ASSUME IInv, NEW a \in Background, PutInQueue(a)
  PROVE  IInv' /\ Quiet
<1>1. /\ UNCHANGED <<mode, proto, sock, frame, writers, wire>> /\ Doing(a) = "put"
      /\ a \in Actors /\ ShapeInv
  BY BackGoals DEF PutInQueue, shared, IInv
<1>2. OneWay
  BY <1>1 DEF OneWay, ShapeInv
<1>3. PICK x \in {"done", "handle"} : Tail(agenda[a]) = <<x>>
  BY <1>1, AfterPut
<1>4. <<x>> \in Seq(Stages) /\ <<"done">> \in Seq(Stages)
  BY BackGoals
<1>5. CASE Instead(a, <<"done">>)
  BY <1>1, <1>2, <1>5, BackGoes DEF Instead
<1>6. CASE Continue(a, << >>)
  <2>1. agenda' = [agenda EXCEPT ![a] = <<x>>]
    BY <1>1, <1>3, <1>4, <1>6, GoBack
  <2>2. QED BY <1>1, <1>2, <2>1, BackGoes
<1>7. QED BY <1>5, <1>6 DEF PutInQueue

\* A task and the user who receives from it go on together.
LEMMA HandOverKeeps ==
  ASSUME IInv, NEW a \in Background, HandOver(a)
  PROVE  IInv' /\ Quiet
<1>1. /\ UNCHANGED <<mode, proto, sock, frame, writers, wire>>
      /\ Doing(a) = "put" /\ Doing("user") = "receive"
      /\ a \in Actors /\ a # "user" /\ "user" \in Actors /\ ShapeInv /\ FrameInv
  BY BackGoals DEF HandOver, shared, IInv, Actors
<1>2. PICK x \in {"done", "handle"} : Tail(agenda[a]) = <<x>>
  BY <1>1, AfterPut
<1>3. PICK y \in {"idle", "closed"} : After(item[a]) = <<y>>
  BY DEF After
<1>4. agenda' = [b \in Actors |-> IF b = a THEN <<x>>
                                  ELSE IF b = "user" THEN <<y>> ELSE agenda[b]]
  <2>1. agenda = [b \in Actors |-> agenda[b]]
    BY <1>1 DEF ShapeInv
  <2>2. agenda' = [agenda EXCEPT ![a] = <<x>>, !["user"] = <<y>>]
    BY <1>2, <1>3 DEF HandOver
  <2>3. QED BY <1>1, <2>1, <2>2
<1>5. /\ <<x>> \in Agendas(a) /\ Head(<<x>>) = x
      /\ <<y>> \in Agendas("user") /\ Head(<<y>>) = y /\ <<y>> \notin Handshakes("user")
  BY UserGoals, BackGoals
<1>6. ShapeInv'
  <2>1. \A b \in Actors : agenda'[b] \in Agendas(b)
    BY <1>1, <1>4, <1>5 DEF ShapeInv
  <2>2. agenda' = [b \in Actors |-> agenda'[b]]
    BY <1>4
  <2>3. QED BY <1>1, <2>1, <2>2 DEF ShapeInv
<1>7. \A b \in Actors : Doing(b)' = IF b = a THEN x ELSE IF b = "user" THEN y ELSE Doing(b)
  BY <1>4, <1>5 DEF Doing
<1>8. FrameInv'
  BY <1>1, <1>7 DEF FrameInv
<1>9. UserInv'
  <2>1. Doing("user")' = y /\ agenda'["user"] = <<y>>
    BY <1>1, <1>4, <1>7
  <2>2. QED BY <1>5, <2>1 DEF UserInv, Handshakes, Rests
<1>10. WriterInv' /\ Quiet
  BY <1>1 DEF IInv, WriterInv, Quiet, Threads
<1>11. QED BY <1>6, <1>8, <1>9, <1>10 DEF IInv

LEMMA RestKeeps ==
  ASSUME IInv, ShutQueue \/ Drain \/ HandlePong \/ Finished \/ UNCHANGED vars
  PROVE  IInv' /\ Quiet
<1>1. UNCHANGED <<mode, proto, sock, agenda, frame, writers, wire>>
  BY DEF ShutQueue, Drain, HandlePong, Finished, vars, shared, control
<1>2. Stays
  BY <1>1 DEF Stays, OneWay, IInv, ShapeInv
<1>3. QED BY <1>2, StayKeeps

-----------------------------------------------------------------------------
(***************************************************************************)
(* The rest of the types.                                                  *)
(***************************************************************************)
\* The events that pass from the background actors to the user.
Items == {<< >>, <<"error">>, <<"close">>} \cup ({"message"} \X Seq(Nat))

\* What is read and counted.
RangeInv ==
  /\ mode \in Modes /\ sock \in {"open", "broken", "closed"} /\ wire \in Frames
  /\ shouldClose \in BOOLEAN /\ cancelled \in BOOLEAN /\ shut \in BOOLEAN
  /\ batch \in Seq(Kinds) /\ frames \in Seq(BOOLEAN)
  /\ running \in Background \cup {"nobody"}

\* The queue and the message buffer keep their limits.
LimitInv ==
  /\ queue \in Seq(Items) /\ Len(queue) <= QueueSize
  /\ item \in [Background -> Items]
  /\ partial \in Seq(Nat) /\ Len(partial) <= MaxSize

LEMMA LimitNext ==
  ASSUME LimitInv, RangeInv, [Next]_vars
  PROVE  LimitInv'
<1>1. "receiver" \in Background /\ "pinger" \in Background
  BY DEF Background
<1>2. << >> \in Items /\ <<"error">> \in Items /\ <<"close">> \in Items
  BY DEF Items
<1>3. ASSUME NEW a \in Background, PutInQueue(a)
      PROVE  LimitInv'
  <2>1. item' = [item EXCEPT ![a] = << >>] /\ partial' = partial
    BY <1>3 DEF PutInQueue, inbox
  <2>2. queue' \in Seq(Items) /\ Len(queue') <= QueueSize
    <3>1. CASE queue' = queue
      BY <3>1 DEF LimitInv
    <3>2. CASE Len(queue) < QueueSize /\ queue' = Append(queue, item[a])
      <4>1. item[a] \in Items /\ Len(queue) \in Nat
        BY LenProperties DEF LimitInv
      <4>2. /\ Append(queue, item[a]) \in Seq(Items)
            /\ Len(Append(queue, item[a])) = Len(queue) + 1
        BY <4>1, AppendProperties DEF LimitInv
      <4>3. QED BY <3>2, <4>1, <4>2, SessionAssumption DEF SessionAssumption
    <3>3. QED BY <1>3, <3>1, <3>2 DEF PutInQueue
  <2>3. QED BY <1>2, <2>1, <2>2 DEF LimitInv
<1>4. ASSUME NEW a \in Background, HandOver(a)
      PROVE  LimitInv'
  BY <1>2, <1>4 DEF HandOver, inbox, LimitInv
<1>5. CASE Take \/ Drain
  <2>1. queue # << >> /\ queue' = Tail(queue) /\ UNCHANGED <<item, partial>>
    BY <1>5 DEF Take, Drain, inbox
  <2>2. /\ Tail(queue) \in Seq(Items) /\ Len(Tail(queue)) = Len(queue) - 1
        /\ Len(queue) \in Nat
    BY <2>1, HeadTailProperties, LenProperties DEF LimitInv
  <2>3. Len(queue') <= QueueSize
    BY <2>1, <2>2, SessionAssumption DEF LimitInv, SessionAssumption
  <2>4. QED BY <2>1, <2>2, <2>3 DEF LimitInv
<1>6. CASE ShutQueue
  <2>1. << >> \in Seq(Items) /\ Len(<< >>) = 0 /\ 0 <= QueueSize
    BY EmptyList, SessionAssumption DEF SessionAssumption
  <2>2. queue' = << >> /\ UNCHANGED <<item, partial>>
    BY <1>6 DEF ShutQueue, inbox
  <2>3. QED BY <2>1, <2>2 DEF LimitInv
<1>7. CASE HandleMessage
  <2>1. Len(frames) + 1 \in Nat
    BY LenProperties DEF RangeInv
  <2>2. /\ Buffered \in Seq(Nat) /\ Len(Buffered) \in Nat /\ MaxSize \in Nat
        /\ << >> \in Seq(Nat) /\ Len(<< >>) = 0
    BY <2>1, AppendProperties, LenProperties, EmptyList, SessionAssumption
       DEF Buffered, LimitInv, SessionAssumption
  <2>3. queue' = queue /\ Len(Buffered) <= MaxSize
    BY <1>7, <2>2 DEF HandleMessage, TooBig
  <2>4. CASE partial' = Buffered /\ item' = item
    BY <2>2, <2>3, <2>4 DEF LimitInv
  <2>5. CASE partial' = << >> /\ item' = [item EXCEPT !["receiver"] = <<"message", Buffered>>]
    <3>1. <<"message", Buffered>> \in Items
      BY <2>2 DEF Items
    <3>2. item' \in [Background -> Items]
      BY <1>1, <2>5, <3>1 DEF LimitInv
    <3>3. Len(partial') <= MaxSize /\ partial' \in Seq(Nat)
      BY <2>2, <2>5
    <3>4. QED BY <2>3, <3>2, <3>3 DEF LimitInv
  <2>6. QED BY <1>7, <2>4, <2>5 DEF HandleMessage, ClearBuffer
<1>8. CASE UNCHANGED <<queue, partial>> /\
           (item' = item \/ \E a \in Background, e \in {<<"error">>, <<"close">>} :
                               item' = [item EXCEPT ![a] = e])
  BY <1>2, <1>8 DEF LimitInv
<1>9. CASE ReadFails \/ HandleClose \/ HandleTooBig \/ PongTimeout
  <2>1. UNCHANGED <<queue, partial>>
    BY <1>9 DEF ReadFails, HandleClose, HandleTooBig, PongTimeout, inbox
  <2>2. \E a \in Background, e \in {<<"error">>, <<"close">>} : item' = [item EXCEPT ![a] = e]
    BY <1>1, <1>9 DEF ReadFails, HandleClose, HandleTooBig, PongTimeout
  <2>3. QED BY <1>8, <2>1, <2>2
<1>10. ASSUME NEW a \in Actors, WriteFails(a)
       PROVE  LimitInv'
  <2>1. UNCHANGED <<queue, partial>>
    BY <1>10 DEF WriteFails, inbox
  <2>2. \/ item' = item
        \/ a \in Background /\ item' = [item EXCEPT ![a] = <<"error">>]
    BY <1>1, <1>10 DEF WriteFails, Actors
  <2>3. QED BY <1>8, <2>1, <2>2
<1>11. ASSUME NEW a \in Actors, Close(a) \/ Farewell(a) \/ Hangup(a) \/ Write(a)
       PROVE  LimitInv'
  BY <1>8, <1>11 DEF Close, Farewell, Hangup, Write, inbox
<1>12. ASSUME NEW a \in Background, ShouldClose(a) \/ Die(a) \/ BackgroundCancelled(a)
       PROVE  LimitInv'
  BY <1>8, <1>12 DEF ShouldClose, Die, BackgroundCancelled, inbox
<1>13. CASE Handled \/ HandlePing \/ HandlePong \/ Ponged \/ Read \/ Ping
  BY <1>8, <1>13 DEF Handled, HandlePing, HandlePong, Ponged, Read, Ping, inbox
<1>14. CASE UserCancelled \/ Join \/ Connect \/ Refuse \/ Send \/ Receive \/ UserCloses
            \/ ReceiveTimeout \/ Exit \/ Finished \/ UNCHANGED vars
  BY <1>8, <1>14 DEF UserCancelled, Join, Connect, Refuse, Send, Receive, UserCloses,
       ReceiveTimeout, Exit, Finished, vars, inbox
<1>15. QED BY <1>3, <1>4, <1>5, <1>6, <1>7, <1>9, <1>10, <1>11, <1>12, <1>13, <1>14
           DEF Next, Progress

\* Only a background task keeps the event loop: the user is never in a stage
\* without an await.
LEMMA InsteadRuns ==
  ASSUME ShapeInv, ShapeInv', NEW a \in Actors, NEW s, Instead(a, s)
  PROVE  running' \in Background \cup {"nobody"}
<1>1. CASE a = "user"
  <2>1. agenda' = [agenda EXCEPT !["user"] = s] /\ "user" \in Actors
    BY <1>1 DEF Instead
  <2>2. agenda'["user"] = s
    <3>1. agenda = [b \in Actors |-> agenda[b]]
      BY DEF ShapeInv
    <3>2. QED BY <2>1, <3>1
  <2>3. s \in Agendas("user")
    BY <2>1, <2>2 DEF ShapeInv
  <2>4. Head(s) \notin Busy
    BY <2>1, <2>3, ByStage DEF Busy
  <2>5. QED BY <2>4 DEF Instead
<1>2. CASE a # "user"
  BY <1>2 DEF Actors, Background, Instead
<1>3. QED BY <1>1, <1>2

LEMMA RunningNext ==
  ASSUME ShapeInv, ShapeInv', RangeInv, [Next]_vars
  PROVE  running' \in Background \cup {"nobody"}
<1>1. "user" \in Actors /\ "receiver" \in Actors /\ "pinger" \in Actors /\ Background \subseteq Actors
  BY DEF Actors, Background
<1>2. CASE running' \in {running, "nobody"}
  BY <1>2 DEF RangeInv
<1>3. CASE \E a \in Actors : \E s : Instead(a, s)
  BY <1>3, InsteadRuns
<1>4. \A a, s : Continue(a, s) => \E t : Instead(a, t)
  BY DEF Continue
<1>5. ASSUME NEW a \in Actors, Close(a) \/ Farewell(a) \/ Hangup(a) \/ Write(a) \/ WriteFails(a)
      PROVE  \E s : Instead(a, s)
  <2>1. CASE Close(a)
    BY <1>4, <2>1 DEF Close
  <2>2. CASE Farewell(a)
    BY <1>4, <2>2 DEF Farewell
  <2>3. CASE Hangup(a)
    BY <1>4, <2>3 DEF Hangup
  <2>4. CASE Write(a)
    BY <1>4, <2>4 DEF Write
  <2>5. CASE WriteFails(a)
    BY <1>4, <1>5, <2>5 DEF WriteFails, Actors
  <2>6. QED BY <1>5, <2>1, <2>2, <2>3, <2>4, <2>5
<1>6. ASSUME NEW a \in Background,
             ShouldClose(a) \/ PutInQueue(a) \/ Die(a) \/ BackgroundCancelled(a)
      PROVE  \E s : Instead(a, s)
  BY <1>4, <1>6 DEF ShouldClose, PutInQueue, Die, BackgroundCancelled
<1>7. ASSUME NEW a \in Background, HandOver(a)
      PROVE  running' = "nobody"
  BY <1>7 DEF HandOver
<1>8. CASE Handled \/ HandlePing \/ HandleClose \/ HandleTooBig \/ Read \/ ReadFails
  <2>1. \E s : Instead("receiver", s)
    BY <1>4, <1>8 DEF Handled, HandlePing, HandleClose, HandleTooBig, Read, ReadFails
  <2>2. QED BY <1>1, <1>3, <2>1
<1>9. CASE HandleMessage
  <2>1. running' = running \/ \E s : Instead("receiver", s)
    BY <1>4, <1>9 DEF HandleMessage, control
  <2>2. QED BY <1>1, <1>2, <1>3, <2>1
<1>10. CASE Ping \/ Ponged \/ PongTimeout
  <2>1. \E s : Instead("pinger", s)
    BY <1>4, <1>10 DEF Ping, Ponged, PongTimeout
  <2>2. QED BY <1>1, <1>3, <2>1
<1>11. CASE Take \/ UserCancelled \/ Join \/ Refuse \/ Send \/ Receive \/ UserCloses
            \/ ReceiveTimeout \/ Exit
  <2>1. \E s : Instead("user", s)
    BY <1>4, <1>11 DEF Take, UserCancelled, Join, Refuse, Send, Receive, UserCloses,
       ReceiveTimeout, Exit, UserAgenda
  <2>2. QED BY <1>1, <1>3, <2>1
<1>12. CASE HandlePong \/ ShutQueue \/ Drain \/ Connect \/ Finished \/ UNCHANGED vars
  BY <1>2, <1>12 DEF HandlePong, ShutQueue, Drain, Connect, Finished, vars, control
<1>13. QED BY <1>1, <1>2, <1>3, <1>5, <1>6, <1>7, <1>8, <1>9, <1>10, <1>11, <1>12
           DEF Next, Progress

\* The variables that hold no agenda, frame or event.
Plain == <<mode, shouldClose, cancelled, shut, batch, frames, wire>>

LEMMA RangeNext ==
  ASSUME ShapeInv, ShapeInv', RangeInv, [Next]_vars
  PROVE  RangeInv'
<1>1. running' \in Background \cup {"nobody"}
  BY RunningNext
<1>2. CASE UNCHANGED Plain /\ sock' \in {sock, "broken", "closed"}
  BY <1>1, <1>2 DEF RangeInv, Plain
<1>3. ASSUME NEW a \in Actors, Farewell(a) \/ Hangup(a) \/ WriteFails(a)
      PROVE  RangeInv'
  BY <1>2, <1>3 DEF Farewell, Hangup, WriteFails, shared, inbox, Plain
<1>4. CASE Refuse \/ ReadFails
  BY <1>2, <1>4 DEF Refuse, ReadFails, shared, inbox, Plain
<1>5. ASSUME NEW a \in Actors, Close(a)
      PROVE  RangeInv'
  BY <1>1, <1>5 DEF Close, RangeInv, shared, inbox
<1>6. ASSUME NEW a \in Actors, Write(a)
      PROVE  RangeInv'
  <2>1. wire' \in Frames
    BY <1>6 DEF Write, ShapeInv
  <2>2. QED BY <1>1, <1>6, <2>1 DEF Write, RangeInv, shared, inbox
<1>7. ASSUME NEW a \in Background, Die(a)
      PROVE  RangeInv'
  BY <1>1, <1>7 DEF Die, RangeInv, inbox
<1>8. ASSUME NEW a \in Background,
             ShouldClose(a) \/ PutInQueue(a) \/ HandOver(a) \/ BackgroundCancelled(a)
      PROVE  RangeInv'
  BY <1>2, <1>8 DEF ShouldClose, PutInQueue, HandOver, BackgroundCancelled, shared, inbox, Plain
<1>9. CASE HandlePing \/ HandlePong \/ HandleClose
  <2>1. batch' \in Seq(Kinds)
    BY <1>9, HeadTailProperties, ZenonT(60) DEF HandlePing, HandlePong, HandleClose, HandleNext, RangeInv
  <2>2. CASE HandlePing \/ HandlePong
    BY <1>1, <2>1, <2>2 DEF HandlePing, HandlePong, RangeInv, shared
  <2>3. CASE HandleClose
    BY <1>1, <2>1, <2>3 DEF HandleClose, RangeInv, shared
  <2>4. QED BY <1>9, <2>2, <2>3
<1>10. CASE HandleTooBig
  <2>1. batch' \in Seq(Kinds)
    BY <1>10, HeadTailProperties DEF HandleTooBig, HandleNext, RangeInv
  <2>2. QED BY <1>1, <1>10, <2>1 DEF HandleTooBig, RangeInv, shared
<1>11. CASE HandleMessage
  <2>0. batch # << >> /\ batch' = Tail(batch)
    BY <1>11 DEF HandleMessage, HandleNext
  <2>1. batch' \in Seq(Kinds)
    BY <2>0, TailList DEF RangeInv
  <2>2. frames' \in Seq(BOOLEAN)
    BY <1>11, AppendProperties DEF HandleMessage, RangeInv
  <2>3. QED BY <1>1, <1>11, <2>1, <2>2 DEF HandleMessage, RangeInv, shared
<1>12. CASE Read
  <2>1. PICK b \in Arrivals : batch' = b
    BY <1>12 DEF Read
  <2>2. b \in Seq(Kinds)
    <3> DEFINE Singles == {<<k>> : k \in Kinds}
               Pairs == {<<k, l>> : k \in Kinds \ {"close", "bad"}, l \in Kinds}
    <3>1. b \in Singles \cup Pairs
      BY DEF Arrivals
    <3>2. ASSUME b \in Singles PROVE b \in Seq(Kinds)
      <4>1. PICK k \in Kinds : b = <<k>>
        BY <3>2
      <4>2. QED BY <4>1
    <3>3. ASSUME b \in Pairs PROVE b \in Seq(Kinds)
      <4>1. PICK k \in Kinds, l \in Kinds : b = <<k, l>>
        BY <3>3
      <4>2. QED BY <4>1
    <3>4. QED BY <3>1, <3>2, <3>3
  <2>3. QED BY <1>1, <1>12, <2>1, <2>2 DEF Read, RangeInv, shared
<1>13. CASE Exit
  BY <1>1, <1>13 DEF Exit, RangeInv, inbox
<1>14. CASE ShutQueue
  BY <1>1, <1>14 DEF ShutQueue, RangeInv, inbox
<1>15. CASE Handled \/ Ping \/ Ponged \/ PongTimeout
  BY <1>2, <1>15 DEF Handled, Ping, Ponged, PongTimeout, shared, inbox, Plain
<1>16. CASE Take \/ UserCancelled \/ Drain \/ Join \/ Connect \/ Send \/ Receive \/ UserCloses
            \/ ReceiveTimeout \/ Finished \/ UNCHANGED vars
  BY <1>2, <1>16 DEF Take, UserCancelled, Drain, Join, Connect, Send, Receive, UserCloses,
       ReceiveTimeout, Finished, vars, shared, inbox, Plain
<1>17. QED BY <1>3, <1>4, <1>5, <1>6, <1>7, <1>8, <1>9, <1>10, <1>11, <1>12, <1>13, <1>14,
              <1>15, <1>16 DEF Next, Progress

\* An agenda is a list of stages.
LEMMA AgendaShape ==
  ASSUME NEW a \in Actors, NEW t \in Agendas(a)
  PROVE  t \in Seq(Stages) \ {<< >>}
<1>1. CASE t \in Calls(a) \cup Handshakes(a)
  <2>1. PICK r \in Rests(a) : \/ \E k \in {"close", "farewell", "hangup"} : t = <<k>> \o r
                              \/ t = <<"write", "hangup">> \o r
    <3>1. CASE t \in Calls(a)
      <4>1. PICK k \in {"close", "farewell"}, r \in Rests(a) : t = <<k>> \o r
        BY <3>1 DEF Calls
      <4>2. QED BY <4>1
    <3>2. CASE t \in Handshakes(a)
      <4>1. PICK r \in Rests(a) : t = <<"hangup">> \o r \/ t = <<"write", "hangup">> \o r
        BY <3>2 DEF Handshakes
      <4>2. QED BY <4>1
    <3>3. QED BY <1>1, <3>1, <3>2
  <2>2. <<"hangup">> \o r \in Seq(Stages) /\ {"write", "hangup"} \subseteq Stages
    BY CallShape DEF Stages
  <2>3. t \in Seq(Stages)
    <3>1. CASE t = <<"write", "hangup">> \o r
      <4>1. t = <<"write">> \o (<<"hangup">> \o r)
        BY <2>2, <3>1, RestShape, TwoPrefix
      <4>2. <<"write">> \o (<<"hangup">> \o r) \in Seq(Stages)
        BY <2>2, Prefix
      <4>3. QED BY <4>1, <4>2
    <3>2. QED BY <2>1, <3>1, CallShape
  <2>4. Len(r) \in Nat /\ r \in Seq(Stages)
    BY RestShape, LenProperties
  <2>5. Len(t) # 0
    <3>1. \A k \in {"close", "farewell", "hangup"} :
            <<k>> \in Seq(Stages) /\ Len(<<k>>) = 1
      BY DEF Stages
    <3>2. <<"write", "hangup">> \in Seq(Stages) /\ Len(<<"write", "hangup">>) = 2
      BY <2>2
    <3>3. \A k \in {"close", "farewell", "hangup"} : Len(<<k>> \o r) = 1 + Len(r)
      BY <2>4, <3>1, ConcatProperties
    <3>4. Len(<<"write", "hangup">> \o r) = 2 + Len(r)
      BY <2>4, <3>2, ConcatProperties
    <3>5. QED BY <2>1, <2>4, <3>3, <3>4
  <2>6. Len(<< >>) = 0
    BY EmptyList
  <2>7. QED BY <2>3, <2>5, <2>6
<1>2. CASE t \in Rests(a)
  BY <1>2, RestShape
<1>3. CASE t \in Others(a)
  <2>1. {"connect", "idle", "receive", "write", "left", "raised", "read", "handle", "sleep",
         "pong", "put"} \subseteq Stages
    BY DEF Stages
  <2>2. \A x \in Stages : <<x>> \in Seq(Stages) \ {<< >>}
    OBVIOUS
  <2>3. \A x, y \in Stages : <<x, y>> \in Seq(Stages) \ {<< >>}
    OBVIOUS
  <2>4. CASE a = "user"
    BY <1>3, <2>1, <2>2, <2>3, <2>4, ZenonT(60) DEF Others
  <2>5. CASE a # "user"
    BY <1>3, <2>1, <2>2, <2>3, <2>5, ZenonT(60) DEF Others
  <2>6. QED BY <2>4, <2>5
<1>4. QED BY <1>1, <1>2, <1>3 DEF Agendas

-----------------------------------------------------------------------------
(***************************************************************************)
(* The theorems.                                                           *)
(***************************************************************************)
LEMMA InitIInv == Init => IInv
<1> SUFFICES ASSUME Init PROVE IInv
  OBVIOUS
<1>1. /\ proto = "open" /\ sock = "open" /\ writers = << >> /\ wire = "none"
      /\ agenda = [a \in Actors |-> IF a = "user" THEN <<"connect">> ELSE <<"done">>]
      /\ frame = [a \in Actors |-> "none"]
  BY DEF Init
<1>2. <<"connect">> \in Agendas("user") /\ Head(<<"connect">>) = "connect" /\ "user" \in Actors
  BY DEF Agendas, Others, Actors
<1>3. <<"connect">> \notin Handshakes("user")
  BY <1>2, ByStage
<1>4. Actors = {"user"} \cup Background
  BY DEF Actors, Background
<1>5. \A a \in Background : a # "user" /\ <<"done">> \in Agendas(a) /\ Head(<<"done">>) = "done"
  BY BackGoals
<1>6. ShapeInv
  <2>1. \A a \in Actors : agenda[a] \in Agendas(a)
    BY <1>1, <1>2, <1>4, <1>5
  <2>2. writers \in Seq(Actors) /\ IsInjective(writers)
    BY <1>1, EmptyList
  <2>3. QED BY <1>1, <2>1, <2>2 DEF ShapeInv, Protos, Frames
<1>7. \A a \in Actors : Doing(a) = IF a = "user" THEN "connect" ELSE "done"
  BY <1>1, <1>2, <1>4, <1>5 DEF Doing
<1>8. FrameInv
  BY <1>1, <1>7 DEF FrameInv
<1>9. UserInv
  BY <1>1, <1>2, <1>3, <1>4, <1>5, <1>7 DEF UserInv, Alone
<1>10. WriterInv
  <2>1. ToSet(writers) = {} /\ DOMAIN writers = {}
    BY <1>1, EmptyList DEF ToSet
  <2>2. QED BY <1>1, <2>1 DEF WriterInv
<1>11. QED BY <1>6, <1>8, <1>9, <1>10 DEF IInv

LEMMA NextIInv ==
  ASSUME IInv, [Next]_vars
  PROVE  IInv' /\ Quiet
<1>1. ASSUME NEW a \in Actors, Progress(a)
      PROVE  IInv' /\ Quiet
  <2>1. CASE Close(a)
    BY <2>1, CloseKeeps
  <2>2. CASE Farewell(a)
    BY <2>2, FarewellKeeps
  <2>3. CASE Hangup(a)
    BY <2>3, HangupKeeps
  <2>4. CASE Write(a)
    BY <2>4, WriteKeeps
  <2>5. CASE WriteFails(a)
    BY <2>5, WriteFailsKeeps
  <2>6. CASE a \in Background /\ (ShouldClose(a) \/ Die(a))
    BY <2>6, BackgroundKeeps
  <2>7. CASE a \in Background /\ PutInQueue(a)
    BY <2>7, PutKeeps
  <2>8. CASE a \in Background /\ HandOver(a)
    BY <2>8, HandOverKeeps
  <2>9. CASE a \in Background /\ BackgroundCancelled(a)
    BY <2>9, BackgroundCancelledKeeps
  <2>10. CASE Handled \/ HandleClose \/ HandleTooBig \/ ReadFails
    BY <2>10, ReceiverKeeps
  <2>11. CASE HandlePing
    BY <2>11, HandlePingKeeps
  <2>12. CASE HandleMessage
    BY <2>12, HandleMessageKeeps
  <2>13. CASE HandlePong \/ ShutQueue \/ Drain
    BY <2>13, RestKeeps
  <2>14. CASE Ponged
    BY <2>14, PingerKeeps
  <2>15. CASE Take
    BY <2>15, UserKeeps
  <2>16. CASE UserCancelled
    BY <2>16, CancelledKeeps
  <2>17. CASE Join
    BY <2>17, JoinKeeps
  <2>18. QED BY <1>1, <2>1, <2>2, <2>3, <2>4, <2>5, <2>6, <2>7, <2>8, <2>9, <2>10, <2>11,
                <2>12, <2>13, <2>14, <2>15, <2>16, <2>17 DEF Progress
<1>2. CASE Connect
  BY <1>2, ConnectKeeps
<1>3. CASE Refuse \/ Receive \/ UserCloses \/ ReceiveTimeout \/ Exit
  BY <1>3, UserKeeps
<1>4. CASE Send
  BY <1>4, SendKeeps
<1>5. CASE Read \/ ReadFails
  BY <1>5, ReceiverKeeps
<1>6. CASE Ping
  BY <1>6, PingKeeps
<1>7. CASE PongTimeout
  BY <1>7, PingerKeeps
<1>8. CASE Finished \/ UNCHANGED vars
  BY <1>8, RestKeeps
<1>9. QED BY <1>1, <1>2, <1>3, <1>4, <1>5, <1>6, <1>7, <1>8 DEF Next

LEMMA InitTypes == Init => RangeInv /\ LimitInv
<1> SUFFICES ASSUME Init PROVE RangeInv /\ LimitInv
  OBVIOUS
<1>1. RangeInv
  BY EmptyList DEF Init, RangeInv, Frames
<1>2. item \in [Background -> Items]
  BY DEF Init, Items
<1>3. QED BY <1>1, <1>2, EmptyList, SessionAssumption DEF Init, LimitInv

\* IInv is the inductive invariant of the session.
THEOREM Invariance == Spec => []IInv
<1>1. IInv /\ [Next]_vars => IInv'
  BY NextIInv
<1>2. QED BY InitIInv, <1>1, PTL DEF Spec

\* Whatever the actors do, in threads and in tasks: nobody's agenda is ever empty
\* or holds anything but stages, nobody waits for the lock twice, and the queue
\* and the message buffer keep their limits.
THEOREM TypeCorrect == Spec => []TypeOK
<1>1. IInv /\ RangeInv /\ LimitInv /\ [Next]_vars => (IInv /\ RangeInv /\ LimitInv)'
  <2> SUFFICES ASSUME IInv, RangeInv, LimitInv, [Next]_vars
               PROVE  IInv' /\ RangeInv' /\ LimitInv'
    OBVIOUS
  <2>1. IInv'
    BY NextIInv
  <2>2. QED BY <2>1, RangeNext, LimitNext DEF IInv
<1>2. IInv /\ RangeInv /\ LimitInv => TypeOK
  <2> SUFFICES ASSUME IInv, RangeInv, LimitInv PROVE TypeOK
    OBVIOUS
  <2>1. ShapeInv
    BY DEF IInv
  <2>2. agenda \in [Actors -> Seq(Stages) \ {<< >>}]
    BY <2>1, AgendaShape DEF ShapeInv
  <2>3. ToSet(writers) \subseteq Actors /\ ToSet(batch) \subseteq Kinds /\ ToSet(frames) \subseteq BOOLEAN
    BY <2>1, Elements DEF ShapeInv, RangeInv
  <2>4. proto \in Protos /\ frame \in [Actors -> Frames] /\ IsInjective(writers)
    BY <2>1 DEF ShapeInv
  <2>5. QED BY <2>2, <2>3, <2>4 DEF RangeInv, LimitInv, TypeOK, Protos, Frames
<1>3. QED BY InitIInv, InitTypes, <1>1, <1>2, PTL DEF Spec

\* Whoever closes first and whatever fails, is cancelled or times out: a user who
\* has left the context by its normal way has closed the stream after the
\* closing handshake was started, and left no background actor and no bytes
\* behind.
THEOREM LeavesNothing == Spec => []LeftClean
<1>1. IInv => LeftClean
  <2> SUFFICES ASSUME IInv, Doing("user") = "left" PROVE LeftClean
    BY DEF LeftClean
  <2>1. proto # "open" /\ sock = "closed" /\ Alone
    BY DEF IInv, UserInv
  <2>2. \A a \in Actors : Doing(a) # "write"
    BY <2>1 DEF Alone, Actors, Background
  <2>3. \A a \in Actors : frame[a] = "none"
    BY <2>2 DEF IInv, FrameInv
  <2>4. QED BY <2>1, <2>3 DEF LeftClean, Alone
<1>2. QED BY <1>1, Invariance, PTL

\* Tasks write nothing after the close frame: wsproto gives nobody bytes for
\* anything else once it has made one, and the lock is handed on in the order in
\* which the bytes were made.
THEOREM CloseIsLast == Spec => NothingAfterClose
<1>1. IInv /\ [Next]_vars => [mode = "tasks" /\ wire = "close" => wire' = wire]_vars
  <2> SUFFICES ASSUME IInv, [Next]_vars, mode = "tasks", wire = "close" PROVE wire' = wire
    OBVIOUS
  <2>1. Quiet
    BY NextIInv
  <2>2. QED BY <2>1 DEF Quiet, Threads
<1>2. QED BY <1>1, Invariance, PTL DEF Spec, NothingAfterClose

-----------------------------------------------------------------------------
(***************************************************************************)
(* The order of the messages.                                              *)
(***************************************************************************)
\* The frames after lo up to hi, and that they are one message.
Span(lo, hi) == [i \in 1 .. (hi - lo) |-> lo + i]
OneMessage(lo, hi) == lo < hi /\ \A i \in (lo + 1) .. hi : frames[i] <=> i = hi

Got == FlattenSeq(delivered)

\* What the user has: the first frames, message after message, each up to the
\* frame that ends it.
GotInv ==
  /\ delivered \in Seq(Seq(Nat)) /\ Len(Got) <= Len(frames) /\ Got = Span(0, Len(Got))
  /\ \A m \in ToSet(delivered) : \A i \in DOMAIN m :
       m[i] \in DOMAIN frames /\ (frames[m[i]] <=> i = Len(m))

\* An event that is a message is that of the frames after lo up to hi.
Carries(e, lo, hi) ==
  IF e[1] = "message" THEN e[2] = Span(lo, hi) /\ OneMessage(lo, hi) ELSE hi = lo

\* The queue goes on where the user stopped: b says where its events end.
Chain(b) ==
  /\ b \in [0 .. Len(queue) -> 0 .. Len(frames)] /\ b[0] = Len(Got)
  /\ \A k \in 1 .. Len(queue) : Carries(queue[k], b[k - 1], b[k])

\* The receiver goes on after lo with the event it is putting into the queue, and
\* then with the message that has begun.
Resumes(lo, end) ==
  /\ IF Doing("receiver") = "put" THEN Carries(item["receiver"], lo, end) ELSE end = lo
  /\ partial = Span(end, Len(frames))
  /\ \A i \in (end + 1) .. Len(frames) : ~frames[i]
Follows(lo) == \E end \in 0 .. Len(frames) : Resumes(lo, end)

\* A user who is emptying the queue or has left receives no more; a receiver that
\* has ended puts no more.
Gone == Doing("user") \in {"drain", "shutdown", "left"}
Over == Doing("receiver") \in {"done", "die"}

OrderInv ==
  ~Gone => \E b \in [0 .. Len(queue) -> 0 .. Len(frames)] :
             Chain(b) /\ (~Over => Follows(b[Len(queue)]))

\* The events: reports that the session is over, and messages.
Reports == {<<"error">>, <<"close">>}
Messages == {"message"} \X Seq(Nat)

\* An actor that closes the session before it reports why.
Due == <<"put", "done">>
Announces == {<<k>> \o Due : k \in {"close", "farewell", "hangup"}}
             \cup {<<"write", "hangup">> \o Due}

\* Whoever is going to put an event has one; only the receiver puts messages, and
\* only straight after it has completed them.
ItemInv ==
  /\ \A a \in Background :
       /\ agenda[a] \in Announces => item[a] \in Reports
       /\ Doing(a) = "put" => item[a] \in Reports \cup Messages
  /\ Doing("pinger") = "put" => item["pinger"] \in Reports
  /\ queue \in Seq(Reports \cup Messages)
  /\ ~Threads => queue = << >>
  /\ Doing("user") = "connect" =>
       queue = << >> /\ frames = << >> /\ partial = << >> /\ delivered = << >>

StreamInv == GotInv /\ OrderInv /\ ItemInv

\* A step that delivers nothing, handles no frame and leaves the queue alone: if
\* its actor is going to put an event now, then that is a report.
Passes(a) ==
  /\ UNCHANGED <<mode, delivered, queue, frames, partial>>
  /\ \A b \in Actors \ {a} : agenda'[b] = agenda[b]
  /\ \A b \in Background \ {a} : item'[b] = item[b]
  /\ a = "user" => (Doing(a)' = "connect" => Doing(a) = "connect") /\ (Gone => Gone')
  /\ a \in Background =>
       (agenda'[a] \in Announces \/ Doing(a)' = "put" => item'[a] \in Reports)
  /\ a = "receiver" => Over' \/ Doing(a) \notin {"put", "done", "die"}

LEMMA SpanShape ==
  ASSUME NEW lo \in Nat, NEW hi \in Nat, lo <= hi
  PROVE  /\ Span(lo, hi) \in Seq(Nat) /\ Len(Span(lo, hi)) = hi - lo
         /\ \A i \in 1 .. (hi - lo) : Span(lo, hi)[i] = lo + i
<1>1. hi - lo \in Nat
  OBVIOUS
<1>2. \A i \in 1 .. (hi - lo) : lo + i \in Nat
  OBVIOUS
<1>3. QED BY <1>1, <1>2 DEF Span

LEMMA SpanEmpty ==
  ASSUME NEW lo \in Nat
  PROVE  Span(lo, lo) = << >>
<1>1. Span(lo, lo) \in Seq(Nat) /\ Len(Span(lo, lo)) = 0
  BY SpanShape
<1>2. QED BY <1>1, EmptySeq

LEMMA SpanJoin ==
  ASSUME NEW lo \in Nat, NEW mid \in Nat, NEW hi \in Nat, lo <= mid, mid <= hi
  PROVE  Span(lo, mid) \o Span(mid, hi) = Span(lo, hi)
<1> DEFINE s == Span(lo, mid)
           t == Span(mid, hi)
           u == Span(lo, hi)
           c == s \o t
<1>1. /\ s \in Seq(Nat) /\ Len(s) = mid - lo /\ \A i \in 1 .. (mid - lo) : s[i] = lo + i
      /\ t \in Seq(Nat) /\ Len(t) = hi - mid /\ \A i \in 1 .. (hi - mid) : t[i] = mid + i
      /\ u \in Seq(Nat) /\ Len(u) = hi - lo /\ \A i \in 1 .. (hi - lo) : u[i] = lo + i
  <2>1. lo <= hi
    OBVIOUS
  <2>2. QED BY <2>1, SpanShape
<1> HIDE DEF s, t, u
<1>2. /\ c \in Seq(Nat) /\ Len(c) = Len(s) + Len(t)
      /\ \A i \in 1 .. (Len(s) + Len(t)) : c[i] = IF i <= Len(s) THEN s[i] ELSE t[i - Len(s)]
  BY <1>1, ConcatProperties
<1> HIDE DEF c
<1>3. Len(c) = Len(u)
  BY <1>1, <1>2
<1>4. ASSUME NEW i \in 1 .. Len(u) PROVE c[i] = u[i]
  <2>1. i \in 1 .. (hi - lo) /\ u[i] = lo + i
    BY <1>1
  <2>2. CASE i <= mid - lo
    BY <1>1, <1>2, <2>1, <2>2
  <2>3. CASE ~(i <= mid - lo)
    <3>1. i - (mid - lo) \in 1 .. (hi - mid)
      BY <2>1, <2>3
    <3>2. t[i - (mid - lo)] = mid + (i - (mid - lo))
      BY <1>1, <3>1
    <3>3. QED BY <1>1, <1>2, <2>1, <2>3, <3>2
  <2>4. QED BY <2>2, <2>3
<1>5. c = u
  BY <1>1, <1>2, <1>3, <1>4, SeqEqual
<1>6. QED BY <1>5 DEF c, s, t, u

LEMMA SpanStep ==
  ASSUME NEW lo \in Nat, NEW hi \in Nat, lo <= hi
  PROVE  Append(Span(lo, hi), hi + 1) = Span(lo, hi + 1)
<1> DEFINE s == Span(lo, hi)
           u == Span(lo, hi + 1)
           c == Append(s, hi + 1)
<1>1. /\ s \in Seq(Nat) /\ Len(s) = hi - lo /\ \A i \in 1 .. (hi - lo) : s[i] = lo + i
      /\ u \in Seq(Nat) /\ Len(u) = (hi + 1) - lo
      /\ \A i \in 1 .. ((hi + 1) - lo) : u[i] = lo + i
  <2>1. hi + 1 \in Nat /\ lo <= hi + 1
    OBVIOUS
  <2>2. QED BY <2>1, SpanShape
<1> HIDE DEF s, u
<1>2. /\ c \in Seq(Nat) /\ Len(c) = Len(s) + 1
      /\ \A i \in 1 .. Len(s) : c[i] = s[i]
      /\ c[Len(s) + 1] = hi + 1
  BY <1>1, AppendProperties
<1> HIDE DEF c
<1>3. Len(c) = Len(u)
  BY <1>1, <1>2
<1>4. ASSUME NEW i \in 1 .. Len(u) PROVE c[i] = u[i]
  <2>1. i \in 1 .. ((hi + 1) - lo) /\ u[i] = lo + i
    BY <1>1
  <2>2. CASE i <= hi - lo
    BY <1>1, <1>2, <2>1, <2>2
  <2>3. CASE ~(i <= hi - lo)
    <3>1. i = (hi - lo) + 1
      BY <2>1, <2>3
    <3>2. QED BY <1>1, <1>2, <2>1, <3>1
  <2>4. QED BY <2>2, <2>3
<1>5. c = u
  BY <1>1, <1>2, <1>3, <1>4, SeqEqual
<1>6. QED BY <1>5 DEF c, s, u

\* What an event is.
LEMMA Events ==
  /\ \A e \in Reports : e[1] # "message"
  /\ \A e \in Messages : e[1] = "message" /\ e[2] \in Seq(Nat)
BY DEF Reports, Messages

LEMMA PassKeeps ==
  ASSUME StreamInv, NEW a \in Actors, Passes(a)
  PROVE  StreamInv'
<1>1. /\ UNCHANGED <<mode, delivered, queue, frames, partial>>
      /\ \A b \in Actors \ {a} : agenda'[b] = agenda[b]
      /\ \A b \in Background \ {a} : item'[b] = item[b]
  BY DEF Passes
<1>2. /\ "receiver" \in Background /\ "pinger" \in Background
      /\ Background \subseteq Actors /\ "user" \in Actors
  BY DEF Background, Actors
<1>3. \A b \in Actors \ {a} : Doing(b)' = Doing(b)
  BY <1>1 DEF Doing
<1>4. GotInv'
  BY <1>1 DEF StreamInv, GotInv, Got
<1>5. ItemInv'
  <2>1. ASSUME NEW b \in Background
        PROVE  /\ agenda'[b] \in Announces => item'[b] \in Reports
               /\ Doing(b)' = "put" => item'[b] \in Reports \cup Messages
    <3>1. CASE b = a
      BY <3>1, <2>1 DEF Passes
    <3>2. CASE b # a
      BY <1>1, <1>2, <1>3, <2>1, <3>2 DEF StreamInv, ItemInv
    <3>3. QED BY <3>1, <3>2
  <2>2. Doing("pinger")' = "put" => item'["pinger"] \in Reports
    <3>1. CASE a = "pinger"
      BY <1>2, <3>1 DEF Passes
    <3>2. CASE a # "pinger"
      BY <1>1, <1>2, <1>3, <3>2 DEF StreamInv, ItemInv
    <3>3. QED BY <3>1, <3>2
  <2>3. Doing("user")' = "connect" => Doing("user") = "connect"
    BY <1>2, <1>3 DEF Passes
  <2>4. QED BY <1>1, <2>1, <2>2, <2>3 DEF StreamInv, ItemInv, Threads
<1>6. OrderInv'
  <2> SUFFICES ASSUME ~Gone' PROVE (\E b \in [0 .. Len(queue) -> 0 .. Len(frames)] :
                                     Chain(b) /\ (~Over => Follows(b[Len(queue)])))'
    BY DEF OrderInv
  <2>1. ~Gone
    <3>1. CASE a = "user"
      BY <3>1 DEF Passes
    <3>2. CASE a # "user"
      BY <1>2, <1>3, <3>2 DEF Gone
    <3>3. QED BY <3>1, <3>2
  <2>2. PICK b \in [0 .. Len(queue) -> 0 .. Len(frames)] :
          Chain(b) /\ (~Over => Follows(b[Len(queue)]))
    BY <2>1 DEF StreamInv, OrderInv
  <2>3. Chain(b)'
    BY <1>1, <2>2 DEF Chain, Got, Carries, OneMessage
  <2>4. PICK lo : lo = b[Len(queue)]
    OBVIOUS
  <2>5. ASSUME ~Over' PROVE Follows(lo)'
    <3>1. ~Over /\ (a = "receiver" => Doing(a) # "put")
      <4>1. CASE a = "receiver"
        BY <2>5, <4>1 DEF Passes, Over
      <4>2. CASE a # "receiver"
        BY <1>2, <1>3, <2>5, <4>2 DEF Over
      <4>3. QED BY <4>1, <4>2
    <3>2. PICK end \in 0 .. Len(frames) : Resumes(lo, end)
      BY <2>2, <2>4, <3>1 DEF Follows
    <3>3. /\ partial' = Span(end, Len(frames'))
          /\ \A i \in (end + 1) .. Len(frames') : ~frames'[i]
      BY <1>1, <3>2 DEF Resumes
    <3>4. Resumes(lo, end)' => Follows(lo)'
      BY <1>1, <3>2 DEF Follows
    <3>5. CASE a = "receiver"
      <4>1. end = lo
        BY <3>1, <3>2, <3>5 DEF Resumes
      <4>2. ASSUME Doing("receiver")' = "put" PROVE Carries(item["receiver"], lo, end)'
        <5>1. item'["receiver"][1] # "message"
          BY <1>2, <3>5, <4>2, Events DEF Passes
        <5>2. QED BY <4>1, <5>1 DEF Carries
      <4>3. QED BY <3>3, <3>4, <4>1, <4>2 DEF Resumes
    <3>6. CASE a # "receiver"
      <4>1. Doing("receiver")' = Doing("receiver") /\ item'["receiver"] = item["receiver"]
        BY <1>1, <1>2, <1>3, <3>6
      <4>2. Doing("receiver") = "put" => Carries(item["receiver"], lo, end)'
        <5>1. Carries(item["receiver"], lo, end) => Carries(item["receiver"], lo, end)'
          BY <1>1, <4>1 DEF Carries, OneMessage
        <5>2. QED BY <3>2, <5>1 DEF Resumes
      <4>3. Doing("receiver") # "put" => end = lo
        BY <3>2 DEF Resumes
      <4>4. QED BY <3>3, <3>4, <4>1, <4>2, <4>3 DEF Resumes
    <3>7. QED BY <3>5, <3>6
  <2>6. /\ b \in [0 .. Len(queue') -> 0 .. Len(frames')]
        /\ ~Over' => Follows(b[Len(queue)])'
    BY <1>1, <2>2, <2>4, <2>5
  <2>7. QED BY <2>3, <2>6
<1>7. QED BY <1>4, <1>5, <1>6 DEF StreamInv

\* A step that changes nothing the invariant speaks of.
LEMMA StillKeeps ==
  ASSUME StreamInv, UNCHANGED <<mode, delivered, queue, frames, partial, agenda, item>>
  PROVE  StreamInv'
<1>1. "user" \in Actors /\ "user" \notin Background
  BY DEF Actors, Background
<1>2. Doing("user")' = Doing("user") /\ (Gone => Gone')
  BY DEF Doing, Gone
<1>3. Passes("user")
  BY <1>1, <1>2 DEF Passes
<1>4. QED BY <1>1, <1>3, PassKeeps

-----------------------------------------------------------------------------
(***************************************************************************)
(* The steps that deliver nothing.                                         *)
(***************************************************************************)
LEMMA AnnounceShape ==
  ASSUME NEW t \in Announces
  PROVE  \/ Head(t) \in {"close", "farewell", "hangup"} /\ Tail(t) = Due
         \/ Head(t) = "write" /\ t[2] = "hangup" /\ Tail(t) = <<"hangup">> \o Due
<1>1. "pinger" \in Actors /\ Due \in Rests("pinger")
  BY DEF Actors, Rests, Due
<1>2. CASE t \in {<<k>> \o Due : k \in {"close", "farewell", "hangup"}}
  BY <1>1, <1>2, CallShape
<1>3. CASE t = <<"write", "hangup">> \o Due
  BY <1>1, <1>3, CallShape
<1>4. QED BY <1>2, <1>3 DEF Announces

\* Whether a close() is followed by a report.
LEMMA Announced ==
  ASSUME NEW a \in Background, NEW r \in Rests(a)
  PROVE  /\ \A k \in {"close", "farewell", "hangup"} : <<k>> \o r \in Announces <=> r = Due
         /\ <<"write", "hangup">> \o r \in Announces <=> r = Due
         /\ Head(r) = "put" => r = Due
         /\ r \notin Announces
<1>1. a \in Actors /\ a # "user"
  BY DEF Actors, Background
<1>2. ASSUME NEW k \in {"close", "farewell", "hangup"}
      PROVE  <<k>> \o r \in Announces <=> r = Due
  <2>1. Head(<<k>> \o r) = k /\ Tail(<<k>> \o r) = r
    BY <1>1, CallShape
  <2>2. <<k>> \o r \in Announces => r = Due
    BY <2>1, AnnounceShape
  <2>3. QED BY <2>2 DEF Announces
<1>3. <<"write", "hangup">> \o r \in Announces <=> r = Due
  <2>1. /\ Head(<<"write", "hangup">> \o r) = "write"
        /\ Tail(<<"write", "hangup">> \o r) = <<"hangup">> \o r
        /\ Tail(<<"hangup">> \o r) = r
    BY <1>1, CallShape
  <2>2. Tail(<<"hangup">> \o Due) = Due
    <3>1. Due \in Rests(a)
      BY <1>1 DEF Rests, Due
    <3>2. QED BY <1>1, <3>1, CallShape
  <2>3. <<"write", "hangup">> \o r \in Announces => r = Due
    BY <2>1, <2>2, AnnounceShape
  <2>4. QED BY <2>3 DEF Announces
<1>4. Head(r) \in {"put", "done", "die"} /\ (r = <<Head(r)>> \/ r = Due)
  BY <1>1, RestShape DEF Due
<1>5. Head(r) = "put" => r = Due
  BY <1>1, <1>4 DEF Rests, Due
<1>6. r \notin Announces
  BY <1>4, AnnounceShape
<1>7. QED BY <1>2, <1>3, <1>5, <1>6

LEMMA Moved ==
  ASSUME IInv, StreamInv, NEW a \in Actors, NEW t, agenda' = [agenda EXCEPT ![a] = t],
         UNCHANGED <<mode, delivered, queue, frames, partial>>,
         \A b \in Background \ {a} : item'[b] = item[b],
         a = "user" => Head(t) # "connect" /\ (Gone => Head(t) = "left"),
         a \in Background => (t \in Announces \/ Head(t) = "put" => item'[a] \in Reports),
         a = "receiver" => Head(t) \in {"done", "die"} \/ Doing(a) \notin {"put", "done", "die"}
  PROVE  StreamInv'
<1>1. agenda' = [b \in Actors |-> IF b = a THEN t ELSE agenda[b]]
  <2>1. agenda = [b \in Actors |-> agenda[b]]
    BY DEF IInv, ShapeInv
  <2>2. QED BY <2>1
<1>2. agenda'[a] = t /\ \A b \in Actors \ {a} : agenda'[b] = agenda[b]
  BY <1>1
<1>3. Doing(a)' = Head(t)
  BY <1>2 DEF Doing
<1>4. a = "user" => (Doing(a)' = "connect" => Doing(a) = "connect") /\ (Gone => Gone')
  BY <1>3 DEF Gone
<1>5. a = "receiver" => Over' \/ Doing(a) \notin {"put", "done", "die"}
  BY <1>3 DEF Over
<1>6. Passes(a)
  BY <1>2, <1>3, <1>4, <1>5 DEF Passes
<1>7. QED BY <1>6, PassKeeps

LEMMA CloseOrder ==
  ASSUME IInv, StreamInv, NEW a \in Actors, Close(a)
  PROVE  StreamInv'
<1>1. ShapeInv /\ agenda[a] \in Agendas(a) /\ Doing(a) = "close"
  BY DEF IInv, ShapeInv, Close
<1>2. PICK r \in Rests(a) : agenda[a] = <<"close">> \o r
  BY <1>1, ByStage DEF Doing
<1>3. Tail(agenda[a]) = r
  BY <1>2, CallShape
<1>4. UNCHANGED <<mode, delivered, queue, frames, partial, item>>
  BY DEF Close, shared, inbox
<1>5. PICK t \in {<<"hangup">> \o r, <<"farewell">> \o r, <<"write", "hangup">> \o r} :
        agenda' = [agenda EXCEPT ![a] = t]
  BY <1>3 DEF Close, Continue, Instead, AlreadyClosing
<1>6. Head(t) \in {"hangup", "farewell", "write"}
  BY CallShape
<1>7. ~(a = "user" /\ Gone)
  BY <1>1 DEF Gone
<1>8. ASSUME a \in Background, t \in Announces PROVE item'[a] \in Reports
  <2>1. r = Due
    BY <1>8, Announced
  <2>2. agenda[a] \in Announces
    BY <1>2, <2>1 DEF Announces
  <2>3. QED BY <1>4, <1>8, <2>2 DEF StreamInv, ItemInv
<1>9. QED BY <1>1, <1>4, <1>5, <1>6, <1>7, <1>8, Moved

LEMMA FarewellOrder ==
  ASSUME IInv, StreamInv, NEW a \in Actors, Farewell(a)
  PROVE  StreamInv'
<1>1. ShapeInv /\ agenda[a] \in Agendas(a) /\ Doing(a) = "farewell"
  BY DEF IInv, ShapeInv, Farewell
<1>2. PICK r \in Rests(a) : agenda[a] = <<"farewell">> \o r
  BY <1>1, ByStage DEF Doing
<1>3. Tail(agenda[a]) = r
  BY <1>2, CallShape
<1>4. UNCHANGED <<mode, delivered, queue, frames, partial, item>>
  BY DEF Farewell, shared, inbox
<1>5. ~(a = "user" /\ Gone)
  BY <1>1 DEF Gone
<1>6. CASE Sendable("close")
  <2> DEFINE t == <<"write", "hangup">> \o r
  <2>1. agenda' = [agenda EXCEPT ![a] = t]
    BY <1>3, <1>6 DEF Farewell, Continue, Instead
  <2>2. Head(t) = "write"
    BY CallShape
  <2>3. ASSUME a \in Background, t \in Announces PROVE item'[a] \in Reports
    <3>1. r = Due
      BY <2>3, Announced
    <3>2. agenda[a] \in Announces
      BY <1>2, <3>1 DEF Announces
    <3>3. QED BY <1>4, <2>3, <3>2 DEF StreamInv, ItemInv
  <2> HIDE DEF t
  <2>4. QED BY <1>1, <1>4, <1>5, <2>1, <2>2, <2>3, Moved
<1>7. CASE ~Sendable("close")
  <2>1. PICK x \in {"done", "die", "raised", "closed"} :
          agenda' = [agenda EXCEPT ![a] = <<x>>]
    BY <1>7 DEF Farewell, Instead, Dies
  <2>2. Head(<<x>>) = x
    OBVIOUS
  <2>3. <<x>> \notin Announces
    BY <2>2, AnnounceShape
  <2>4. QED BY <1>1, <1>4, <1>5, <2>1, <2>2, <2>3, Moved
<1>8. QED BY <1>6, <1>7

LEMMA HangupOrder ==
  ASSUME IInv, StreamInv, NEW a \in Actors, Hangup(a)
  PROVE  StreamInv'
<1>1. ShapeInv /\ agenda[a] \in Agendas(a) /\ Doing(a) = "hangup"
  BY DEF IInv, ShapeInv, Hangup
<1>2. PICK r \in Rests(a) : agenda[a] = <<"hangup">> \o r
  BY <1>1, ByStage DEF Doing
<1>3. Tail(agenda[a]) = r
  BY <1>2, CallShape
<1>4. UNCHANGED <<mode, delivered, queue, frames, partial, item>>
  BY DEF Hangup, shared, inbox
<1>5. ~(a = "user" /\ Gone)
  BY <1>1 DEF Gone
<1>6. r \in Seq(Stages) /\ Head(r) # "connect"
  BY RestShape
<1>7. agenda' = [agenda EXCEPT ![a] = r]
  BY <1>3, <1>6, GoBack DEF Hangup
<1>8. ASSUME a \in Background, r \in Announces \/ Head(r) = "put" PROVE item'[a] \in Reports
  <2>1. r = Due
    BY <1>8, Announced
  <2>2. agenda[a] \in Announces
    BY <1>2, <2>1 DEF Announces
  <2>3. QED BY <1>4, <1>8, <2>2 DEF StreamInv, ItemInv
<1>9. QED BY <1>1, <1>4, <1>5, <1>6, <1>7, <1>8, Moved

\* An actor that has written goes on, in close() or with what it was doing.
LEMMA WrittenOrder ==
  ASSUME IInv, StreamInv, NEW a \in Actors, Doing(a) = "write", Continue(a, << >>),
         UNCHANGED <<mode, delivered, queue, frames, partial, item>>
  PROVE  StreamInv'
<1> DEFINE u == agenda[a]
           t == Tail(u)
<1>1. u \in Agendas(a) /\ Head(u) = "write"
  BY DEF IInv, ShapeInv, Doing
<1>2. /\ t \in Agendas(a) /\ t \in Seq(Stages)
      /\ Head(t) \in {"hangup", "idle", "handle", "pong"}
  BY <1>1, AfterWrite
<1>3. agenda' = [agenda EXCEPT ![a] = t]
  BY <1>2, GoBack
<1>4. ~(a = "user" /\ Gone)
  BY DEF Gone
<1>5. ASSUME a \in Background, t \in Announces PROVE item'[a] \in Reports
  <2>1. Head(t) = "hangup" /\ Tail(t) = Due
    BY <1>2, <1>5, AnnounceShape
  <2>2. PICK r \in Rests(a) : t = <<"hangup">> \o r
    BY <1>2, <2>1, ByStage, ZenonT(60)
  <2>3. r = Due
    BY <1>5, <2>2, Announced
  <2>4. u \in Announces
    <3>1. u[2] = "hangup"
      BY <1>1, <2>1, AfterWrite
    <3>2. PICK s \in Rests(a) : u = <<"write", "hangup">> \o s
      <4>1. CASE u = <<"write", "idle">> \/ u = <<"write", "handle">> \/ u = <<"write", "pong">>
        <5>1. u[2] # "hangup"
          <6> HIDE DEF u
          <6>1. QED BY <4>1
        <5>2. QED BY <3>1, <5>1
      <4>2. QED BY <1>1, <4>1, ByStage
    <3>3. t = <<"hangup">> \o s /\ Tail(<<"hangup">> \o s) = s
      BY <3>2, CallShape
    <3>4. s = Due
      BY <2>1, <3>3
    <3>5. QED BY <3>2, <3>4 DEF Announces
  <2>5. QED BY <1>5, <2>4 DEF StreamInv, ItemInv
<1> HIDE DEF t
<1>6. QED BY <1>2, <1>3, <1>4, <1>5, Moved

\* What a background actor goes on with otherwise: something else, or a report.
LEMMA BackOrder ==
  ASSUME IInv, LimitInv, StreamInv, NEW a \in Background, NEW t,
         agenda' = [agenda EXCEPT ![a] = t],
         UNCHANGED <<mode, delivered, queue, frames, partial>>,
         \/ /\ item' = item
            /\ \/ \E x \in {"read", "handle", "sleep", "done", "die"} : t = <<x>>
               \/ t \in {<<"write", "handle">>, <<"write", "pong">>, <<"close">> \o Dies(a)}
         \/ /\ \E e \in Reports : item' = [item EXCEPT ![a] = e]
            /\ t \in {Report, <<"put", "handle">>},
         a = "receiver" => Head(t) \in {"done", "die"} \/ Doing(a) \notin {"put", "done", "die"}
  PROVE  StreamInv'
<1>1. a \in Actors /\ a # "user"
  BY DEF Actors, Background
<1>2. CASE item' = item /\ \E x \in {"read", "handle", "sleep", "done", "die"} : t = <<x>>
  <2>1. Head(t) \in {"read", "handle", "sleep", "done", "die"}
    BY <1>2
  <2>2. t \notin Announces
    BY <2>1, AnnounceShape
  <2>3. QED BY <1>1, <1>2, <2>1, <2>2, Moved
<1>3. CASE item' = item /\ t \in {<<"write", "handle">>, <<"write", "pong">>}
  <2>1. Head(t) = "write" /\ t[2] # "hangup"
    BY <1>3
  <2>2. t \notin Announces
    BY <2>1, AnnounceShape
  <2>3. QED BY <1>1, <1>3, <2>1, <2>2, Moved
<1>4. CASE item' = item /\ t = <<"close">> \o Dies(a)
  <2>1. Dies(a) \in Rests(a) /\ Head(Dies(a)) # "put"
    BY <1>1 DEF Dies, Rests
  <2>2. Dies(a) # Due
    BY <2>1 DEF Due
  <2>3. t \notin Announces
    BY <1>4, <2>1, <2>2, Announced
  <2>4. Head(t) = "close"
    BY <1>4, BackGoals
  <2>5. QED BY <1>1, <1>4, <2>3, <2>4, Moved
<1>5. CASE \E e \in Reports : item' = [item EXCEPT ![a] = e]
  <2>1. item'[a] \in Reports /\ \A b \in Background \ {a} : item'[b] = item[b]
    BY <1>5 DEF LimitInv
  <2>2. QED BY <1>1, <2>1, Moved
<1>6. QED BY <1>2, <1>3, <1>4, <1>5

LEMMA WriteOrder ==
  ASSUME IInv, LimitInv, StreamInv, NEW a \in Actors, Write(a) \/ WriteFails(a)
  PROVE  StreamInv'
<1>1. Doing(a) = "write" /\ UNCHANGED <<mode, delivered, queue, frames, partial>>
  BY DEF Write, WriteFails, shared, inbox
<1>2. CASE item' = item /\ Continue(a, << >>)
  BY <1>1, <1>2, WrittenOrder
<1>3. CASE a = "user" /\ item' = item /\ Instead(a, <<"close", "closed">>)
  <2>1. Head(<<"close", "closed">>) = "close"
    OBVIOUS
  <2>2. a \notin Background /\ a # "receiver" /\ ~Gone
    BY <1>1, <1>3 DEF Background, Gone
  <2>3. QED BY <1>1, <1>3, <2>1, <2>2, Moved DEF Instead
<1>4. CASE a = "receiver" /\ Instead(a, Report) /\ item' = [item EXCEPT ![a] = <<"error">>]
  BY <1>1, <1>4, BackOrder DEF Instead, Reports, Background
<1>5. CASE a = "pinger" /\ Instead(a, <<"close">> \o Dies(a)) /\ item' = item
  BY <1>1, <1>5, BackOrder DEF Instead, Background
<1>6. CASE Write(a)
  BY <1>2, <1>6 DEF Write
<1>7. CASE WriteFails(a)
  BY <1>2, <1>3, <1>4, <1>5, <1>7 DEF WriteFails, Actors
<1>8. QED BY <1>6, <1>7

LEMMA UserOrder ==
  ASSUME IInv, StreamInv,
         Refuse \/ Receive \/ UserCloses \/ ReceiveTimeout \/ Exit \/ Send \/ UserCancelled \/ Join
  PROVE  StreamInv'
<1>1. /\ "user" \in Actors /\ "user" \notin Background
      /\ ShapeInv /\ agenda["user"] \in Agendas("user")
  BY DEF Actors, Background, IInv, ShapeInv
<1>2. {"idle", "receive", "closed"} \subseteq Single
  BY DEF Single
<1>3. UNCHANGED <<mode, delivered, queue, frames, partial, item>>
  BY DEF Refuse, Receive, UserCloses, ReceiveTimeout, Exit, Send, UserCancelled, Join, shared, inbox
<1>4. ASSUME NEW t, agenda' = [agenda EXCEPT !["user"] = t], Head(t) # "connect",
             Gone => Head(t) = "left"
      PROVE  StreamInv'
  BY <1>1, <1>3, <1>4, Moved
<1>5. CASE Refuse
  <2>1. agenda' = [agenda EXCEPT !["user"] = <<"raised">>] /\ ~Gone
    BY <1>5 DEF Refuse, Instead, Gone
  <2>2. Head(<<"raised">>) = "raised"
    OBVIOUS
  <2>3. QED BY <1>4, <2>1, <2>2
<1>6. CASE Receive \/ ReceiveTimeout
  <2>1. /\ Doing("user") \in {"idle", "receive"} /\ ~Gone
        /\ \E x \in {"idle", "receive"} : Continue("user", <<x>>)
    BY <1>6 DEF Receive, ReceiveTimeout, UserAgenda, Gone
  <2>2. PICK x \in {"idle", "receive"} : Continue("user", <<x>>)
    BY <2>1
  <2>3. <<x>> \in Seq(Stages) /\ Head(<<x>>) = x
    BY UserGoals
  <2>4. agenda' = [agenda EXCEPT !["user"] = <<x>>]
    BY <1>1, <1>2, <2>1, <2>2, <2>3, GoOn
  <2>5. QED BY <1>4, <2>1, <2>3, <2>4
<1>7. CASE UserCloses \/ Exit
  <2>1. /\ Doing("user") \in {"idle", "closed"} /\ ~Gone
        /\ \E x \in {"closed", "join", "drain", "shutdown"} : Continue("user", <<"close", x>>)
    BY <1>7 DEF UserCloses, Exit, Exits, UserAgenda, Gone
  <2>2. PICK x \in {"closed", "join", "drain", "shutdown"} : Continue("user", <<"close", x>>)
    BY <2>1
  <2>3. <<"close", x>> \in Seq(Stages) /\ Head(<<"close", x>>) = "close"
    BY UserGoals
  <2>4. agenda' = [agenda EXCEPT !["user"] = <<"close", x>>]
    BY <1>1, <1>2, <2>1, <2>2, <2>3, GoOn
  <2>5. QED BY <1>4, <2>1, <2>3, <2>4
<1>8. CASE Send
  <2>1. Doing("user") = "idle" /\ ~Gone /\ Continue("user", <<"write", "idle">>)
    BY <1>8 DEF Send, Gone
  <2>2. <<"write", "idle">> \in Seq(Stages)
    BY UserGoals
  <2>3. Head(<<"write", "idle">>) = "write"
    OBVIOUS
  <2>4. agenda' = [agenda EXCEPT !["user"] = <<"write", "idle">>]
    BY <1>1, <1>2, <2>1, <2>2, GoOn
  <2>5. QED BY <1>4, <2>1, <2>3, <2>4
<1>9. CASE UserCancelled
  <2>1. agenda' = [agenda EXCEPT !["user"] = <<"close", "join">>]
    BY <1>9 DEF UserCancelled, Instead
  <2>2. Head(<<"close", "join">>) = "close"
    OBVIOUS
  <2>3. ~Gone
    <3>1. Doing("user") # "left" /\ ~Leaving
      BY <1>9 DEF UserCancelled
    <3>2. ASSUME NEW x \in {"drain", "shutdown"}, Doing("user") = x PROVE FALSE
      <4>1. agenda["user"] = <<x>>
        BY <1>1, <3>2, ByStage DEF Single, Doing
      <4>2. Last(<<x>>) = x
        BY DEF Last
      <4>3. QED BY <3>1, <4>1, <4>2 DEF Leaving
    <3>3. QED BY <3>1, <3>2 DEF Gone
  <2>4. QED BY <1>4, <2>1, <2>2, <2>3
<1>10. CASE Join
  <2>1. agenda' = [agenda EXCEPT !["user"] = <<"left">>]
    BY <1>10 DEF Join, Instead
  <2>2. Head(<<"left">>) = "left"
    OBVIOUS
  <2>3. QED BY <1>4, <2>1, <2>2
<1>11. QED BY <1>5, <1>6, <1>7, <1>8, <1>9, <1>10

LEMMA StopOrder ==
  ASSUME IInv, LimitInv, StreamInv, NEW a \in Background,
         ShouldClose(a) \/ Die(a) \/ BackgroundCancelled(a)
  PROVE  StreamInv'
<1>1. /\ agenda' = [agenda EXCEPT ![a] = <<"done">>]
      /\ UNCHANGED <<mode, delivered, queue, frames, partial, item>>
  BY DEF ShouldClose, Die, BackgroundCancelled, Instead, shared, inbox
<1>2. Head(<<"done">>) = "done"
  OBVIOUS
<1>3. QED BY <1>1, <1>2, BackOrder

LEMMA ReceiverOrder ==
  ASSUME IInv, LimitInv, StreamInv,
         Read \/ ReadFails \/ Handled \/ HandlePing \/ HandleClose \/ HandleTooBig
  PROVE  StreamInv'
<1>1. "receiver" \in Background /\ "receiver" \in Actors /\ ShapeInv
  BY DEF Background, Actors, IInv
<1>2. {"read", "handle"} \subseteq Single
  BY DEF Single
<1>3. Doing("receiver") \in {"read", "handle"}
  BY DEF Read, ReadFails, Handled, HandlePing, HandleClose, HandleTooBig, Waits, HandleNext
<1>4. UNCHANGED <<mode, delivered, queue, frames, partial>>
  BY DEF Read, ReadFails, Handled, HandlePing, HandleClose, HandleTooBig, shared, inbox
<1>5. CASE Read \/ Handled
  <2>1. item' = item
    BY <1>5 DEF Read, Handled
  <2>2. PICK x \in {"handle", "read", "done"} : Continue("receiver", <<x>>)
    BY <1>5 DEF Read, Handled, Again
  <2>3. <<x>> \in Seq(Stages)
    BY <1>1, BackGoals
  <2>4. agenda' = [agenda EXCEPT !["receiver"] = <<x>>]
    BY <1>1, <1>2, <1>3, <2>2, <2>3, GoOn
  <2>5. QED BY <1>1, <1>3, <1>4, <2>1, <2>4, BackOrder
<1>6. CASE HandlePing
  <2>1. item' = item
    BY <1>6 DEF HandlePing
  <2>2. CASE Sendable("pong")
    <3>1. Continue("receiver", <<"write", "handle">>)
      BY <1>6, <2>2 DEF HandlePing
    <3>2. <<"write", "handle">> \in Seq(Stages)
      BY <1>1, BackGoals
    <3>3. agenda' = [agenda EXCEPT !["receiver"] = <<"write", "handle">>]
      BY <1>1, <1>2, <1>3, <3>1, <3>2, GoOn
    <3>4. QED BY <1>1, <1>3, <1>4, <2>1, <3>3, BackOrder
  <2>3. CASE ~Sendable("pong")
    <3>1. \E x \in {"done", "die"} : agenda' = [agenda EXCEPT !["receiver"] = <<x>>]
      BY <1>6, <2>3 DEF HandlePing, Instead, Dies
    <3>2. QED BY <1>1, <1>3, <1>4, <2>1, <3>1, BackOrder
  <2>4. QED BY <2>2, <2>3
<1>7. CASE ReadFails
  <2>1. /\ agenda' = [agenda EXCEPT !["receiver"] = Report]
        /\ item' = [item EXCEPT !["receiver"] = <<"error">>]
    BY <1>7 DEF ReadFails, Instead
  <2>2. QED BY <1>1, <1>3, <1>4, <2>1, BackOrder DEF Reports
<1>8. CASE HandleClose \/ HandleTooBig
  <2>1. item' = [item EXCEPT !["receiver"] = <<"close">>]
    BY <1>8 DEF HandleClose, HandleTooBig
  <2>2. PICK t \in {<<"put", "handle">>, Report} : Continue("receiver", t)
    BY <1>8 DEF HandleClose, HandleTooBig
  <2>3. t \in Seq(Stages)
    BY <1>1, BackGoals
  <2>4. agenda' = [agenda EXCEPT !["receiver"] = t]
    BY <1>1, <1>2, <1>3, <2>2, <2>3, GoOn
  <2>5. <<"close">> \in Reports
    BY DEF Reports
  <2>6. QED BY <1>1, <1>3, <1>4, <2>1, <2>4, <2>5, BackOrder
<1>9. QED BY <1>5, <1>6, <1>7, <1>8

LEMMA PingerOrder ==
  ASSUME IInv, LimitInv, StreamInv, Ping \/ Ponged \/ PongTimeout
  PROVE  StreamInv'
<1>1. "pinger" \in Background /\ "pinger" \in Actors /\ "pinger" # "receiver" /\ ShapeInv
  BY DEF Background, Actors, IInv
<1>2. Doing("pinger") \in Single
  BY DEF Ping, Ponged, PongTimeout, Waits, Single
<1>3. UNCHANGED <<mode, delivered, queue, frames, partial>>
  BY DEF Ping, Ponged, PongTimeout, shared, inbox
<1>4. CASE Ping \/ Ponged
  <2>1. item' = item
    BY <1>4 DEF Ping, Ponged
  <2>2. CASE \E t \in {<<"write", "pong">>, <<"sleep">>, <<"done">>} : Continue("pinger", t)
    <3>1. PICK t \in {<<"write", "pong">>, <<"sleep">>, <<"done">>} : Continue("pinger", t)
      BY <2>2
    <3>2. t \in Seq(Stages)
      BY <1>1, BackGoals
    <3>3. agenda' = [agenda EXCEPT !["pinger"] = t]
      BY <1>1, <1>2, <3>1, <3>2, GoOn
    <3>4. QED BY <1>1, <1>3, <2>1, <3>1, <3>3, BackOrder
  <2>3. CASE Instead("pinger", <<"done">>)
    <3>1. agenda' = [agenda EXCEPT !["pinger"] = <<"done">>]
      BY <2>3 DEF Instead
    <3>2. QED BY <1>1, <1>3, <2>1, <3>1, BackOrder
  <2>4. QED BY <1>4, <2>2, <2>3 DEF Ping, Ponged, Again
<1>5. CASE PongTimeout
  <2>1. item' = [item EXCEPT !["pinger"] = <<"error">>] /\ Continue("pinger", Report)
    BY <1>5 DEF PongTimeout
  <2>2. Report \in Seq(Stages)
    BY <1>1, BackGoals
  <2>3. agenda' = [agenda EXCEPT !["pinger"] = Report]
    BY <1>1, <1>2, <2>1, <2>2, GoOn
  <2>4. QED BY <1>1, <1>3, <2>1, <2>3, BackOrder DEF Reports
<1>6. QED BY <1>4, <1>5

-----------------------------------------------------------------------------
(***************************************************************************)
(* The queue.                                                              *)
(***************************************************************************)
\* The user gets the event that comes next.
LEMMA Delivery ==
  ASSUME GotInv, frames \in Seq(BOOLEAN), frames' = frames,
         NEW e \in Reports \cup Messages, NEW hi \in 0 .. Len(frames),
         Carries(e, Len(Got), hi), Gets(e)
  PROVE  GotInv' /\ Len(Got)' = hi
<1>1. CASE e \in Reports
  <2>1. e[1] # "message"
    BY <1>1, Events
  <2>2. delivered' = delivered /\ hi = Len(Got)
    BY <2>1 DEF Gets, Carries
  <2>3. QED BY <2>2 DEF GotInv, Got
<1>2. CASE e \in Messages
  <2> DEFINE n == Len(Got)
             m == e[2]
  <2>1. e[1] = "message" /\ m \in Seq(Nat)
    BY <1>2, Events
  <2>2. /\ delivered' = Append(delivered, m) /\ m = Span(n, hi) /\ n < hi
        /\ \A i \in (n + 1) .. hi : frames[i] <=> i = hi
    BY <2>1 DEF Gets, Carries, OneMessage
  <2>3. delivered \in Seq(Seq(Nat)) /\ Got = Span(0, n)
    BY DEF GotInv
  <2>4. Got \in Seq(Nat) /\ Got' = Got \o m
    BY <2>1, <2>2, <2>3, FlattenAppend DEF Got
  <2>5. n \in Nat /\ Len(frames) \in Nat /\ DOMAIN frames = 1 .. Len(frames)
    BY <2>4, Elements
  <2> HIDE DEF n, m
  <2>6. hi \in Nat /\ n <= hi /\ 0 <= n /\ 0 <= hi
    BY <2>2, <2>5
  <2>7. Got' = Span(0, hi)
    BY <2>2, <2>3, <2>4, <2>5, <2>6, SpanJoin
  <2>8. Len(Got') = hi
    BY <2>6, <2>7, SpanShape
  <2>9. /\ delivered' \in Seq(Seq(Nat))
        /\ ToSet(delivered') = ToSet(delivered) \cup {m}
    BY <2>1, <2>2, <2>3, AppendList
  <2>10. ASSUME NEW i \in DOMAIN m
         PROVE  m[i] \in DOMAIN frames /\ (frames[m[i]] <=> i = Len(m))
    <3>1. Len(m) = hi - n /\ \A j \in 1 .. (hi - n) : m[j] = n + j
      BY <2>2, <2>5, <2>6, SpanShape
    <3>2. i \in 1 .. (hi - n)
      BY <2>1, <3>1, Elements
    <3>3. m[i] = n + i /\ n + i \in (n + 1) .. hi /\ n + i \in DOMAIN frames
      BY <2>5, <2>6, <3>1, <3>2
    <3>4. frames[n + i] <=> n + i = hi
      BY <2>2, <3>3
    <3>5. n + i = hi <=> i = hi - n
      BY <2>5, <2>6, <3>2
    <3>6. QED BY <3>1, <3>3, <3>4, <3>5
  <2>11. \A x \in ToSet(delivered') : \A i \in DOMAIN x :
           x[i] \in DOMAIN frames /\ (frames[x[i]] <=> i = Len(x))
    BY <2>9, <2>10 DEF GotInv
  <2>12. Len(Got') <= Len(frames')
    BY <2>5, <2>8
  <2>13. QED BY <2>7, <2>8, <2>9, <2>11, <2>12 DEF GotInv
<1>3. QED BY <1>1, <1>2

\* The receiver is where it was.
LEMMA FollowsStill ==
  ASSUME UNCHANGED <<frames, partial>>, Doing("receiver")' = Doing("receiver"),
         item'["receiver"] = item["receiver"], NEW lo, Follows(lo)
  PROVE  Follows(lo)'
<1>1. PICK end \in 0 .. Len(frames) : Resumes(lo, end)
  BY DEF Follows
<1>2. Carries(item["receiver"], lo, end) => Carries(item["receiver"], lo, end)'
  BY DEF Carries, OneMessage
<1>3. Resumes(lo, end)'
  <2>1. CASE Doing("receiver") = "put"
    BY <1>1, <1>2, <2>1 DEF Resumes
  <2>2. CASE Doing("receiver") # "put"
    BY <1>1, <2>2 DEF Resumes
  <2>3. QED BY <2>1, <2>2
<1>4. QED BY <1>1, <1>3 DEF Follows

\* A background actor gives away its event: that is the next one after lo, and the
\* receiver goes on behind it.
LEMMA Handed ==
  ASSUME StreamInv, NEW a \in Background, Doing(a) = "put", Doing(a)' # "put",
         UNCHANGED <<frames, partial>>,
         \A b \in Background \ {a} : Doing(b)' = Doing(b) /\ item'[b] = item[b],
         NEW lo \in 0 .. Len(frames), ~Over => Follows(lo)
  PROVE  \E hi \in 0 .. Len(frames) : Carries(item[a], lo, hi) /\ (~Over' => Follows(hi)')
<1>1. CASE a = "receiver"
  <2>1. Follows(lo)
    BY <1>1 DEF Over
  <2>2. PICK end \in 0 .. Len(frames) : Resumes(lo, end)
    BY <2>1 DEF Follows
  <2>3. Carries(item[a], lo, end)
    BY <1>1, <2>2 DEF Resumes
  <2>4. Resumes(end, end)'
    BY <1>1, <2>2 DEF Resumes
  <2>5. Follows(end)'
    BY <2>2, <2>4 DEF Follows
  <2>6. QED BY <2>3, <2>5
<1>2. CASE a = "pinger"
  <2>1. item[a] \in Reports
    BY <1>2 DEF StreamInv, ItemInv
  <2>2. Carries(item[a], lo, lo)
    BY <2>1, Events DEF Carries
  <2>3. Doing("receiver")' = Doing("receiver") /\ item'["receiver"] = item["receiver"]
    BY <1>2 DEF Background
  <2>4. ~Over' => Follows(lo)'
    BY <2>3, FollowsStill DEF Over
  <2>5. QED BY <2>2, <2>4
<1>3. QED BY <1>1, <1>2 DEF Background

LEMMA ChainAppend ==
  ASSUME NEW b, Chain(b), queue \in Seq(Reports \cup Messages), NEW hi \in 0 .. Len(frames),
         NEW e \in Reports \cup Messages, Carries(e, b[Len(queue)], hi),
         queue' = Append(queue, e), UNCHANGED <<frames, delivered>>
  PROVE  \E c \in [0 .. Len(queue') -> 0 .. Len(frames')] : Chain(c)' /\ c[Len(queue')] = hi
<1>1. PICK n : n = Len(queue)
  OBVIOUS
<1>2. PICK c : c = [k \in 0 .. (n + 1) |-> IF k <= n THEN b[k] ELSE hi]
  OBVIOUS
<1>3. /\ n \in Nat /\ Len(queue') = n + 1
      /\ \A k \in 1 .. n : queue'[k] = queue[k]
      /\ queue'[n + 1] = e
  <2>1. n \in Nat
    BY <1>1, LenProperties
  <2>2. QED BY <1>1, <2>1, AppendProperties
<1>4. /\ b \in [0 .. n -> 0 .. Len(frames)] /\ b[0] = Len(Got)
      /\ \A k \in 1 .. n : Carries(queue[k], b[k - 1], b[k])
      /\ Carries(e, b[n], hi)
  BY <1>1 DEF Chain
<1>5. /\ c \in [0 .. (n + 1) -> 0 .. Len(frames)]
      /\ \A k \in 0 .. n : c[k] = b[k]
      /\ c[n + 1] = hi
  BY <1>2, <1>3, <1>4
<1>6. ASSUME NEW k \in 1 .. (n + 1) PROVE Carries(queue[k], c[k - 1], c[k])'
  <2>1. Carries(queue'[k], c[k - 1], c[k])
    <3>1. CASE k \in 1 .. n
      <4>1. k - 1 \in 0 .. n /\ k \in 0 .. n
        BY <1>3, <3>1
      <4>2. QED BY <1>3, <1>4, <1>5, <3>1, <4>1
    <3>2. CASE k \notin 1 .. n
      <4>1. k = n + 1 /\ k - 1 = n /\ n \in 0 .. n
        BY <1>3, <3>2
      <4>2. queue'[k] = e /\ c[k] = hi /\ c[k - 1] = b[n]
        BY <1>3, <1>5, <4>1
      <4>3. QED BY <1>4, <4>2
    <3>3. QED BY <3>1, <3>2
  <2>2. QED BY <2>1 DEF Carries, OneMessage
<1>7. c[0] = Len(Got')
  BY <1>3, <1>4, <1>5 DEF Got
<1>8. Chain(c)'
  BY <1>3, <1>5, <1>6, <1>7 DEF Chain
<1>9. QED BY <1>3, <1>5, <1>8

LEMMA ChainTail ==
  ASSUME NEW b, Chain(b), queue \in Seq(Reports \cup Messages), queue # << >>,
         queue' = Tail(queue), frames' = frames, Len(Got)' = b[1]
  PROVE  \E c \in [0 .. Len(queue') -> 0 .. Len(frames')] :
           Chain(c)' /\ c[Len(queue')] = b[Len(queue)]
<1>1. PICK n : n = Len(queue)
  OBVIOUS
<1>2. PICK c : c = [k \in 0 .. (n - 1) |-> b[k + 1]]
  OBVIOUS
<1>3. /\ n \in Nat \ {0} /\ Len(queue') = n - 1
      /\ \A k \in 1 .. (n - 1) : queue'[k] = queue[k + 1]
  <2>1. n \in Nat \ {0}
    BY <1>1, EmptySeq
  <2>2. QED BY <1>1, <2>1, HeadTailProperties
<1>4. /\ b \in [0 .. n -> 0 .. Len(frames)]
      /\ \A k \in 1 .. n : Carries(queue[k], b[k - 1], b[k])
  BY <1>1 DEF Chain
<1>5. /\ c \in [0 .. (n - 1) -> 0 .. Len(frames)]
      /\ \A k \in 0 .. (n - 1) : c[k] = b[k + 1]
  BY <1>2, <1>3, <1>4
<1>6. ASSUME NEW k \in 1 .. (n - 1) PROVE Carries(queue[k], c[k - 1], c[k])'
  <2>1. k + 1 \in 1 .. n /\ k - 1 \in 0 .. (n - 1) /\ k \in 0 .. (n - 1)
        /\ (k + 1) - 1 = k /\ (k - 1) + 1 = k
    BY <1>3
  <2>2. Carries(queue'[k], c[k - 1], c[k])
    BY <1>3, <1>4, <1>5, <2>1
  <2>3. QED BY <2>2 DEF Carries, OneMessage
<1>7. c[0] = Len(Got)' /\ c[n - 1] = b[n]
  <2>1. 0 \in 0 .. (n - 1) /\ n - 1 \in 0 .. (n - 1) /\ 0 + 1 = 1 /\ (n - 1) + 1 = n
    BY <1>3
  <2>2. QED BY <1>5, <2>1
<1>8. Chain(c)'
  BY <1>3, <1>5, <1>6, <1>7 DEF Chain
<1>9. QED BY <1>1, <1>3, <1>5, <1>7, <1>8

\* Nobody is there before the session.
LEMMA NotConnecting ==
  ASSUME IInv, NEW a \in Background, Doing(a) # "done"
  PROVE  Doing("user") # "connect"
BY DEF IInv, UserInv, Alone

\* The invariant of a background actor that has put its event.
LEMMA PutItems ==
  ASSUME IInv, StreamInv, NEW a \in Background, Doing(a) = "put", NEW x \in {"done", "handle"},
         agenda'[a] = <<x>>,
         \A b \in Background \ {a} : agenda'[b] = agenda[b] /\ item'[b] = item[b],
         Doing("user")' # "connect", mode' = mode,
         queue' \in Seq(Reports \cup Messages), ~Threads => queue' = << >>
  PROVE  ItemInv' /\ Doing(a)' # "put"
<1>1. Doing(a)' = x
  BY DEF Doing
<1>2. <<x>> \notin Announces
  <2>1. Head(<<x>>) = x
    OBVIOUS
  <2>2. QED BY <2>1, AnnounceShape
<1>3. \A b \in Background \ {a} : Doing(b)' = Doing(b)
  BY DEF Doing
<1>4. ASSUME NEW b \in Background
      PROVE  /\ agenda'[b] \in Announces => item'[b] \in Reports
             /\ Doing(b)' = "put" => item'[b] \in Reports \cup Messages
  <2>1. CASE b = a
    BY <1>1, <1>2, <2>1
  <2>2. CASE b # a
    BY <1>3, <2>2 DEF StreamInv, ItemInv
  <2>3. QED BY <2>1, <2>2
<1>5. Doing("pinger")' = "put" => item'["pinger"] \in Reports
  <2>1. CASE a = "pinger"
    BY <1>1, <2>1
  <2>2. CASE a # "pinger"
    BY <1>3, <2>2 DEF StreamInv, ItemInv, Background
  <2>3. QED BY <2>1, <2>2
<1>6. QED BY <1>1, <1>4, <1>5 DEF ItemInv, Threads

LEMMA PutOrder ==
  ASSUME IInv, LimitInv, StreamInv, NEW a \in Background, PutInQueue(a)
  PROVE  StreamInv'
<1>1. /\ Doing(a) = "put" /\ Threads /\ item' = [item EXCEPT ![a] = << >>]
      /\ UNCHANGED <<mode, delivered, frames, partial>>
  BY DEF PutInQueue, shared, inbox
<1>2. a \in Actors /\ a # "user" /\ ShapeInv
  BY BackGoals DEF IInv
<1>3. /\ \A b \in Background \ {a} : item'[b] = item[b]
      /\ item[a] \in Reports \cup Messages
  BY <1>1 DEF LimitInv, StreamInv, ItemInv
<1>4. CASE Instead(a, <<"done">>) /\ queue' = queue
  <2>1. Head(<<"done">>) = "done"
    OBVIOUS
  <2>2. <<"done">> \notin Announces
    BY <2>1, AnnounceShape
  <2>3. QED BY <1>1, <1>2, <1>3, <1>4, <2>1, <2>2, Moved DEF Instead
<1>5. CASE Continue(a, << >>) /\ queue' = Append(queue, item[a])
  <2>1. PICK x \in {"done", "handle"} : Tail(agenda[a]) = <<x>>
    BY <1>1, <1>2, AfterPut
  <2>2. <<x>> \in Seq(Stages)
    BY BackGoals
  <2>3. agenda' = [agenda EXCEPT ![a] = <<x>>]
    BY <1>2, <1>5, <2>1, <2>2, GoBack
  <2>4. agenda'[a] = <<x>> /\ \A b \in Actors \ {a} : agenda'[b] = agenda[b]
    <3>1. agenda = [b \in Actors |-> agenda[b]]
      BY <1>2 DEF ShapeInv
    <3>2. QED BY <1>2, <2>3, <3>1
  <2>5. "user" \in Actors \ {a} /\ Background \subseteq Actors
    BY <1>2 DEF Actors, Background
  <2>6. Doing("user")' = Doing("user") /\ Doing("user") # "connect"
    BY <1>1, <2>4, <2>5, NotConnecting DEF Doing
  <2>7. queue \in Seq(Reports \cup Messages) /\ queue' \in Seq(Reports \cup Messages)
    BY <1>3, <1>5, AppendProperties DEF StreamInv, ItemInv
  <2>8. ItemInv' /\ Doing(a)' # "put"
    BY <1>1, <1>3, <2>4, <2>5, <2>6, <2>7, PutItems
  <2>9. GotInv'
    BY <1>1 DEF StreamInv, GotInv, Got
  <2>10. OrderInv'
    <3> SUFFICES ASSUME ~Gone' PROVE (\E b \in [0 .. Len(queue) -> 0 .. Len(frames)] :
                                       Chain(b) /\ (~Over => Follows(b[Len(queue)])))'
      BY DEF OrderInv
    <3>1. PICK b \in [0 .. Len(queue) -> 0 .. Len(frames)] :
            Chain(b) /\ (~Over => Follows(b[Len(queue)]))
      BY <2>6 DEF StreamInv, OrderInv, Gone
    <3>2. PICK lo \in 0 .. Len(frames) : lo = b[Len(queue)]
      <4>1. Len(queue) \in 0 .. Len(queue)
        BY <2>7, LenProperties
      <4>2. QED BY <3>1, <4>1
    <3>3. \A k \in Background \ {a} : Doing(k)' = Doing(k) /\ item'[k] = item[k]
      BY <1>3, <2>4, <2>5 DEF Doing
    <3>4. \E hi \in 0 .. Len(frames) : Carries(item[a], lo, hi) /\ (~Over' => Follows(hi)')
      BY <1>1, <2>8, <3>1, <3>2, <3>3, Handed
    <3>5. PICK hi \in 0 .. Len(frames) : Carries(item[a], lo, hi) /\ (~Over' => Follows(hi)')
      BY <3>4
    <3>6. PICK e \in Reports \cup Messages : e = item[a]
      BY <1>3
    <3>7. Chain(b) /\ Carries(e, b[Len(queue)], hi) /\ queue' = Append(queue, e)
      BY <1>5, <3>1, <3>2, <3>5, <3>6
    <3>8. PICK c \in [0 .. Len(queue') -> 0 .. Len(frames')] : Chain(c)' /\ c[Len(queue')] = hi
      BY <1>1, <2>7, <3>7, ChainAppend
    <3>9. QED BY <3>5, <3>8
  <2>11. QED BY <2>8, <2>9, <2>10 DEF StreamInv
<1>6. QED BY <1>4, <1>5 DEF PutInQueue

LEMMA TakeOrder ==
  ASSUME IInv, RangeInv, StreamInv, Take
  PROVE  StreamInv'
<1>1. /\ Threads /\ Doing("user") = "receive" /\ queue # << >>
      /\ Gets(Head(queue)) /\ queue' = Tail(queue)
      /\ UNCHANGED <<mode, frames, partial, item>>
  BY DEF Take, shared, inbox
<1>2. "user" \in Actors /\ Background \subseteq Actors \ {"user"}
      /\ agenda = [b \in Actors |-> agenda[b]]
  BY DEF Actors, Background, IInv, ShapeInv
<1>3. PICK y \in {"idle", "closed"} : agenda' = [agenda EXCEPT !["user"] = <<y>>]
  BY DEF Take, Instead, After
<1>4. agenda'["user"] = <<y>> /\ \A b \in Background : agenda'[b] = agenda[b]
  BY <1>2, <1>3
<1>5. Doing("user")' # "connect" /\ \A b \in Background : Doing(b)' = Doing(b)
  BY <1>4 DEF Doing
<1>6. queue \in Seq(Reports \cup Messages) /\ frames \in Seq(BOOLEAN)
  BY DEF StreamInv, ItemInv, RangeInv
<1>7. ItemInv'
  <2>1. queue' \in Seq(Reports \cup Messages)
    BY <1>1, <1>6, HeadTailProperties
  <2>2. "pinger" \in Background
    BY DEF Background
  <2>3. QED BY <1>1, <1>4, <1>5, <2>1, <2>2 DEF StreamInv, ItemInv, Threads
<1>8. PICK b \in [0 .. Len(queue) -> 0 .. Len(frames)] :
        Chain(b) /\ (~Over => Follows(b[Len(queue)]))
  BY <1>1 DEF StreamInv, OrderInv, Gone
<1>9. Len(queue) \in Nat \ {0} /\ Head(queue) = queue[1]
  BY <1>1, <1>6, EmptySeq, HeadTailProperties
<1>10. PICK e \in Reports \cup Messages : e = Head(queue)
  BY <1>1, <1>6, HeadTailProperties
<1>11. PICK hi \in 0 .. Len(frames) : hi = b[1]
  BY <1>8, <1>9
<1>12. Carries(e, Len(Got), hi)
  <2>1. 1 \in 1 .. Len(queue) /\ 1 - 1 = 0
    BY <1>9
  <2>2. QED BY <1>8, <1>9, <1>10, <1>11, <2>1 DEF Chain
<1>13. GotInv' /\ Len(Got)' = hi
  <2>1. GotInv /\ Gets(e)
    BY <1>1, <1>10 DEF StreamInv
  <2>2. QED BY <1>1, <1>6, <1>12, <2>1, Delivery
<1>14. OrderInv'
  <2>1. PICK c \in [0 .. Len(queue') -> 0 .. Len(frames')] :
          Chain(c)' /\ c[Len(queue')] = b[Len(queue)]
    BY <1>1, <1>6, <1>8, <1>11, <1>13, ChainTail
  <2>2. PICK lo : lo = b[Len(queue)]
    OBVIOUS
  <2>3. ASSUME ~Over' PROVE Follows(lo)'
    <3>1. "receiver" \in Background
      BY DEF Background
    <3>2. Follows(lo)
      BY <1>5, <1>8, <2>2, <2>3, <3>1 DEF Over
    <3>3. QED BY <1>1, <1>5, <3>1, <3>2, FollowsStill
  <2>4. QED BY <2>1, <2>2, <2>3 DEF OrderInv
<1>15. QED BY <1>7, <1>13, <1>14 DEF StreamInv

LEMMA HandOverOrder ==
  ASSUME IInv, RangeInv, LimitInv, StreamInv, NEW a \in Background, HandOver(a)
  PROVE  StreamInv'
<1>1. /\ ~Threads /\ Doing(a) = "put" /\ Doing("user") = "receive"
      /\ Gets(item[a]) /\ item' = [item EXCEPT ![a] = << >>]
      /\ UNCHANGED <<mode, queue, frames, partial>>
  BY DEF HandOver, shared, inbox
<1>2. /\ a \in Actors /\ a # "user" /\ "user" \in Actors /\ Background \subseteq Actors \ {"user"}
      /\ ShapeInv /\ agenda = [b \in Actors |-> agenda[b]]
  BY BackGoals DEF IInv, ShapeInv, Actors, Background
<1>3. PICK x \in {"done", "handle"} : Tail(agenda[a]) = <<x>>
  BY <1>1, <1>2, AfterPut
<1>4. PICK y \in {"idle", "closed"} : After(item[a]) = <<y>>
  BY DEF After
<1>5. /\ agenda'[a] = <<x>> /\ agenda'["user"] = <<y>>
      /\ \A b \in Background \ {a} : agenda'[b] = agenda[b]
  <2>1. agenda' = [agenda EXCEPT ![a] = <<x>>, !["user"] = <<y>>]
    BY <1>3, <1>4 DEF HandOver
  <2>2. QED BY <1>2, <2>1
<1>6. /\ \A b \in Background \ {a} : item'[b] = item[b] /\ Doing(b)' = Doing(b)
      /\ item[a] \in Reports \cup Messages /\ Doing("user")' = y
  BY <1>1, <1>5 DEF LimitInv, StreamInv, ItemInv, Doing
<1>7. queue = << >> /\ queue \in Seq(Reports \cup Messages) /\ frames \in Seq(BOOLEAN)
  BY <1>1 DEF StreamInv, ItemInv, RangeInv
<1>8. ItemInv' /\ Doing(a)' # "put"
  BY <1>1, <1>5, <1>6, <1>7, PutItems
<1>9. Len(queue) = 0 /\ Len(queue') = 0
  BY <1>1, <1>7, EmptySeq
<1>10. PICK b \in [0 .. Len(queue) -> 0 .. Len(frames)] :
         Chain(b) /\ (~Over => Follows(b[Len(queue)]))
  BY <1>1 DEF StreamInv, OrderInv, Gone
<1>11. PICK lo \in 0 .. Len(frames) : lo = b[0]
  <2>1. 0 \in 0 .. Len(queue)
    BY <1>9
  <2>2. QED BY <1>10, <2>1
<1>12. lo = Len(Got) /\ (~Over => Follows(lo))
  BY <1>9, <1>10, <1>11 DEF Chain
<1>13. \E hi \in 0 .. Len(frames) : Carries(item[a], lo, hi) /\ (~Over' => Follows(hi)')
  BY <1>1, <1>6, <1>8, <1>12, Handed
<1>14. PICK hi \in 0 .. Len(frames) : Carries(item[a], lo, hi) /\ (~Over' => Follows(hi)')
  BY <1>13
<1>15. PICK e \in Reports \cup Messages : e = item[a]
  BY <1>6
<1>16. GotInv' /\ Len(Got)' = hi
  <2>1. GotInv /\ Gets(e) /\ Carries(e, Len(Got), hi)
    BY <1>1, <1>12, <1>14, <1>15 DEF StreamInv
  <2>2. QED BY <1>1, <1>7, <2>1, Delivery
<1>17. OrderInv'
  <2>1. PICK c : c = [k \in 0 .. 0 |-> hi]
    OBVIOUS
  <2>2. c \in [0 .. Len(queue') -> 0 .. Len(frames')] /\ c[0] = hi
    BY <1>1, <1>9, <2>1
  <2>3. Chain(c)'
    BY <1>9, <1>16, <2>2 DEF Chain
  <2>4. c[Len(queue')] = hi
    BY <1>9, <2>2
  <2>5. QED BY <1>14, <2>2, <2>3, <2>4 DEF OrderInv
<1>18. QED BY <1>8, <1>16, <1>17 DEF StreamInv

LEMMA MessageOrder ==
  ASSUME IInv, RangeInv, LimitInv, StreamInv, HandleMessage
  PROVE  StreamInv'
<1>1. PICK n : n = Len(frames)
  OBVIOUS
<1>2. PICK last \in BOOLEAN : last = (Head(batch) = "last")
  OBVIOUS
<1>3. /\ "receiver" \in Background /\ "receiver" \in Actors /\ ShapeInv
      /\ Doing("receiver") = "handle" /\ "handle" \in Single
      /\ "pinger" \in Background /\ "user" \in Actors /\ Background \subseteq Actors
  BY DEF Background, Actors, HandleMessage, HandleNext, IInv, Single
<1>4. /\ UNCHANGED <<mode, queue, delivered>>
      /\ frames' = Append(frames, last)
      /\ \/ ~last /\ partial' = Append(partial, n + 1) /\ UNCHANGED <<agenda, item>>
         \/ /\ last /\ partial' = << >>
            /\ item' = [item EXCEPT !["receiver"] = <<"message", Append(partial, n + 1)>>]
            /\ Continue("receiver", <<"put", "handle">>)
  BY <1>1, <1>2 DEF HandleMessage, HandleNext, Buffered, ClearBuffer, shared, control
<1>5. /\ n \in Nat /\ frames \in Seq(BOOLEAN) /\ frames' \in Seq(BOOLEAN) /\ Len(frames') = n + 1
      /\ \A i \in 1 .. n : frames'[i] = frames[i]
      /\ frames'[n + 1] = last
      /\ DOMAIN frames = 1 .. n /\ DOMAIN frames' = 1 .. (n + 1)
  <2>1. frames \in Seq(BOOLEAN) /\ frames' \in Seq(BOOLEAN)
    BY <1>4, AppendProperties DEF RangeInv
  <2>2. n \in Nat
    BY <1>1, <2>1, LenProperties
  <2>3. /\ Len(frames') = n + 1 /\ frames'[n + 1] = last
        /\ \A i \in 1 .. n : frames'[i] = frames[i]
    BY <1>1, <1>4, <2>1, AppendProperties
  <2>4. QED BY <1>1, <2>1, <2>2, <2>3, Elements
<1>6. last => /\ agenda' = [agenda EXCEPT !["receiver"] = <<"put", "handle">>]
              /\ agenda'["receiver"] = <<"put", "handle">>
              /\ \A b \in Actors \ {"receiver"} : agenda'[b] = agenda[b]
  <2> SUFFICES ASSUME last
               PROVE  /\ agenda' = [agenda EXCEPT !["receiver"] = <<"put", "handle">>]
                      /\ agenda'["receiver"] = <<"put", "handle">>
                      /\ \A b \in Actors \ {"receiver"} : agenda'[b] = agenda[b]
    OBVIOUS
  <2>1. <<"put", "handle">> \in Seq(Stages)
    BY <1>3, BackGoals
  <2>2. agenda' = [agenda EXCEPT !["receiver"] = <<"put", "handle">>]
    BY <1>3, <1>4, <2>1, GoOn
  <2>3. agenda = [b \in Actors |-> agenda[b]]
    BY <1>3 DEF ShapeInv
  <2>4. QED BY <1>3, <2>2, <2>3
<1>7. /\ \A b \in Actors \ {"receiver"} : Doing(b)' = Doing(b)
      /\ Doing("receiver")' = IF last THEN "put" ELSE "handle"
  <2>1. Head(<<"put", "handle">>) = "put"
    OBVIOUS
  <2>2. QED BY <1>3, <1>4, <1>6, <2>1 DEF Doing
<1>8. Doing("user") # "connect" /\ Doing("user")' = Doing("user")
  BY <1>3, <1>7, NotConnecting
<1>9. GotInv'
  <2>1. Got' = Got /\ Len(Got') <= Len(frames')
    <3>1. Got' = Got /\ Len(Got) <= n
      BY <1>1, <1>4 DEF StreamInv, GotInv, Got
    <3>2. Len(Got) \in Nat
      BY FlattenTyped, LenProperties DEF StreamInv, GotInv, Got
    <3>3. QED BY <1>5, <3>1, <3>2
  <2>2. \A m \in ToSet(delivered) : \A i \in DOMAIN m :
          m[i] \in DOMAIN frames' /\ (frames'[m[i]] <=> i = Len(m))
    <3>1. ASSUME NEW m \in ToSet(delivered), NEW i \in DOMAIN m
          PROVE  m[i] \in DOMAIN frames' /\ (frames'[m[i]] <=> i = Len(m))
      <4>1. m[i] \in 1 .. n /\ (frames[m[i]] <=> i = Len(m))
        BY <1>5 DEF StreamInv, GotInv
      <4>2. frames'[m[i]] = frames[m[i]] /\ m[i] \in 1 .. (n + 1)
        BY <1>5, <4>1
      <4>3. QED BY <1>5, <4>1, <4>2
    <3>2. QED BY <3>1
  <2>3. QED BY <1>4, <2>1, <2>2 DEF StreamInv, GotInv
<1>10. ItemInv'
  <2>1. ASSUME last
        PROVE  item'["receiver"] \in Messages /\ item'["pinger"] = item["pinger"]
    <3>1. Append(partial, n + 1) \in Seq(Nat)
      BY <1>5, AppendProperties DEF LimitInv
    <3>2. PICK m \in Seq(Nat) : m = Append(partial, n + 1)
      BY <3>1
    <3>3. item' = [item EXCEPT !["receiver"] = <<"message", m>>]
      BY <1>4, <2>1, <3>2
    <3>4. item'["receiver"] = <<"message", m>> /\ item'["pinger"] = item["pinger"]
      BY <1>3, <3>3 DEF LimitInv
    <3>5. <<"message", m>> \in Messages
      BY DEF Messages
    <3>6. QED BY <3>4, <3>5
  <2>2. ASSUME last PROVE agenda'["receiver"] \notin Announces
    <3>1. Head(<<"put", "handle">>) = "put"
      OBVIOUS
    <3>2. QED BY <1>6, <2>2, <3>1, AnnounceShape
  <2>3. ASSUME NEW b \in Background
        PROVE  /\ agenda'[b] \in Announces => item'[b] \in Reports
               /\ Doing(b)' = "put" => item'[b] \in Reports \cup Messages
    <3>1. CASE ~last
      BY <1>4, <3>1 DEF StreamInv, ItemInv, Doing
    <3>2. CASE last /\ b = "receiver"
      BY <2>1, <2>2, <3>2
    <3>3. CASE last /\ b # "receiver"
      <4>1. b = "pinger" /\ agenda'[b] = agenda[b] /\ Doing(b)' = Doing(b) /\ item'[b] = item[b]
        BY <1>3, <1>6, <1>7, <2>1, <3>3 DEF Background
      <4>2. QED BY <4>1 DEF StreamInv, ItemInv
    <3>4. QED BY <3>1, <3>2, <3>3
  <2>4. Doing("pinger")' = "put" => item'["pinger"] \in Reports
    BY <1>3, <1>4, <1>7, <2>1 DEF StreamInv, ItemInv
  <2>5. QED BY <1>4, <1>8, <2>3, <2>4 DEF StreamInv, ItemInv, Threads
<1>11. OrderInv'
  <2> SUFFICES ASSUME ~Gone' PROVE (\E b \in [0 .. Len(queue) -> 0 .. Len(frames)] :
                                     Chain(b) /\ (~Over => Follows(b[Len(queue)])))'
    BY DEF OrderInv
  <2>1. PICK b \in [0 .. Len(queue) -> 0 .. Len(frames)] :
          Chain(b) /\ (~Over => Follows(b[Len(queue)]))
    BY <1>8 DEF StreamInv, OrderInv, Gone
  <2>2. queue \in Seq(Reports \cup Messages) /\ Len(queue) \in Nat
    BY LenProperties DEF StreamInv, ItemInv
  <2>3. PICK lo \in 0 .. n : lo = b[Len(queue)]
    <3>1. Len(queue) \in 0 .. Len(queue)
      BY <2>2
    <3>2. QED BY <1>1, <2>1, <3>1
  <2>4. Chain(b)'
    <3>1. b \in [0 .. Len(queue') -> 0 .. Len(frames')] /\ b[0] = Len(Got')
      BY <1>1, <1>4, <1>5, <2>1 DEF Chain, Got
    <3>2. ASSUME NEW k \in 1 .. Len(queue) PROVE Carries(queue[k], b[k - 1], b[k])'
      <4>1. Carries(queue[k], b[k - 1], b[k]) /\ queue' = queue
        BY <1>4, <2>1 DEF Chain
      <4>2. b[k - 1] \in 0 .. n /\ b[k] \in 0 .. n
        <5>1. k - 1 \in 0 .. Len(queue) /\ k \in 0 .. Len(queue)
          BY <2>2
        <5>2. QED BY <1>1, <2>1, <5>1
      <4>3. CASE queue[k][1] # "message"
        BY <4>1, <4>3 DEF Carries
      <4>4. CASE queue[k][1] = "message"
        <5>1. /\ queue[k][2] = Span(b[k - 1], b[k]) /\ b[k - 1] < b[k]
              /\ \A i \in (b[k - 1] + 1) .. b[k] : frames[i] <=> i = b[k]
          BY <4>1, <4>4 DEF Carries, OneMessage
        <5>2. \A i \in (b[k - 1] + 1) .. b[k] : i \in 1 .. n
          BY <1>5, <4>2
        <5>3. \A i \in (b[k - 1] + 1) .. b[k] : frames'[i] <=> i = b[k]
          BY <1>5, <5>1, <5>2
        <5>4. QED BY <4>1, <4>4, <5>1, <5>3 DEF Carries, OneMessage
      <4>5. QED BY <4>3, <4>4
    <3>3. QED BY <1>4, <3>1, <3>2 DEF Chain
  <2>5. Follows(lo)'
    <3>1. Follows(lo)
      BY <1>3, <2>1, <2>3 DEF Over
    <3>2. partial = Span(lo, n) /\ \A i \in (lo + 1) .. n : ~frames[i]
      BY <1>1, <1>3, <3>1 DEF Follows, Resumes
    <3>3. lo \in Nat /\ lo <= n
      BY <1>5, <2>3
    <3>4. Append(partial, n + 1) = Span(lo, n + 1)
      BY <1>5, <3>2, <3>3, SpanStep
    <3>5. \A i \in (lo + 1) .. n : ~frames'[i]
      <4>1. \A i \in (lo + 1) .. n : i \in 1 .. n
        BY <1>5, <3>3
      <4>2. QED BY <1>5, <3>2, <4>1
    <3>6. CASE ~last
      <4>1. \A i \in (lo + 1) .. (n + 1) : ~frames'[i]
        <5>1. \A i \in (lo + 1) .. (n + 1) : i \in (lo + 1) .. n \/ i = n + 1
          BY <1>5, <3>3
        <5>2. QED BY <1>5, <3>5, <3>6, <5>1
      <4>2. Resumes(lo, lo)'
        BY <1>4, <1>5, <1>7, <3>4, <3>6, <4>1 DEF Resumes
      <4>3. lo \in 0 .. Len(frames')
        BY <1>5, <3>3
      <4>4. QED BY <4>2, <4>3 DEF Follows
    <3>7. CASE last
      <4>1. lo < n + 1 /\ \A i \in (lo + 1) .. (n + 1) : frames'[i] <=> i = n + 1
        <5>1. \A i \in (lo + 1) .. (n + 1) : (i \in (lo + 1) .. n /\ i # n + 1) \/ i = n + 1
          BY <1>5, <3>3
        <5>2. frames'[n + 1]
          BY <1>5, <3>7
        <5>3. ASSUME NEW i \in (lo + 1) .. (n + 1) PROVE frames'[i] <=> i = n + 1
          <6>1. CASE i \in (lo + 1) .. n /\ i # n + 1
            BY <3>5, <6>1
          <6>2. CASE i = n + 1
            BY <5>2, <6>2
          <6>3. QED BY <5>1, <6>1, <6>2
        <5>4. lo < n + 1
          BY <1>5, <3>3
        <5>5. QED BY <5>3, <5>4
      <4>2. item'["receiver"] = <<"message", Span(lo, n + 1)>>
        BY <1>3, <1>4, <3>4, <3>7 DEF LimitInv
      <4>3. Carries(item["receiver"], lo, n + 1)'
        BY <4>1, <4>2 DEF Carries, OneMessage
      <4>4. partial' = Span(n + 1, Len(frames'))
        <5>1. n + 1 \in Nat
          BY <1>5
        <5>2. QED BY <1>4, <1>5, <3>7, <5>1, SpanEmpty
      <4>5. \A i \in ((n + 1) + 1) .. Len(frames') : ~frames'[i]
        BY <1>5
      <4>6. Resumes(lo, n + 1)'
        BY <1>7, <3>7, <4>3, <4>4, <4>5 DEF Resumes
      <4>7. n + 1 \in 0 .. Len(frames')
        BY <1>5
      <4>8. QED BY <4>6, <4>7 DEF Follows
    <3>8. QED BY <3>6, <3>7
  <2>6. b \in [0 .. Len(queue') -> 0 .. Len(frames')] /\ lo = b[Len(queue')]
    BY <1>4, <2>3, <2>4 DEF Chain
  <2>7. QED BY <2>4, <2>5, <2>6
<1>12. QED BY <1>9, <1>10, <1>11 DEF StreamInv

\* The queue is emptied when the user has left the loop over it.
LEMMA EmptyOrder ==
  ASSUME StreamInv, ShutQueue \/ Drain
  PROVE  StreamInv'
<1>1. /\ Doing("user") \in {"drain", "shutdown"}
      /\ UNCHANGED <<mode, delivered, frames, partial, agenda, item>>
  BY DEF ShutQueue, Drain, inbox, control, shared
<1>2. queue \in Seq(Reports \cup Messages)
  BY DEF StreamInv, ItemInv
<1>3. queue' \in Seq(Reports \cup Messages) /\ (~Threads => queue' = << >>)
  <2>1. CASE ShutQueue
    BY <2>1, EmptyList DEF ShutQueue
  <2>2. CASE Drain
    BY <1>2, <2>2, HeadTailProperties DEF Drain, StreamInv, ItemInv
  <2>3. QED BY <2>1, <2>2
<1>4. GotInv'
  BY <1>1 DEF StreamInv, GotInv, Got
<1>5. \A a \in Actors : Doing(a)' = Doing(a)
  BY <1>1 DEF Doing
<1>6. "user" \in Actors /\ "pinger" \in Actors /\ Background \subseteq Actors
  BY DEF Actors, Background
<1>7. OrderInv'
  BY <1>1, <1>5, <1>6 DEF OrderInv, Gone
<1>8. ItemInv'
  BY <1>1, <1>3, <1>5, <1>6 DEF StreamInv, ItemInv, Threads
<1>9. QED BY <1>4, <1>7, <1>8 DEF StreamInv

LEMMA ConnectOrder ==
  ASSUME StreamInv, Connect
  PROVE  StreamInv'
<1>1. /\ Doing("user") = "connect"
      /\ agenda' = [user |-> <<"idle">>, receiver |-> <<"read">>, pinger |-> <<"sleep">>]
      /\ UNCHANGED <<mode, delivered, queue, frames, partial, item>>
  BY DEF Connect, inbox
<1>2. queue = << >> /\ frames = << >> /\ partial = << >> /\ delivered = << >>
  BY <1>1 DEF StreamInv, ItemInv
<1>3. Doing("user")' = "idle" /\ Doing("receiver")' = "read" /\ Doing("pinger")' = "sleep"
  BY <1>1 DEF Doing
<1>4. GotInv'
  BY <1>1 DEF StreamInv, GotInv, Got
<1>5. ItemInv'
  <2>1. ASSUME NEW a \in Background PROVE Doing(a)' # "put" /\ agenda'[a] \notin Announces
    <3>1. Head(agenda'[a]) \in {"read", "sleep"}
      BY <1>3, <2>1 DEF Background, Doing
    <3>2. QED BY <3>1, AnnounceShape DEF Doing
  <2>2. QED BY <1>1, <1>3, <2>1 DEF StreamInv, ItemInv, Threads
<1>6. OrderInv'
  <2>1. Len(queue) = 0 /\ Len(frames) = 0
    BY <1>2, EmptyList
  <2>2. PICK b \in [0 .. Len(queue) -> 0 .. Len(frames)] : Chain(b)
    BY <1>1 DEF StreamInv, OrderInv, Gone
  <2>3. Chain(b)'
    BY <1>1, <2>1, <2>2 DEF Chain, Got
  <2>4. b[0] = 0
    BY <2>1, <2>2
  <2>5. Follows(0)'
    <3>1. partial' = Span(0, 0)
      BY <1>1, <1>2, SpanEmpty
    <3>2. Len(frames') = 0 /\ \A i \in (0 + 1) .. 0 : ~frames'[i]
      BY <1>1, <2>1
    <3>3. Resumes(0, 0)'
      BY <1>3, <3>1, <3>2 DEF Resumes
    <3>4. QED BY <3>2, <3>3 DEF Follows
  <2>6. b \in [0 .. Len(queue') -> 0 .. Len(frames')] /\ b[Len(queue')] = 0
    BY <1>1, <2>1, <2>2, <2>4
  <2>7. QED BY <2>3, <2>5, <2>6 DEF OrderInv
<1>7. QED BY <1>4, <1>5, <1>6 DEF StreamInv

LEMMA InitOrder == Init => StreamInv
<1> SUFFICES ASSUME Init PROVE StreamInv
  OBVIOUS
<1>1. /\ queue = << >> /\ frames = << >> /\ partial = << >> /\ delivered = << >>
      /\ agenda = [a \in Actors |-> IF a = "user" THEN <<"connect">> ELSE <<"done">>]
  BY DEF Init
<1>2. Doing("user") = "connect" /\ \A a \in Background : Doing(a) = "done"
  BY <1>1 DEF Actors, Background, Doing
<1>3. Got = << >> /\ Len(Got) = 0 /\ Len(queue) = 0 /\ Len(frames) = 0
  BY <1>1, FlattenEmpty, EmptyList DEF Got
<1>4. GotInv
  <2>1. delivered \in Seq(Seq(Nat)) /\ ToSet(delivered) = {}
    BY <1>1, EmptyList
  <2>2. Got = Span(0, Len(Got)) /\ Len(Got) <= Len(frames)
    BY <1>3, SpanEmpty
  <2>3. QED BY <2>1, <2>2 DEF GotInv
<1>5. OrderInv
  <2>1. PICK b : b = [k \in 0 .. 0 |-> 0]
    OBVIOUS
  <2>2. b \in [0 .. Len(queue) -> 0 .. Len(frames)] /\ b[0] = Len(Got)
    BY <1>3, <2>1
  <2>3. Chain(b)
    BY <1>3, <2>2 DEF Chain
  <2>4. Over
    BY <1>2 DEF Over, Background
  <2>5. QED BY <2>2, <2>3, <2>4 DEF OrderInv
<1>6. ItemInv
  <2>1. \A a \in Background : Doing(a) # "put" /\ agenda[a] \notin Announces
    BY <1>2, AnnounceShape DEF Doing
  <2>2. queue \in Seq(Reports \cup Messages) /\ "pinger" \in Background
    BY <1>1, EmptyList DEF Background
  <2>3. QED BY <1>1, <2>1, <2>2 DEF ItemInv
<1>7. QED BY <1>4, <1>5, <1>6 DEF StreamInv

LEMMA NextOrder ==
  ASSUME IInv, RangeInv, LimitInv, StreamInv, [Next]_vars
  PROVE  StreamInv'
<1>1. ASSUME NEW a \in Actors, Progress(a)
      PROVE  StreamInv'
  <2>1. CASE Close(a)
    BY <2>1, CloseOrder
  <2>2. CASE Farewell(a)
    BY <2>2, FarewellOrder
  <2>3. CASE Hangup(a)
    BY <2>3, HangupOrder
  <2>4. CASE Write(a) \/ WriteFails(a)
    BY <2>4, WriteOrder
  <2>5. CASE a \in Background /\ (ShouldClose(a) \/ Die(a) \/ BackgroundCancelled(a))
    BY <2>5, StopOrder
  <2>6. CASE a \in Background /\ PutInQueue(a)
    BY <2>6, PutOrder
  <2>7. CASE a \in Background /\ HandOver(a)
    BY <2>7, HandOverOrder
  <2>8. CASE Handled \/ HandlePing \/ HandleClose \/ HandleTooBig \/ ReadFails
    BY <2>8, ReceiverOrder
  <2>9. CASE HandleMessage
    BY <2>9, MessageOrder
  <2>10. CASE HandlePong
    BY <2>10, StillKeeps DEF HandlePong, shared, control
  <2>11. CASE Ponged
    BY <2>11, PingerOrder
  <2>12. CASE Take
    BY <2>12, TakeOrder
  <2>13. CASE UserCancelled \/ Join
    BY <2>13, UserOrder
  <2>14. CASE ShutQueue \/ Drain
    BY <2>14, EmptyOrder
  <2>15. QED BY <1>1, <2>1, <2>2, <2>3, <2>4, <2>5, <2>6, <2>7, <2>8, <2>9, <2>10, <2>11,
                <2>12, <2>13, <2>14 DEF Progress
<1>2. CASE Connect
  BY <1>2, ConnectOrder
<1>3. CASE Refuse \/ Send \/ Receive \/ UserCloses \/ ReceiveTimeout \/ Exit
  BY <1>3, UserOrder
<1>4. CASE Read \/ ReadFails
  BY <1>4, ReceiverOrder
<1>5. CASE Ping \/ PongTimeout
  BY <1>5, PingerOrder
<1>6. CASE Finished \/ UNCHANGED vars
  BY <1>6, StillKeeps DEF Finished, vars, shared, control, inbox
<1>7. QED BY <1>1, <1>2, <1>3, <1>4, <1>5, <1>6 DEF Next

\* The user gets every message once, whole and in the order of its frames, in
\* threads and in tasks, whatever fails, is cancelled or times out: what receive()
\* has returned, what is in the queue, the event the receiver is putting and the
\* message it has begun are the frames handled so far, one after the other.
THEOREM InOrder == Spec => []DeliveredInOrder
<1>1. /\ IInv /\ RangeInv /\ LimitInv /\ StreamInv /\ [Next]_vars
      => (IInv /\ RangeInv /\ LimitInv /\ StreamInv)'
  <2> SUFFICES ASSUME IInv, RangeInv, LimitInv, StreamInv, [Next]_vars
               PROVE  IInv' /\ RangeInv' /\ LimitInv' /\ StreamInv'
    OBVIOUS
  <2>1. IInv'
    BY NextIInv
  <2>2. QED BY <2>1, RangeNext, LimitNext, NextOrder DEF IInv
<1>2. StreamInv => DeliveredInOrder
  <2> SUFFICES ASSUME GotInv PROVE DeliveredInOrder
    BY DEF StreamInv
  <2>1. Len(Got) \in Nat
    BY FlattenTyped, LenProperties DEF GotInv, Got
  <2>2. Got = [i \in 1 .. Len(Got) |-> i]
    BY <2>1 DEF GotInv, Span
  <2>3. \A m \in ToSet(delivered) : \A i \in DOMAIN m : frames[m[i]] <=> i = Len(m)
    BY DEF GotInv
  <2>4. QED BY <2>2, <2>3 DEF DeliveredInOrder, Got
<1>3. QED BY InitIInv, InitTypes, InitOrder, <1>1, <1>2, PTL DEF Spec

=============================================================================
