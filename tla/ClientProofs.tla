---------------------------- MODULE ClientProofs ----------------------------
(***************************************************************************)
(* What send() guarantees whatever the servers, the hooks and the other    *)
(* senders do: no response is left open, the requests are bounded, the     *)
(* credentials stay with their origin, histories are readable, no nonce    *)
(* count is used twice, and a closed client stays closed.                  *)
(***************************************************************************)
EXTENDS Client, SequenceLemmas

-----------------------------------------------------------------------------
(***************************************************************************)
(* The invariant.                                                          *)
(***************************************************************************)
\* A response: what send() keeps of it, and what the server answered.
Fields == {"closed", "read", "history", "nonce", "status", "location", "challenge"}
Contents == BOOLEAN \cup Seq(Nat) \cup Nat
            \cup UNION {{a.status, a.location, a.challenge} : a \in Answers}
Response == [Fields -> Contents]

Early == {"idle", "open", "prepare"}
Answered(s) == stage[s] \notin Early /\ flow[s] = "answered"

\* A function over the senders, whatever its values are.
PerSender(f) == f = [s \in Senders |-> f[s]]

\* Types; a sender has a response from its first on.
ShapeInv ==
  /\ stage \in [Senders -> Stages]
  /\ responses \in [Senders -> Seq(Response)]
  /\ {history, authHistory} \subseteq [Senders -> Seq(Nat)]
  /\ PerSender(call) /\ PerSender(original) /\ PerSender(request)
  /\ PerSender(spent) /\ PerSender(flow) /\ PerSender(drawn)
  /\ nonces \in Nat
  /\ \A s \in Senders :
       /\ stage[s] \in Early =>
            responses[s] = <<>> /\ history[s] = <<>> /\ authHistory[s] = <<>>
       /\ stage[s] \in {"hook", "judge", "renew", "holding", "returned"} \cup Draining =>
            responses[s] # <<>>

\* The rest of the types.
RangeInv ==
  /\ mode \in Modes /\ running \in Senders \cup {"nobody"}
  /\ state \in {"unopened", "opened", "closed"}
  /\ transports \in {"open", "closing", "closed", "half"}
  /\ nonces \in 0 .. MaxNonces /\ count \in Nat \ {0}

\* Between two awaits a task is alone, and then the client is not closed.
LoopInv ==
  mode = "tasks" =>
    \A s \in Senders : /\ stage[s] \in Busy => running = s
                       /\ stage[s] = "open" => state # "closed"

\* The stages in which the latest response may be open.
Reading == {"hook", "judge", "renew", "sign", "count", "holding"} \cup Draining

LeakInv(s) ==
  /\ \A i \in DOMAIN responses[s] :
       responses[s][i].closed = TRUE \/ (i = Len(responses[s]) /\ stage[s] \in Reading)
  /\ stage[s] = "holding" => Streams(call[s])

\* Before its challenge is answered a sender has received what is in its history
\* and the latest response; afterwards at most one full history more.
LengthInv(s) ==
  /\ Len(responses[s]) <= 2 * MaxRedirects + 1
  /\ stage[s] \in {"wire", "hook", "judge"} => Len(history[s]) <= MaxRedirects
  /\ ~Answered(s) =>
       /\ authHistory[s] = <<>>
       /\ stage[s] \in {"attempt", "wire", "drain"} =>
            Len(responses[s]) = Len(history[s])
       /\ stage[s] \in {"sign", "count"} => responses[s] = <<>> /\ history[s] = <<>>
       /\ stage[s] \in {"hook", "judge"} => Len(responses[s]) = Len(history[s]) + 1
  /\ stage[s] = "drain" => Len(history[s]) <= MaxRedirects + 1
  /\ stage[s] \in {"renew", "drain401"} => Answered(s)
  /\ Answered(s) =>
       /\ stage[s] \in {"renew", "sign", "count", "drain401"} =>
            authHistory[s] = <<>> /\ Len(responses[s]) <= MaxRedirects + 1
       /\ stage[s] \in {"attempt", "wire", "drain"} =>
            Len(responses[s]) <= MaxRedirects + Len(history[s])
       /\ stage[s] \in {"hook", "judge"} =>
            Len(responses[s]) <= MaxRedirects + Len(history[s]) + 1

\* The fields of a request.
IsRequest(r) == r = [method |-> r.method, origin |-> r.origin, body |-> r.body,
                     authorization |-> r.authorization, sent |-> r.sent]

\* Where credentials for an origin may go.
InScope(from, to) ==
  to = from \/ <<from.scheme, from.port, to.scheme, to.port, to.host>>
               = <<"http", 80, "https", 443, from.host>>

ScopeInv(s) ==
  /\ stage[s] \notin {"idle", "open", "raised"} =>
       /\ IsRequest(original[s]) /\ original[s].origin = call[s].origin
       /\ IsRequest(request[s])
  /\ stage[s] = "prepare" => request[s].origin = call[s].origin
  /\ /\ stage[s] \in {"attempt", "wire", "hook", "drain", "drain401"}
     /\ request[s].authorization # None
     => InScope(call[s].origin, request[s].origin)
  /\ stage[s] = "wire" /\ request[s].body # "iterator" => request[s].sent = request[s].body

\* A history of responses that came before the n-th.
Ordered(h, n) ==
  /\ \A k \in DOMAIN h : h[k] < n
  /\ \A j, k \in DOMAIN h : j < k => h[j] < h[k]

Judging == {"hook", "judge", "renew", "sign", "count", "drain401", "drainLast",
            "holding", "returned"}

Settled == {"judge", "holding", "drainLast", "returned"}

HistoryInv(s) ==
  /\ \A k \in DOMAIN history[s] : history[s][k] \in DOMAIN responses[s]
  /\ \A k \in DOMAIN authHistory[s] : authHistory[s][k] \in DOMAIN responses[s]
  /\ stage[s] # "raised" =>
       /\ \A k \in DOMAIN history[s] :
            \/ responses[s][history[s][k]].read = TRUE
            \/ stage[s] = "drain" /\ history[s][k] = Len(responses[s])
       /\ \A k \in DOMAIN authHistory[s] : responses[s][authHistory[s][k]].read = TRUE
       /\ stage[s] \notin Judging =>
            /\ Ordered(history[s], Len(responses[s]) + 1)
            /\ Ordered(authHistory[s], Len(responses[s]) + 1)
       /\ stage[s] \in Judging /\ responses[s] # <<>> =>
            /\ Ordered(history[s], Len(responses[s]))
            /\ Ordered(authHistory[s], Len(responses[s]))
       /\ stage[s] \in Settled => Latest(s).history = history[s]

\* The challenge with this nonce was taken up.
Taken(n) ==
  \E s \in Senders : Answered(s) /\ \E i \in DOMAIN responses[s] :
    responses[s][i].status = 401 /\ responses[s][i].nonce = n

NonceInv ==
  /\ \A s \in Senders : \A i \in DOMAIN responses[s] :
       responses[s][i].status = 401 => responses[s][i].nonce \in 1 .. nonces
  /\ \A s, t \in Senders : \A i \in DOMAIN responses[s], j \in DOMAIN responses[t] :
       /\ responses[s][i].status = 401 /\ responses[t][j].status = 401
       /\ responses[s][i].nonce = responses[t][j].nonce
       => s = t
  /\ challenge # None \/ (\E s \in Senders : stage[s] \in {"renew", "sign", "count"}) =>
       Taken(challenge.nonce)

SignInv ==
  mode = "tasks" =>
    /\ signed \in Seq(Nat \X Nat) /\ IsInjective(signed)
    /\ \A e \in ToSet(signed) : Taken(e[1])
    /\ \A s \in Senders : stage[s] = "count" => drawn[s] = <<challenge.nonce, count>>
    /\ \A e \in ToSet(signed) : e[1] = challenge.nonce =>
         e[2] < count /\ \A s \in Senders : stage[s] # "renew"

-----------------------------------------------------------------------------
(***************************************************************************)
(* Responses.                                                              *)
(***************************************************************************)
\* The latest response is the last of the list, the others come before it.
LEMMA LastAndFront ==
  ASSUME NEW S, NEW q \in Seq(S), q # <<>>, NEW e \in S
  PROVE  /\ Append(Front(q), e) \in Seq(S) /\ Len(Append(Front(q), e)) = Len(q)
         /\ Len(q) \in Nat \ {0} /\ DOMAIN q = 1 .. Len(q)
         /\ DOMAIN Append(Front(q), e) = DOMAIN q
         /\ Last(q) = q[Len(q)] /\ Last(q) \in S
         /\ Append(Front(q), e)[Len(q)] = e
         /\ \A i \in DOMAIN q : i # Len(q) => Append(Front(q), e)[i] = q[i]
<1> DEFINE f == Front(q)
           p == Append(f, e)
<1>1. Len(q) \in Nat \ {0} /\ DOMAIN q = 1 .. Len(q) /\ \A i \in DOMAIN q : q[i] \in S
  BY EmptySeq, LenProperties
<1>2. /\ f \in Seq(S) /\ Len(f) = Len(q) - 1
      /\ \A i \in 1 .. Len(f) : f[i] = q[i]
  <2>1. 1 \in 1 .. (Len(q) + 1) /\ Len(q) - 1 \in 0 .. Len(q)
    BY <1>1
  <2>2. /\ SubSeq(q, 1, Len(q) - 1) \in Seq(S)
        /\ Len(SubSeq(q, 1, Len(q) - 1)) = Len(q) - 1
        /\ \A i \in 1 .. (Len(q) - 1) : SubSeq(q, 1, Len(q) - 1)[i] = q[i]
    BY <1>1, SubSeqProperties
  <2>3. QED BY <2>2 DEF Front
<1> HIDE DEF f
<1>3. /\ p \in Seq(S) /\ Len(p) = Len(f) + 1
      /\ \A i \in 1 .. Len(f) : p[i] = f[i]
      /\ p[Len(f) + 1] = e
  BY <1>2, AppendProperties
<1>4. DOMAIN p = 1 .. Len(p)
  BY <1>3, LenProperties
<1>5. Last(q) = q[Len(q)] /\ Last(q) \in S
  BY <1>1 DEF Last
<1> HIDE DEF p
<1>6. /\ Len(p) = Len(q) /\ DOMAIN p = DOMAIN q /\ p[Len(q)] = e
      /\ \A i \in DOMAIN q : i # Len(q) => p[i] = q[i]
  BY <1>1, <1>2, <1>3, <1>4
<1>7. QED BY <1>1, <1>3, <1>5, <1>6 DEF p, f

LEMMA LatestChanged ==
  ASSUME NEW q \in Seq(Response), q # << >>, NEW r \in Response
  PROVE  /\ Append(Front(q), r) \in Seq(Response)
         /\ Len(Append(Front(q), r)) = Len(q) /\ Len(q) \in Nat \ {0}
         /\ DOMAIN Append(Front(q), r) = DOMAIN q
         /\ Append(Front(q), r)[Len(q)] = r
         /\ \A i \in DOMAIN q : i # Len(q) => Append(Front(q), r)[i] = q[i]
BY LastAndFront

\* The latest response becomes r.
LEMMA MarkLatest ==
  ASSUME responses \in [Senders -> Seq(Response)], NEW s \in Senders, responses[s] # <<>>,
         NEW r \in Response, Mark(s, r)
  PROVE  /\ responses' \in [Senders -> Seq(Response)]
         /\ \A t \in Senders : t # s => responses'[t] = responses[t]
         /\ responses'[s] # <<>> /\ Len(responses'[s]) = Len(responses[s])
         /\ DOMAIN responses'[s] = DOMAIN responses[s]
         /\ responses'[s][Len(responses[s])] = r
         /\ \A i \in DOMAIN responses[s] : i # Len(responses[s]) =>
              responses'[s][i] = responses[s][i]
<1>1. responses[s] \in Seq(Response) /\ responses[s] # << >>
  OBVIOUS
<1>2. PICK q \in Seq(Response) : q = responses[s]
  BY <1>1
<1>3. q # << >>
  BY <1>1, <1>2
<1>4. /\ Append(Front(q), r) \in Seq(Response) /\ Len(Append(Front(q), r)) = Len(q)
      /\ Len(q) \in Nat \ {0}
  BY <1>3, LatestChanged, Zenon
<1>5. /\ DOMAIN Append(Front(q), r) = DOMAIN q
      /\ Append(Front(q), r)[Len(q)] = r
      /\ \A i \in DOMAIN q : i # Len(q) => Append(Front(q), r)[i] = q[i]
  BY <1>3, LatestChanged, Zenon
<1> DEFINE p == Append(Front(q), r)
<1> HIDE DEF p
<1>6. responses' = [responses EXCEPT ![s] = p]
  BY <1>2 DEF Mark, p
<1>7. p \in Seq(Response) /\ p # << >>
  BY <1>4 DEF p
<1>8. /\ responses'[s] = p /\ \A t \in Senders : t # s => responses'[t] = responses[t]
      /\ responses' \in [Senders -> Seq(Response)]
  BY <1>6, <1>7
<1>9. QED BY <1>2, <1>4, <1>5, <1>7, <1>8 DEF p

\* An element is added to a list.
LEMMA Longer ==
  ASSUME NEW S, NEW q \in Seq(S), NEW e \in S
  PROVE  /\ Append(q, e) \in Seq(S) /\ Append(q, e) # << >>
         /\ Len(q) \in Nat /\ Len(Append(q, e)) = Len(q) + 1
         /\ DOMAIN q = 1 .. Len(q) /\ DOMAIN Append(q, e) = 1 .. (Len(q) + 1)
         /\ Append(q, e)[Len(q) + 1] = e
         /\ \A i \in DOMAIN q : Append(q, e)[i] = q[i]
<1> DEFINE p == Append(q, e)
<1>1. Len(q) \in Nat /\ DOMAIN q = 1 .. Len(q)
  BY LenProperties
<1>2. /\ p \in Seq(S) /\ Len(p) = Len(q) + 1 /\ p[Len(q) + 1] = e
      /\ \A i \in 1 .. Len(q) : p[i] = q[i]
  BY AppendProperties
<1> HIDE DEF p
<1>3. DOMAIN p = 1 .. Len(p) /\ p # << >>
  BY <1>1, <1>2, EmptySeq, LenProperties
<1>4. QED BY <1>1, <1>2, <1>3 DEF p

\* A response r arrives.
LEMMA Arrives ==
  ASSUME responses \in [Senders -> Seq(Response)], NEW s \in Senders, NEW r \in Response,
         responses' = [responses EXCEPT ![s] = Append(responses[s], r)]
  PROVE  /\ responses' \in [Senders -> Seq(Response)]
         /\ \A t \in Senders : t # s => responses'[t] = responses[t]
         /\ responses'[s] # << >> /\ Len(responses[s]) \in Nat
         /\ Len(responses'[s]) = Len(responses[s]) + 1
         /\ DOMAIN responses[s] = 1 .. Len(responses[s])
         /\ DOMAIN responses'[s] = 1 .. (Len(responses[s]) + 1)
         /\ responses'[s][Len(responses[s]) + 1] = r
         /\ \A i \in DOMAIN responses[s] : responses'[s][i] = responses[s][i]
<1>1. PICK q \in Seq(Response) : q = responses[s]
  OBVIOUS
<1>2. PICK p : p = Append(q, r)
  OBVIOUS
<1>3. /\ p \in Seq(Response) /\ p # << >> /\ Len(q) \in Nat /\ Len(p) = Len(q) + 1
      /\ DOMAIN q = 1 .. Len(q) /\ DOMAIN p = 1 .. (Len(q) + 1) /\ p[Len(q) + 1] = r
      /\ \A i \in DOMAIN q : p[i] = q[i]
  BY <1>2, Longer
<1>4. responses'[s] = p
  BY <1>1, <1>2
<1>5. /\ responses' \in [Senders -> Seq(Response)]
      /\ \A t \in Senders : t # s => responses'[t] = responses[t]
  BY <1>1, <1>2, <1>3
<1>6. QED BY <1>1, <1>3, <1>4, <1>5

\* What the latest response is.
LEMMA LatestIs ==
  ASSUME responses \in [Senders -> Seq(Response)], NEW s \in Senders, responses[s] # <<>>
  PROVE  /\ Latest(s) = responses[s][Len(responses[s])] /\ Latest(s) \in Response
         /\ Len(responses[s]) \in Nat \ {0}
         /\ DOMAIN responses[s] = 1 .. Len(responses[s])
BY LastAndFront DEF Latest

\* What may become of a response.
LEMMA Changed ==
  ASSUME NEW r \in Response
  PROVE  /\ [r EXCEPT !.closed = TRUE] \in Response
         /\ [r EXCEPT !.closed = TRUE].closed = TRUE
         /\ \A x \in Fields \ {"closed"} : [r EXCEPT !.closed = TRUE][x] = r[x]
         /\ ReadThrough(r) \in Response
         /\ ReadThrough(r).closed = TRUE /\ ReadThrough(r).read = TRUE
         /\ \A x \in Fields \ {"closed", "read"} : ReadThrough(r)[x] = r[x]
BY DEF ReadThrough, Response, Fields, Contents

LEMMA HistoryChanged ==
  ASSUME NEW r \in Response, NEW h \in Seq(Nat)
  PROVE  /\ [r EXCEPT !.history = h] \in Response
         /\ [r EXCEPT !.history = h].history = h
         /\ \A x \in Fields \ {"history"} : [r EXCEPT !.history = h][x] = r[x]
BY DEF Response, Fields, Contents

LEMMA ArrivedType ==
  ASSUME NEW a \in Answers, NEW n \in Nat
  PROVE  Arrived(a, n) \in Response
<1> DEFINE r == Arrived(a, n)
<1>1. r = [x \in Fields |-> r[x]]
  BY DEF Arrived, Fields
<1>2. r.closed \in Contents /\ r.read \in Contents /\ r.history \in Contents
      /\ r.nonce \in Contents
  <2>1. << >> \in Seq(Nat)
    OBVIOUS
  <2>2. QED BY <2>1 DEF Arrived, Contents
<1>3. r.status \in Contents /\ r.location \in Contents /\ r.challenge \in Contents
  BY DEF Arrived, Contents
<1> HIDE DEF r
<1>4. QED BY <1>1, <1>2, <1>3 DEF Response, Fields, r

-----------------------------------------------------------------------------
(***************************************************************************)
(* A sender changes nothing of the others.                                 *)
(***************************************************************************)
LEMMA Change ==
  ASSUME NEW f, PerSender(f), NEW s \in Senders, NEW g,
         g = f \/ \E v : g = [f EXCEPT ![s] = v]
  PROVE  PerSender(g) /\ \A t \in Senders : t # s => g[t] = f[t]
BY DEF PerSender

\* The variables that hold one value per sender.
Parts(s) ==
  /\ \A t \in Senders : t # s =>
       UNCHANGED <<call[t], original[t], request[t], spent[t], flow[t], drawn[t]>>
  /\ PerSender(call)' /\ PerSender(original)' /\ PerSender(request)'
  /\ PerSender(spent)' /\ PerSender(flow)' /\ PerSender(drawn)'
  /\ nonces' \in Nat

LEMMA OwnParts ==
  ASSUME ShapeInv, NEW s \in Senders, Step(s)
  PROVE  Parts(s)
<1>1. /\ call' = call \/ \E v : call' = [call EXCEPT ![s] = v]
      /\ original' = original \/ \E v : original' = [original EXCEPT ![s] = v]
      /\ request' = request \/ \E v : request' = [request EXCEPT ![s] = v]
      /\ spent' = spent \/ \E v : spent' = [spent EXCEPT ![s] = v]
      /\ flow' = flow \/ \E v : flow' = [flow EXCEPT ![s] = v]
      /\ drawn' = drawn \/ \E v : drawn' = [drawn EXCEPT ![s] = v]
  <2> USE DEF shared, digest, outgoing, progress
  <2>1. CASE Submit(s) BY <2>1 DEF Submit
  <2>2. CASE Open(s) BY <2>2 DEF Open
  <2>3. CASE Prepare(s) BY <2>3 DEF Prepare
  <2>4. CASE Sign(s) BY <2>4 DEF Sign
  <2>5. CASE CannotSign(s) BY <2>5 DEF CannotSign
  <2>6. CASE Count(s) BY <2>6 DEF Count
  <2>7. CASE TakeUp(s) \/ Renew(s) \/ Malformed(s) \/ Settle(s)
    BY <2>7 DEF TakeUp, Renew, Malformed, Settle
  <2>8. CASE GiveUp(s) \/ Attempt(s) \/ TransportFails(s)
    BY <2>8 DEF GiveUp, Attempt, TransportFails
  <2>9. CASE Receive(s) BY <2>9 DEF Receive
  <2>10. CASE Hooked(s) \/ HookFails(s) BY <2>10 DEF Hooked, HookFails
  <2>11. CASE Redirect(s) BY <2>11 DEF Redirect
  <2>12. CASE Drained(s) BY <2>12 DEF Drained
  <2>13. CASE DrainFails(s) \/ UpgradeRefused(s) \/ LeaveStream(s)
    BY <2>13 DEF DrainFails, UpgradeRefused, LeaveStream
  <2>14. QED
    BY <2>1, <2>2, <2>3, <2>4, <2>5, <2>6, <2>7, <2>8, <2>9, <2>10, <2>11, <2>12, <2>13
    DEF Step
<1>2. /\ PerSender(call) /\ PerSender(original) /\ PerSender(request)
      /\ PerSender(spent) /\ PerSender(flow) /\ PerSender(drawn)
  BY DEF ShapeInv
<1>3. /\ PerSender(call)'
      /\ \A t \in Senders : t # s => call'[t] = call[t]
  BY <1>1, <1>2, Change DEF PerSender
<1>4. /\ PerSender(original)'
      /\ \A t \in Senders : t # s => original'[t] = original[t]
  BY <1>1, <1>2, Change DEF PerSender
<1>5. /\ PerSender(request)'
      /\ \A t \in Senders : t # s => request'[t] = request[t]
  BY <1>1, <1>2, Change DEF PerSender
<1>6. /\ PerSender(spent)'
      /\ \A t \in Senders : t # s => spent'[t] = spent[t]
  BY <1>1, <1>2, Change DEF PerSender
<1>7. /\ PerSender(flow)'
      /\ \A t \in Senders : t # s => flow'[t] = flow[t]
  BY <1>1, <1>2, Change DEF PerSender
<1>8. /\ PerSender(drawn)'
      /\ \A t \in Senders : t # s => drawn'[t] = drawn[t]
  BY <1>1, <1>2, Change DEF PerSender
<1>9. nonces' = nonces \/ nonces' = nonces + 1
  <2>1. CASE Receive(s) BY <2>1 DEF Receive
  <2>2. CASE ~Receive(s)
    BY <2>2 DEF Step, shared, Submit, Open, Prepare, Sign, CannotSign, Count, TakeUp, Renew,
       Malformed, Settle, GiveUp, Attempt, TransportFails, Hooked, HookFails, Redirect,
       Drained, DrainFails, UpgradeRefused, LeaveStream
  <2>3. QED BY <2>1, <2>2
<1>10. nonces' \in Nat
  BY <1>9 DEF ShapeInv
<1>11. QED BY <1>3, <1>4, <1>5, <1>6, <1>7, <1>8, <1>10 DEF Parts

\* A sender's own share of the state is all that its step changes.
Own(s) ==
  \A t \in Senders : t # s =>
    UNCHANGED <<stage[t], call[t], original[t], request[t], spent[t], flow[t], drawn[t],
                responses[t], history[t], authHistory[t]>>

\* The stages in which there is a response.
Answering == {"hook", "judge", "renew", "holding", "returned"} \cup Draining

LEMMA ShapeMoves ==
  ASSUME ShapeInv, NEW s \in Senders, Parts(s),
         NEW p \in Stages, stage' = [stage EXCEPT ![s] = p],
         responses' \in [Senders -> Seq(Response)],
         history' \in [Senders -> Seq(Nat)], authHistory' \in [Senders -> Seq(Nat)],
         \A t \in Senders : t # s =>
           UNCHANGED <<responses[t], history[t], authHistory[t]>>,
         p \in Early => stage[s] \in Early /\ UNCHANGED progress,
         p \in Answering => responses'[s] # <<>>
  PROVE  ShapeInv' /\ Own(s)
<1>1. /\ stage' \in [Senders -> Stages] /\ stage'[s] = p
      /\ \A t \in Senders : t # s => stage'[t] = stage[t]
  BY DEF ShapeInv
<1>2. Own(s)
  BY <1>1 DEF Own, Parts
<1>3. ASSUME NEW t \in Senders
      PROVE  /\ stage'[t] \in Early =>
                  responses'[t] = <<>> /\ history'[t] = <<>> /\ authHistory'[t] = <<>>
             /\ stage'[t] \in Answering => responses'[t] # <<>>
  <2>1. CASE t = s
    BY <1>1, <2>1 DEF ShapeInv, progress, Answering
  <2>2. CASE t # s
    BY <1>1, <2>2 DEF ShapeInv, Answering
  <2>3. QED BY <2>1, <2>2
<1>4. QED BY <1>1, <1>2, <1>3 DEF ShapeInv, Parts, Answering

\* A step that ends with the latest response becoming r.
LEMMA ShapeMarks ==
  ASSUME ShapeInv, NEW s \in Senders, Parts(s), NEW p \in Stages, p \notin Early,
         stage' = [stage EXCEPT ![s] = p], responses[s] # <<>>,
         NEW r \in Response, Mark(s, r), UNCHANGED <<history, authHistory>>
  PROVE  ShapeInv' /\ Own(s)
<1>1. responses \in [Senders -> Seq(Response)] /\ {history, authHistory} \subseteq [Senders -> Seq(Nat)]
  BY DEF ShapeInv
<1>2. /\ responses' \in [Senders -> Seq(Response)] /\ responses'[s] # <<>>
      /\ \A t \in Senders : t # s => responses'[t] = responses[t]
  BY <1>1, MarkLatest
<1>3. QED BY <1>1, <1>2, ShapeMoves

\* Where a sender's step leads.
LEMMA Moves ==
  ASSUME ShapeInv, NEW s \in Senders, NEW p, Go(s, p)
  PROVE  stage' = [stage EXCEPT ![s] = p] /\ stage'[s] = p
BY DEF Go, ShapeInv

\* Steps that leave the responses and the histories alone.
LEMMA ShapePlain ==
  ASSUME ShapeInv, NEW s \in Senders, Parts(s), UNCHANGED progress,
         NEW p \in Stages, Go(s, p),
         p \in Early => stage[s] \in Early,
         p \in Answering => responses[s] # <<>>
  PROVE  ShapeInv' /\ Own(s)
<1>1. /\ responses' \in [Senders -> Seq(Response)]
      /\ history' \in [Senders -> Seq(Nat)] /\ authHistory' \in [Senders -> Seq(Nat)]
      /\ \A t \in Senders : t # s =>
           UNCHANGED <<responses[t], history[t], authHistory[t]>>
      /\ responses'[s] = responses[s]
  BY DEF ShapeInv, progress
<1>2. stage' = [stage EXCEPT ![s] = p]
  BY Moves
<1>3. QED BY <1>1, <1>2, ShapeMoves

LEMMA ShapeRaises ==
  ASSUME ShapeInv, NEW s \in Senders, Parts(s), CloseAndRaise(s), responses[s] # <<>>,
         UNCHANGED <<history, authHistory>>
  PROVE  ShapeInv' /\ Own(s)
<1>1. Mark(s, [Latest(s) EXCEPT !.closed = TRUE]) /\ Go(s, "raised")
  BY DEF CloseAndRaise
<1>2. Latest(s) \in Response
  BY LatestIs DEF ShapeInv
<1>3. [Latest(s) EXCEPT !.closed = TRUE] \in Response
  BY <1>2, Changed
<1>4. stage' = [stage EXCEPT ![s] = "raised"] /\ "raised" \in Stages /\ "raised" \notin Early
  BY <1>1, Moves DEF Stages, Early
<1>5. QED BY <1>1, <1>3, <1>4, ShapeMarks

LEMMA ShapeStep ==
  ASSUME ShapeInv, NEW s \in Senders, Step(s)
  PROVE  ShapeInv' /\ Own(s)
<1>1. Parts(s)
  BY OwnParts
<1>2. stage[s] \in Stages /\ (stage[s] \in Answering => responses[s] # <<>>)
      /\ {history, authHistory} \subseteq [Senders -> Seq(Nat)]
      /\ responses \in [Senders -> Seq(Response)] /\ responses[s] \in Seq(Response)
  BY DEF ShapeInv, Answering
<1> USE DEF Stages, Draining, Early, Answering, At
<1>3. CASE Submit(s)
  <2>1. stage[s] = "idle" /\ UNCHANGED progress /\ (Go(s, "raised") \/ Go(s, "open"))
    BY <1>3 DEF Submit
  <2>2. QED BY <1>1, <2>1, ShapePlain
<1>4. CASE Open(s)
  <2>1. stage[s] = "open" /\ UNCHANGED progress /\ Go(s, "prepare")
    BY <1>4 DEF Open
  <2>2. QED BY <1>1, <2>1, ShapePlain
<1>5. CASE Prepare(s) \/ Sign(s)
  <2>1. UNCHANGED progress /\ (Go(s, "sign") \/ Go(s, "attempt") \/ Go(s, "count"))
    BY <1>5 DEF Prepare, Sign
  <2>2. QED BY <1>1, <2>1, ShapePlain
<1>6. CASE CannotSign(s)
  <2>1. CASE responses[s] = <<>>
    <3>1. Go(s, "raised") /\ UNCHANGED progress
      BY <1>6, <2>1 DEF CannotSign, progress
    <3>2. QED BY <1>1, <3>1, ShapePlain
  <2>2. CASE responses[s] # <<>>
    <3>1. CloseAndRaise(s) /\ UNCHANGED <<history, authHistory>>
      BY <1>6, <2>2 DEF CannotSign
    <3>2. QED BY <1>1, <2>2, <3>1, ShapeRaises
  <2>3. QED BY <2>1, <2>2
<1>7. CASE Count(s)
  <2>1. /\ UNCHANGED progress
        /\ Go(s, IF responses[s] = <<>> THEN "attempt" ELSE "drain401")
    BY <1>7 DEF Count
  <2>2. QED BY <1>1, <2>1, ShapePlain
<1>8. CASE TakeUp(s) \/ Renew(s) \/ Settle(s)
  <2>1. /\ stage[s] \in {"judge", "renew"} /\ UNCHANGED progress
        /\ Go(s, "renew") \/ Go(s, "sign") \/ Go(s, "holding") \/ Go(s, "drainLast")
    BY <1>8 DEF TakeUp, Renew, Settle
  <2>2. QED BY <1>1, <1>2, <2>1, ShapePlain
<1>9. CASE GiveUp(s) \/ Attempt(s) \/ TransportFails(s)
  <2>1. UNCHANGED progress /\ (Go(s, "raised") \/ Go(s, "wire"))
    BY <1>9 DEF GiveUp, Attempt, TransportFails
  <2>2. QED BY <1>1, <2>1, ShapePlain
<1>10. CASE Malformed(s) \/ HookFails(s) \/ DrainFails(s) \/ UpgradeRefused(s)
  <2>1. /\ stage[s] \in Answering /\ CloseAndRaise(s)
        /\ UNCHANGED <<history, authHistory>>
    BY <1>10 DEF Malformed, HookFails, DrainFails, UpgradeRefused
  <2>2. QED BY <1>1, <1>2, <2>1, ShapeRaises
<1>11. CASE Receive(s)
  <2>1. PICK a \in Answers, n \in {nonces, nonces + 1} :
          responses' = [responses EXCEPT ![s] = Append(responses[s], Arrived(a, n))]
    BY <1>11 DEF Receive
  <2>2. n \in Nat
    BY DEF ShapeInv
  <2>3. Arrived(a, n) \in Response
    BY <2>2, ArrivedType
  <2>5. /\ responses' \in [Senders -> Seq(Response)] /\ responses'[s] # <<>>
        /\ \A t \in Senders : t # s => responses'[t] = responses[t]
    BY <1>2, <2>1, <2>3, Arrives
  <2>6. /\ stage' = [stage EXCEPT ![s] = "hook"] /\ UNCHANGED <<history, authHistory>>
    BY <1>11, Moves DEF Receive
  <2>7. QED BY <1>1, <1>2, <2>5, <2>6, ShapeMoves
<1>12. CASE Hooked(s)
  <2>1. /\ stage[s] = "hook" /\ Mark(s, [Latest(s) EXCEPT !.history = history[s]])
        /\ Go(s, "judge") /\ UNCHANGED <<history, authHistory>>
    BY <1>12 DEF Hooked
  <2>2. [Latest(s) EXCEPT !.history = history[s]] \in Response
    BY <1>2, <2>1, LatestIs, HistoryChanged
  <2>3. stage' = [stage EXCEPT ![s] = "judge"]
    BY <2>1, Moves
  <2>4. QED BY <1>1, <1>2, <2>1, <2>2, <2>3, ShapeMarks
<1>13. CASE Redirect(s)
  <2>1. /\ stage[s] = "hook" /\ Mark(s, [Latest(s) EXCEPT !.history = history[s]])
        /\ Go(s, "drain") /\ authHistory' = authHistory
        /\ history' = [history EXCEPT ![s] = Append(history[s], Len(responses[s]))]
    BY <1>13 DEF Redirect, HistoryWith
  <2>2. [Latest(s) EXCEPT !.history = history[s]] \in Response /\ Len(responses[s]) \in Nat
    BY <1>2, <2>1, LatestIs, HistoryChanged
  <2>3. stage' = [stage EXCEPT ![s] = "drain"]
    BY <2>1, Moves
  <2>4. /\ responses' \in [Senders -> Seq(Response)] /\ responses'[s] # <<>>
        /\ \A t \in Senders : t # s => responses'[t] = responses[t]
    BY <1>2, <2>1, <2>2, MarkLatest
  <2>5. /\ history' \in [Senders -> Seq(Nat)]
        /\ \A t \in Senders : t # s => history'[t] = history[t]
    BY <1>2, <2>1, <2>2
  <2>6. QED BY <1>1, <1>2, <2>1, <2>3, <2>4, <2>5, ShapeMoves
<1>14. CASE Drained(s)
  <2>1. stage[s] \in Draining
    BY <1>14 DEF Drained
  <2>2. Latest(s) \in Response /\ ReadThrough(Latest(s)) \in Response
        /\ Len(responses[s]) \in Nat
    BY <1>2, <2>1, LatestIs, Changed
  <2>3. PICK p \in {"returned", "attempt"} : Go(s, p)
    BY <1>14 DEF Drained
  <2>4. CASE stage[s] = "drain401"
    <3>1. /\ Mark(s, [ReadThrough(Latest(s)) EXCEPT !.history = authHistory[s]])
          /\ authHistory' = [authHistory EXCEPT ![s] =
                               Append(authHistory[s], Len(responses[s]))]
          /\ history' = [history EXCEPT ![s] = authHistory'[s]]
      BY <1>14, <2>4 DEF Drained
    <3>2. [ReadThrough(Latest(s)) EXCEPT !.history = authHistory[s]] \in Response
      BY <1>2, <2>2, HistoryChanged
    <3>3. /\ responses' \in [Senders -> Seq(Response)] /\ responses'[s] # <<>>
          /\ \A t \in Senders : t # s => responses'[t] = responses[t]
      BY <1>2, <2>1, <3>1, <3>2, MarkLatest
    <3>4. /\ authHistory' \in [Senders -> Seq(Nat)]
          /\ \A t \in Senders : t # s => authHistory'[t] = authHistory[t]
      BY <1>2, <2>2, <3>1
    <3>5. /\ history' \in [Senders -> Seq(Nat)]
          /\ \A t \in Senders : t # s => history'[t] = history[t]
      BY <1>2, <3>1, <3>4
    <3>6. stage' = [stage EXCEPT ![s] = p]
      BY <2>3, Moves
    <3>7. QED BY <1>1, <1>2, <3>3, <3>4, <3>5, <3>6, ShapeMoves
  <2>5. CASE stage[s] # "drain401"
    <3>1. Mark(s, ReadThrough(Latest(s))) /\ UNCHANGED <<history, authHistory>>
      BY <1>14, <2>5 DEF Drained
    <3>2. stage' = [stage EXCEPT ![s] = p]
      BY <2>3, Moves
    <3>3. QED BY <1>1, <1>2, <2>1, <2>2, <3>1, <3>2, ShapeMarks
  <2>6. QED BY <2>4, <2>5
<1>15. CASE LeaveStream(s)
  <2>1. PICK all \in BOOLEAN :
          Mark(s, [Latest(s) EXCEPT !.read = all, !.closed = TRUE])
    BY <1>15 DEF LeaveStream
  <2>2. /\ stage[s] = "holding" /\ Go(s, "returned") /\ UNCHANGED <<history, authHistory>>
    BY <1>15 DEF LeaveStream
  <2>3. Latest(s) \in Response
    BY <1>2, <2>2, LatestIs
  <2>4. [Latest(s) EXCEPT !.read = all, !.closed = TRUE] \in Response
    BY <2>3 DEF Response, Contents, Fields
  <2>5. stage' = [stage EXCEPT ![s] = "returned"]
    BY <2>2, Moves
  <2>6. QED BY <1>1, <1>2, <2>1, <2>2, <2>4, <2>5, ShapeMarks
<1>16. QED
  BY <1>3, <1>4, <1>5, <1>6, <1>7, <1>8, <1>9, <1>10, <1>11, <1>12, <1>13, <1>14, <1>15
  DEF Step

-----------------------------------------------------------------------------
(***************************************************************************)
(* No response is left open.                                               *)
(***************************************************************************)
\* A sender's part of an invariant is its own.
LEMMA LeakOthers ==
  ASSUME NEW s \in Senders, Own(s), NEW t \in Senders, t # s, LeakInv(t)
  PROVE  LeakInv(t)'
BY DEF LeakInv, Own

LEMMA LeakPlain ==
  ASSUME ShapeInv, NEW s \in Senders, LeakInv(s), NEW p, Go(s, p), UNCHANGED progress,
         stage[s] \in Reading => p \in Reading \/ responses[s] = << >>,
         p = "holding" => Streams(call[s]) /\ UNCHANGED call
  PROVE  LeakInv(s)'
<1>1. stage'[s] = p /\ responses' = responses
  BY Moves DEF progress
<1>2. responses[s] = << >> => DOMAIN responses[s] = {}
  OBVIOUS
<1>3. QED BY <1>1, <1>2 DEF LeakInv

LEMMA LeakMarks ==
  ASSUME ShapeInv, NEW s \in Senders, LeakInv(s), NEW p, Go(s, p), p # "holding",
         responses[s] # << >>, NEW r \in Response, Mark(s, r),
         r.closed = TRUE \/ p \in Reading
  PROVE  LeakInv(s)'
<1>1. stage'[s] = p
  BY Moves
<1>2. /\ Len(responses'[s]) = Len(responses[s])
      /\ DOMAIN responses'[s] = DOMAIN responses[s]
      /\ responses'[s][Len(responses[s])] = r
      /\ \A i \in DOMAIN responses[s] : i # Len(responses[s]) =>
           responses'[s][i] = responses[s][i]
  BY MarkLatest DEF ShapeInv
<1>3. QED BY <1>1, <1>2 DEF LeakInv

LEMMA LeakRaises ==
  ASSUME ShapeInv, NEW s \in Senders, LeakInv(s), CloseAndRaise(s), responses[s] # << >>
  PROVE  LeakInv(s)'
<1>1. [Latest(s) EXCEPT !.closed = TRUE] \in Response
      /\ [Latest(s) EXCEPT !.closed = TRUE].closed = TRUE
  BY LatestIs, Changed DEF ShapeInv
<1>2. Mark(s, [Latest(s) EXCEPT !.closed = TRUE]) /\ Go(s, "raised")
  BY DEF CloseAndRaise
<1>3. QED BY <1>1, <1>2, LeakMarks

LEMMA LeakStep ==
  ASSUME ShapeInv, NEW s \in Senders, LeakInv(s), Step(s)
  PROVE  LeakInv(s)'
<1>1. /\ responses \in [Senders -> Seq(Response)] /\ history[s] \in Seq(Nat)
      /\ authHistory[s] \in Seq(Nat)
      /\ stage[s] \in Answering => responses[s] # << >>
      /\ stage[s] \in Early => responses[s] = << >>
  BY DEF ShapeInv, Answering
<1>2. responses[s] # << >> => Latest(s) \in Response
  BY <1>1, LatestIs
<1> USE DEF Draining, Early, Answering, At, Reading
<1>3. CASE Submit(s) \/ Open(s) \/ Prepare(s)
  <2>1. stage[s] \in Early /\ UNCHANGED progress /\ \E p : Go(s, p) /\ p # "holding"
    BY <1>3 DEF Submit, Open, Prepare
  <2>2. QED BY <1>1, <2>1, LeakPlain
<1>4. CASE Sign(s) \/ Count(s)
  <2>1. /\ UNCHANGED progress
        /\ \/ Go(s, "count") \/ Go(s, "drain401")
           \/ responses[s] = << >> /\ Go(s, "attempt")
    BY <1>4 DEF Sign, Count
  <2>2. QED BY <2>1, LeakPlain
<1>5. CASE CannotSign(s)
  <2>1. CASE responses[s] = << >>
    <3>1. Go(s, "raised") /\ UNCHANGED progress
      BY <1>5, <2>1 DEF CannotSign, progress
    <3>2. QED BY <2>1, <3>1, LeakPlain
  <2>2. CASE responses[s] # << >>
    BY <1>5, <2>2, LeakRaises DEF CannotSign
  <2>3. QED BY <2>1, <2>2
<1>6. CASE TakeUp(s) \/ Renew(s) \/ Settle(s)
  <2>1. /\ UNCHANGED <<progress, call>>
        /\ \/ Go(s, "renew") \/ Go(s, "sign") \/ Go(s, "drainLast")
           \/ Go(s, "holding") /\ Streams(call[s])
    BY <1>6 DEF TakeUp, Renew, Settle
  <2>2. QED BY <2>1, LeakPlain
<1>7. CASE GiveUp(s) \/ Attempt(s) \/ TransportFails(s)
  <2>1. /\ stage[s] \in {"attempt", "wire"} /\ UNCHANGED progress
        /\ Go(s, "raised") \/ Go(s, "wire")
    BY <1>7 DEF GiveUp, Attempt, TransportFails
  <2>2. QED BY <2>1, LeakPlain
<1>8. CASE Malformed(s) \/ HookFails(s) \/ DrainFails(s) \/ UpgradeRefused(s)
  <2>1. stage[s] \in Answering /\ CloseAndRaise(s)
    BY <1>8 DEF Malformed, HookFails, DrainFails, UpgradeRefused
  <2>2. QED BY <1>1, <2>1, LeakRaises
<1>9. CASE Receive(s)
  <2>1. PICK a \in Answers, n \in {nonces, nonces + 1} :
          responses' = [responses EXCEPT ![s] = Append(responses[s], Arrived(a, n))]
    BY <1>9 DEF Receive
  <2>2. Arrived(a, n) \in Response
    BY ArrivedType DEF ShapeInv
  <2>3. /\ Len(responses[s]) \in Nat /\ Len(responses'[s]) = Len(responses[s]) + 1
        /\ DOMAIN responses[s] = 1 .. Len(responses[s])
        /\ DOMAIN responses'[s] = 1 .. (Len(responses[s]) + 1)
        /\ \A i \in DOMAIN responses[s] : responses'[s][i] = responses[s][i]
    BY <1>1, <2>1, <2>2, Arrives
  <2>4. stage[s] = "wire" /\ stage'[s] = "hook"
    BY <1>9, Moves DEF Receive
  <2>5. \A i \in DOMAIN responses[s] : responses[s][i].closed = TRUE
    BY <2>4 DEF LeakInv
  <2>6. \A i \in DOMAIN responses'[s] :
          i \in DOMAIN responses[s] \/ i = Len(responses'[s])
    BY <2>3
  <2>7. QED BY <2>3, <2>4, <2>5, <2>6 DEF LeakInv
<1>10. CASE Hooked(s) \/ Redirect(s)
  <2>1. /\ stage[s] = "hook" /\ Mark(s, [Latest(s) EXCEPT !.history = history[s]])
        /\ Go(s, "judge") \/ Go(s, "drain")
    BY <1>10 DEF Hooked, Redirect
  <2>2. [Latest(s) EXCEPT !.history = history[s]] \in Response
    BY <1>1, <1>2, <2>1, HistoryChanged
  <2>3. QED BY <1>1, <2>1, <2>2, LeakMarks
<1>11. CASE Drained(s)
  <2>1. stage[s] \in Draining /\ responses[s] # << >> /\ (Go(s, "returned") \/ Go(s, "attempt"))
    BY <1>1, <1>11 DEF Drained
  <2>2. ReadThrough(Latest(s)) \in Response /\ ReadThrough(Latest(s)).closed = TRUE
    BY <1>2, <2>1, Changed
  <2>3. CASE stage[s] = "drain401"
    <3>1. Mark(s, [ReadThrough(Latest(s)) EXCEPT !.history = authHistory[s]])
      BY <1>11, <2>3 DEF Drained
    <3>2. /\ [ReadThrough(Latest(s)) EXCEPT !.history = authHistory[s]] \in Response
          /\ [ReadThrough(Latest(s)) EXCEPT !.history = authHistory[s]].closed = TRUE
      BY <1>1, <2>2, HistoryChanged DEF Response, Fields
    <3>3. QED BY <2>1, <3>1, <3>2, LeakMarks
  <2>4. CASE stage[s] # "drain401"
    <3>1. Mark(s, ReadThrough(Latest(s)))
      BY <1>11, <2>4 DEF Drained
    <3>2. QED BY <2>1, <2>2, <3>1, LeakMarks
  <2>5. QED BY <2>3, <2>4
<1>12. CASE LeaveStream(s)
  <2>1. PICK all \in BOOLEAN :
          Mark(s, [Latest(s) EXCEPT !.read = all, !.closed = TRUE])
    BY <1>12 DEF LeaveStream
  <2>2. stage[s] = "holding" /\ Go(s, "returned") /\ Latest(s) \in Response
    BY <1>1, <1>2, <1>12 DEF LeaveStream
  <2>3. /\ [Latest(s) EXCEPT !.read = all, !.closed = TRUE] \in Response
        /\ [Latest(s) EXCEPT !.read = all, !.closed = TRUE].closed = TRUE
    BY <2>2 DEF Response, Contents, Fields
  <2>4. QED BY <1>1, <2>1, <2>2, <2>3, LeakMarks
<1>13. QED
  BY <1>3, <1>4, <1>5, <1>6, <1>7, <1>8, <1>9, <1>10, <1>11, <1>12 DEF Step

-----------------------------------------------------------------------------
(***************************************************************************)
(* The requests are bounded.                                               *)
(***************************************************************************)
LEMMA LengthOthers ==
  ASSUME NEW s \in Senders, Own(s), NEW t \in Senders, t # s, LengthInv(t)
  PROVE  LengthInv(t)'
BY DEF LengthInv, Answered, Own

LEMMA LengthRaises ==
  ASSUME ShapeInv, NEW s \in Senders, LengthInv(s), stage'[s] = "raised", flow'[s] = flow[s],
         stage[s] \notin Early, authHistory' = authHistory,
         Len(responses'[s]) = Len(responses[s])
  PROVE  LengthInv(s)'
BY DEF LengthInv, Answered, Early

LEMMA LengthStep ==
  ASSUME ShapeInv, NEW s \in Senders, LengthInv(s), Step(s)
  PROVE  LengthInv(s)'
<1>1. /\ responses \in [Senders -> Seq(Response)] /\ history[s] \in Seq(Nat)
      /\ authHistory[s] \in Seq(Nat)
      /\ stage[s] \in Answering => responses[s] # << >>
      /\ stage[s] \in Early =>
           responses[s] = << >> /\ history[s] = << >> /\ authHistory[s] = << >>
      /\ PerSender(flow)
  BY DEF ShapeInv, Answering
<1>2. responses[s] # << >> => Latest(s) \in Response
  BY <1>1, LatestIs
<1>3. /\ Len(responses[s]) \in Nat /\ Len(history[s]) \in Nat /\ MaxRedirects \in Nat
      /\ Len(<< >>) = 0 /\ 2 * MaxRedirects \in Nat
      /\ 2 * MaxRedirects = MaxRedirects + MaxRedirects
  BY <1>1, LenProperties, EmptySeq, ClientAssumption
<1>4. ASSUME NEW r \in Response, responses[s] # << >>, Mark(s, r)
      PROVE  Len(responses'[s]) = Len(responses[s])
  BY <1>1, <1>4, MarkLatest
<1> USE DEF Draining, Early, Answering, At
<1>5. CASE Submit(s) \/ Open(s) \/ Prepare(s)
  <2>1. /\ stage[s] \in Early /\ UNCHANGED progress
        /\ stage'[s] \in {"raised", "open", "prepare", "sign", "attempt"}
    BY <1>5, Moves DEF Submit, Open, Prepare
  <2>2. responses'[s] = << >> /\ history'[s] = << >> /\ authHistory'[s] = << >>
    BY <1>1, <2>1 DEF progress
  <2>3. QED BY <1>3, <2>1, <2>2 DEF LengthInv, Answered
<1>6. CASE Sign(s) \/ Count(s) \/ Renew(s)
  <2>1. /\ stage[s] \in {"sign", "count", "renew"} /\ UNCHANGED <<progress, flow>>
        /\ \/ stage'[s] = "count" \/ stage'[s] = "sign"
           \/ responses[s] = << >> /\ stage'[s] = "attempt"
           \/ responses[s] # << >> /\ stage'[s] = "drain401"
    BY <1>6, Moves DEF Sign, Count, Renew
  <2>2. /\ Len(responses'[s]) = Len(responses[s]) /\ Len(history'[s]) = Len(history[s])
        /\ UNCHANGED <<responses[s], history[s], authHistory[s], flow[s]>>
    BY <2>1 DEF progress
  <2>3. CASE stage'[s] \in {"count", "sign"}
    BY <1>1, <2>1, <2>2, <2>3 DEF LengthInv, Answered
  <2>4. CASE responses[s] = << >> /\ stage'[s] = "attempt"
    BY <1>1, <1>3, <2>1, <2>2, <2>4 DEF LengthInv, Answered
  <2>5. CASE responses[s] # << >> /\ stage'[s] = "drain401"
    BY <1>1, <2>1, <2>2, <2>5 DEF LengthInv, Answered
  <2>6. QED BY <2>1, <2>3, <2>4, <2>5
<1>7. CASE CannotSign(s) \/ Malformed(s) \/ HookFails(s) \/ DrainFails(s) \/ UpgradeRefused(s)
  <2>1. /\ stage[s] \notin Early /\ UNCHANGED <<flow, authHistory>> /\ stage'[s] = "raised"
        /\ \/ responses' = responses
           \/ CloseAndRaise(s) /\ responses[s] # << >>
    <3>1. CASE CannotSign(s)
      BY <3>1, Moves DEF CannotSign, CloseAndRaise
    <3>2. CASE Malformed(s) \/ HookFails(s) \/ DrainFails(s) \/ UpgradeRefused(s)
      BY <1>1, <3>2, Moves DEF Malformed, HookFails, DrainFails, UpgradeRefused,
         CloseAndRaise
    <3>3. QED BY <1>7, <3>1, <3>2
  <2>2. Len(responses'[s]) = Len(responses[s])
    <3>1. CASE responses' = responses
      BY <3>1
    <3>2. CASE CloseAndRaise(s) /\ responses[s] # << >>
      BY <1>2, <1>4, <3>2, Changed DEF CloseAndRaise
    <3>3. QED BY <2>1, <3>1, <3>2
  <2>3. QED BY <2>1, <2>2, LengthRaises
<1>8. CASE TakeUp(s)
  <2>1. /\ stage[s] = "judge" /\ stage'[s] = "renew" /\ UNCHANGED progress
        /\ flow[s] = "digest" /\ flow'[s] = "answered"
    BY <1>1, <1>8, Moves DEF TakeUp, Challenged, PerSender
  <2>2. QED BY <1>3, <2>1 DEF LengthInv, Answered, progress
<1>9. CASE Settle(s)
  <2>1. /\ stage[s] = "judge" /\ stage'[s] \in {"holding", "drainLast"}
        /\ UNCHANGED <<progress, flow>>
    BY <1>9, Moves DEF Settle
  <2>2. QED BY <1>3, <2>1 DEF LengthInv, Answered, progress
<1>10. CASE GiveUp(s) \/ Attempt(s) \/ TransportFails(s)
  <2>1. /\ UNCHANGED <<progress, flow>>
        /\ \/ stage[s] \in {"attempt", "wire"} /\ stage'[s] = "raised"
           \/ /\ stage[s] = "attempt" /\ stage'[s] = "wire"
              /\ ~(Len(history[s]) > MaxRedirects)
    BY <1>10, Moves DEF GiveUp, Attempt, TransportFails, TooMany
  <2>2. QED BY <1>3, <2>1 DEF LengthInv, Answered, progress
<1>11. CASE Receive(s)
  <2>1. PICK a \in Answers, n \in {nonces, nonces + 1} :
          responses' = [responses EXCEPT ![s] = Append(responses[s], Arrived(a, n))]
    BY <1>11 DEF Receive
  <2>2. Arrived(a, n) \in Response
    BY ArrivedType DEF ShapeInv
  <2>3. Len(responses'[s]) = Len(responses[s]) + 1
    BY <1>1, <2>1, <2>2, Arrives
  <2>4. stage[s] = "wire" /\ stage'[s] = "hook" /\ UNCHANGED <<history, authHistory, flow>>
    BY <1>11, Moves DEF Receive
  <2>5. QED BY <1>3, <2>3, <2>4 DEF LengthInv, Answered
<1>12. CASE Hooked(s) \/ Redirect(s)
  <2>1. /\ stage[s] = "hook" /\ Mark(s, [Latest(s) EXCEPT !.history = history[s]])
        /\ UNCHANGED <<authHistory, flow>>
        /\ \/ stage'[s] = "judge" /\ history' = history
           \/ /\ stage'[s] = "drain"
              /\ history' = [history EXCEPT ![s] = Append(history[s], Len(responses[s]))]
    BY <1>12, Moves DEF Hooked, Redirect, HistoryWith
  <2>2. [Latest(s) EXCEPT !.history = history[s]] \in Response
    BY <1>1, <1>2, <2>1, HistoryChanged
  <2>3. Len(responses'[s]) = Len(responses[s])
    BY <1>1, <1>4, <2>1, <2>2
  <2>4. stage'[s] = "drain" => Len(history'[s]) = Len(history[s]) + 1
    BY <1>1, <1>3, <2>1, AppendProperties DEF ShapeInv
  <2>5. stage[s] = "hook" /\ authHistory'[s] = authHistory[s] /\ flow'[s] = flow[s]
    BY <2>1
  <2>6. CASE stage'[s] = "judge" /\ history'[s] = history[s]
    BY <1>3, <2>3, <2>5, <2>6 DEF LengthInv, Answered
  <2>7. CASE stage'[s] = "drain"
    BY <1>3, <2>3, <2>4, <2>5, <2>7 DEF LengthInv, Answered
  <2>8. QED BY <2>1, <2>6, <2>7
<1>13. CASE Drained(s)
  <2>1. /\ stage[s] \in Draining /\ responses[s] # << >> /\ flow' = flow
        /\ stage'[s] = IF stage[s] = "drainLast" THEN "returned" ELSE "attempt"
    BY <1>1, <1>13, Moves DEF Drained
  <2>2. ReadThrough(Latest(s)) \in Response
    BY <1>2, <2>1, Changed
  <2>3. CASE stage[s] = "drain401"
    <3>1. /\ Mark(s, [ReadThrough(Latest(s)) EXCEPT !.history = authHistory[s]])
          /\ authHistory' = [authHistory EXCEPT ![s] =
                               Append(authHistory[s], Len(responses[s]))]
          /\ history' = [history EXCEPT ![s] = authHistory'[s]]
      BY <1>13, <2>3 DEF Drained
    <3>2. [ReadThrough(Latest(s)) EXCEPT !.history = authHistory[s]] \in Response
      BY <1>1, <2>2, HistoryChanged
    <3>3. Len(responses'[s]) = Len(responses[s])
      BY <1>4, <2>1, <3>1, <3>2
    <3>4. Answered(s) /\ authHistory[s] = << >> /\ Len(responses[s]) <= MaxRedirects + 1
      BY <2>3 DEF LengthInv
    <3>5. Len(Append(<< >>, Len(responses[s]))) = 1
      BY <1>3, EmptySeq, AppendProperties
    <3>6. Len(history'[s]) = 1
      BY <3>1, <3>4, <3>5 DEF ShapeInv
    <3>7. QED BY <1>3, <2>1, <2>3, <3>3, <3>4, <3>6 DEF LengthInv, Answered
  <2>4. CASE stage[s] # "drain401"
    <3>1. Mark(s, ReadThrough(Latest(s))) /\ UNCHANGED <<history, authHistory>>
      BY <1>13, <2>4 DEF Drained
    <3>2. Len(responses'[s]) = Len(responses[s])
      BY <1>4, <2>1, <2>2, <3>1
    <3>3. QED BY <1>3, <2>1, <2>4, <3>1, <3>2 DEF LengthInv, Answered
  <2>5. QED BY <2>3, <2>4
<1>14. CASE LeaveStream(s)
  <2>1. PICK all \in BOOLEAN :
          Mark(s, [Latest(s) EXCEPT !.read = all, !.closed = TRUE])
    BY <1>14 DEF LeaveStream
  <2>2. /\ stage[s] = "holding" /\ stage'[s] = "returned" /\ Latest(s) \in Response
        /\ UNCHANGED <<history, authHistory, flow>>
    BY <1>1, <1>2, <1>14, Moves DEF LeaveStream
  <2>3. [Latest(s) EXCEPT !.read = all, !.closed = TRUE] \in Response
    BY <2>2 DEF Response, Contents, Fields
  <2>4. Len(responses'[s]) = Len(responses[s])
    BY <1>1, <1>4, <2>1, <2>2, <2>3
  <2>5. QED BY <1>3, <2>2, <2>4 DEF LengthInv, Answered
<1>15. QED
  BY <1>5, <1>6, <1>7, <1>8, <1>9, <1>10, <1>11, <1>12, <1>13, <1>14 DEF Step

-----------------------------------------------------------------------------
(***************************************************************************)
(* The credentials stay with their origin, the bodies are whole.           *)
(***************************************************************************)
LEMMA ScopeOthers ==
  ASSUME NEW s \in Senders, Own(s), NEW t \in Senders, t # s, ScopeInv(t)
  PROVE  ScopeInv(t)'
BY DEF ScopeInv, IsRequest, InScope, Own

\* A redirect keeps the credentials only on the way to the same origin or to
\* its https twin, and no origin has a twin of a twin.
LEMMA RedirectInScope ==
  ASSUME NEW from, NEW r, NEW a, r.authorization # None => InScope(from, r.origin)
  PROVE  /\ IsRequest(BuildRedirectRequest(r, a))
         /\ BuildRedirectRequest(r, a).authorization # None =>
              InScope(from, BuildRedirectRequest(r, a).origin)
<1> DEFINE to == a.location
           q == BuildRedirectRequest(r, a)
<1>1. /\ IsRequest(q) /\ q.origin = to
      /\ q.authorization = RedirectAuthorization(r, to)
  BY DEF BuildRedirectRequest, IsRequest
<1>2. ASSUME RedirectAuthorization(r, to) # None
      PROVE  InScope(from, to)
  <2>1. r.authorization # None /\ (to = r.origin \/ IsHttpsRedirect(r.origin, to))
    BY <1>2 DEF RedirectAuthorization
  <2>2. InScope(from, r.origin)
    BY <2>1
  <2>3. CASE to = r.origin
    BY <2>2, <2>3
  <2>4. CASE IsHttpsRedirect(r.origin, to)
    <3>1. r.origin = from
      BY <2>2, <2>4 DEF InScope, IsHttpsRedirect
    <3>2. QED BY <2>4, <3>1 DEF InScope, IsHttpsRedirect
  <2>5. QED BY <2>1, <2>3, <2>4
<1>3. QED BY <1>1, <1>2

LEMMA ScopePlain ==
  ASSUME ShapeInv, NEW s \in Senders, ScopeInv(s), NEW p, Go(s, p), UNCHANGED <<call, outgoing>>,
         \/ p = "raised"
         \/ /\ stage[s] \notin {"idle", "open", "raised"} /\ p \notin {"prepare", "wire"}
            /\ \/ p \notin {"attempt", "hook", "drain", "drain401"}
               \/ stage[s] \in {"attempt", "wire", "hook", "drain", "drain401"}
  PROVE  ScopeInv(s)'
BY Moves DEF ScopeInv, outgoing

LEMMA ScopeStep ==
  ASSUME ShapeInv, NEW s \in Senders, ScopeInv(s), Step(s)
  PROVE  ScopeInv(s)'
<1>1. PerSender(call) /\ PerSender(original) /\ PerSender(request)
  BY DEF ShapeInv
<1> USE DEF At
<1>2. CASE Submit(s)
  <2>1. stage'[s] \in {"raised", "open"}
    BY <1>2, Moves DEF Submit
  <2>2. QED BY <2>1 DEF ScopeInv
<1>3. CASE Open(s)
  <2>1. /\ original'[s] = Asked(call[s]) /\ request'[s] = Asked(call[s])
        /\ stage'[s] = "prepare" /\ call' = call
    BY <1>1, <1>3, Moves DEF Open, PerSender
  <2>2. IsRequest(Asked(call[s])) /\ Asked(call[s]).origin = call[s].origin
    BY DEF Asked, IsRequest
  <2>3. QED BY <2>1, <2>2 DEF ScopeInv
<1>4. CASE Prepare(s)
  <2>1. /\ stage[s] = "prepare" /\ stage'[s] \in {"sign", "attempt"} /\ call' = call
        /\ \/ UNCHANGED <<original, request>>
           \/ /\ original' = [original EXCEPT ![s].authorization = "basic"]
              /\ request' = [request EXCEPT ![s] = original'[s]]
    BY <1>4, Moves DEF Prepare
  <2>2. CASE UNCHANGED <<original, request>>
    BY <2>1, <2>2 DEF ScopeInv, InScope
  <2>3. CASE /\ original' = [original EXCEPT ![s].authorization = "basic"]
             /\ request' = [request EXCEPT ![s] = original'[s]]
    <3>1. /\ original'[s] = [original[s] EXCEPT !.authorization = "basic"]
          /\ request'[s] = original'[s]
      BY <1>1, <2>3 DEF PerSender
    <3>2. IsRequest(original[s]) /\ original[s].origin = call[s].origin
      BY <2>1 DEF ScopeInv
    <3>3. IsRequest(original'[s]) /\ original'[s].origin = call[s].origin
      BY <3>1, <3>2 DEF IsRequest
    <3>4. QED BY <2>1, <3>1, <3>3 DEF ScopeInv, InScope
  <2>4. QED BY <2>1, <2>2, <2>3
<1>5. CASE Count(s)
  <2>1. /\ stage[s] = "count" /\ stage'[s] \in {"attempt", "drain401"} /\ call' = call
        /\ original' = [original EXCEPT ![s].authorization = drawn[s]]
        /\ request' = [request EXCEPT ![s] = original'[s]]
    BY <1>5, Moves DEF Count
  <2>2. /\ original'[s] = [original[s] EXCEPT !.authorization = drawn[s]]
        /\ request'[s] = original'[s]
    BY <1>1, <2>1 DEF PerSender
  <2>3. IsRequest(original[s]) /\ original[s].origin = call[s].origin
    BY <2>1 DEF ScopeInv
  <2>4. IsRequest(original'[s]) /\ original'[s].origin = call[s].origin
    BY <2>2, <2>3 DEF IsRequest
  <2>5. QED BY <2>1, <2>2, <2>4 DEF ScopeInv, InScope
<1>6. CASE Attempt(s)
  <2>1. /\ stage[s] = "attempt" /\ stage'[s] = "wire" /\ UNCHANGED <<call, original>>
        /\ ~(request[s].body = "generator" /\ spent[s])
        /\ request' = [request EXCEPT ![s].sent =
             IF request[s].body \in OneShot /\ spent[s] THEN "none" ELSE request[s].body]
    BY <1>6, Moves DEF Attempt, Refuses
  <2>2. PICK v : v = IF request[s].body \in OneShot /\ spent[s] THEN "none"
                                                                ELSE request[s].body
    OBVIOUS
  <2>3. request'[s] = [request[s] EXCEPT !.sent = v]
    BY <1>1, <2>1, <2>2 DEF PerSender
  <2>4. request[s].body # "iterator" => v = request[s].body
    BY <2>1, <2>2 DEF OneShot, Moving, Rewinds
  <2>5. IsRequest(request[s])
    BY <2>1 DEF ScopeInv
  <2>6. /\ IsRequest(request'[s]) /\ request'[s].origin = request[s].origin
        /\ request'[s].authorization = request[s].authorization
        /\ request'[s].sent = v /\ request'[s].body = request[s].body
    BY <2>3, <2>5 DEF IsRequest
  <2>7. QED BY <2>1, <2>4, <2>6 DEF ScopeInv, InScope
<1>7. CASE Redirect(s)
  <2>1. /\ stage[s] = "hook" /\ stage'[s] = "drain" /\ UNCHANGED <<call, original>>
        /\ request' = [request EXCEPT ![s] = BuildRedirectRequest(request[s], Latest(s))]
    BY <1>7, Moves DEF Redirect
  <2>2. request'[s] = BuildRedirectRequest(request[s], Latest(s))
    BY <1>1, <2>1 DEF PerSender
  <2>3. request[s].authorization # None => InScope(call[s].origin, request[s].origin)
    BY <2>1 DEF ScopeInv
  <2>4. /\ IsRequest(request'[s])
        /\ request'[s].authorization # None => InScope(call[s].origin, request'[s].origin)
    BY <2>2, <2>3, RedirectInScope
  <2>5. QED BY <2>1, <2>4 DEF ScopeInv, InScope
<1>8. CASE Drained(s)
  <2>1. /\ stage[s] \in Draining /\ UNCHANGED <<call, outgoing>>
        /\ Go(s, IF stage[s] = "drainLast" THEN "returned" ELSE "attempt")
    BY <1>8 DEF Drained
  <2>2. QED BY <2>1, ScopePlain DEF Draining
<1>9. CASE Receive(s) \/ Hooked(s) \/ LeaveStream(s)
  <2>1. /\ UNCHANGED <<call, outgoing>>
        /\ \/ stage[s] = "wire" /\ Go(s, "hook")
           \/ stage[s] \in {"hook", "holding"} /\ (Go(s, "judge") \/ Go(s, "returned"))
    BY <1>9 DEF Receive, Hooked, LeaveStream
  <2>2. QED BY <2>1, ScopePlain
<1>10. CASE Sign(s) \/ TakeUp(s) \/ Renew(s) \/ Settle(s)
  <2>1. /\ UNCHANGED <<call, outgoing>> /\ stage[s] \in {"sign", "judge", "renew"}
        /\ \/ Go(s, "count") \/ Go(s, "renew") \/ Go(s, "sign")
           \/ Go(s, "holding") \/ Go(s, "drainLast")
    BY <1>10 DEF Sign, TakeUp, Renew, Settle
  <2>2. QED BY <2>1, ScopePlain
<1>11. CASE \/ CannotSign(s) \/ Malformed(s) \/ HookFails(s) \/ DrainFails(s)
            \/ UpgradeRefused(s) \/ GiveUp(s) \/ TransportFails(s)
  <2>1. UNCHANGED <<call, outgoing>> /\ Go(s, "raised")
    BY <1>11 DEF CannotSign, Malformed, HookFails, DrainFails, UpgradeRefused, GiveUp,
       TransportFails, CloseAndRaise
  <2>2. QED BY <2>1, ScopePlain
<1>12. QED
  BY <1>2, <1>3, <1>4, <1>5, <1>6, <1>7, <1>8, <1>9, <1>10, <1>11 DEF Step

-----------------------------------------------------------------------------
(***************************************************************************)
(* The histories are readable.                                             *)
(***************************************************************************)
LEMMA HistoryOthers ==
  ASSUME NEW s \in Senders, Own(s), NEW t \in Senders, t # s, HistoryInv(t)
  PROVE  HistoryInv(t)'
<1>1. UNCHANGED <<stage[t], responses[t], history[t], authHistory[t]>>
  BY DEF Own
<1>2. UNCHANGED <<Ordered(history[t], Len(responses[t]) + 1),
                  Ordered(authHistory[t], Len(responses[t]) + 1),
                  Ordered(history[t], Len(responses[t])),
                  Ordered(authHistory[t], Len(responses[t])),
                  Latest(t)>>
  BY <1>1 DEF Ordered, Latest
<1>3. QED BY <1>1, <1>2 DEF HistoryInv

LEMMA OrderedAppend ==
  ASSUME NEW h \in Seq(Nat), NEW n \in Nat, Ordered(h, n)
  PROVE  /\ Ordered(Append(h, n), n + 1)
         /\ \A k \in DOMAIN Append(h, n) :
              Append(h, n)[k] = n \/ (k \in DOMAIN h /\ Append(h, n)[k] = h[k])
<1>1. PICK g : g = Append(h, n)
  OBVIOUS
<1>2. /\ Len(h) \in Nat /\ DOMAIN h = 1 .. Len(h) /\ DOMAIN g = 1 .. (Len(h) + 1)
      /\ g[Len(h) + 1] = n /\ \A i \in DOMAIN h : g[i] = h[i]
  BY <1>1, Longer
<1>3. \A k \in DOMAIN h : h[k] \in Nat
  BY <1>2
<1>4. \A k \in DOMAIN g : k = Len(h) + 1 \/ (k \in DOMAIN h /\ g[k] = h[k])
  BY <1>2
<1>5. \A k \in DOMAIN g : g[k] < n + 1
  BY <1>2, <1>3, <1>4 DEF Ordered
<1>6. ASSUME NEW j \in DOMAIN g, NEW k \in DOMAIN g, j < k
      PROVE  g[j] < g[k]
  <2>1. j \in DOMAIN h
    BY <1>2, <1>6
  <2>2. g[j] = h[j] /\ h[j] < n
    BY <1>2, <2>1 DEF Ordered
  <2>3. QED BY <1>2, <1>4, <1>6, <2>1, <2>2 DEF Ordered
<1>7. QED BY <1>1, <1>2, <1>4, <1>5, <1>6 DEF Ordered

LEMMA OrderedLater ==
  ASSUME NEW h \in Seq(Nat), NEW n \in Nat, Ordered(h, n)
  PROVE  Ordered(h, n + 1)
<1>1. \A k \in DOMAIN h : h[k] \in Nat
  BY LenProperties
<1>2. QED BY <1>1 DEF Ordered

LEMMA HistoryPlain ==
  ASSUME ShapeInv, NEW s \in Senders, HistoryInv(s), NEW p, Go(s, p), UNCHANGED progress,
         \/ p = "raised"
         \/ /\ stage[s] \notin {"drain", "raised"}
            /\ \/ stage[s] \in Judging <=> p \in Judging
               \/ responses[s] = << >>
            /\ p \in Settled => stage[s] \in Settled
  PROVE  HistoryInv(s)'
<1>1. stage'[s] = p /\ UNCHANGED <<responses[s], history[s], authHistory[s], Latest(s)>>
  BY Moves DEF progress, Latest
<1>2. responses[s] = << >> => DOMAIN responses[s] = {}
  OBVIOUS
<1>3. CASE p = "raised"
  BY <1>1, <1>3 DEF HistoryInv
<1>4. CASE /\ stage[s] \notin {"drain", "raised"} /\ (stage[s] \in Judging <=> p \in Judging)
           /\ p \in Settled => stage[s] \in Settled
  BY <1>1, <1>4 DEF HistoryInv, Ordered
<1>5. CASE /\ stage[s] \notin {"drain", "raised"} /\ responses[s] = << >>
           /\ p \in Settled => stage[s] \in Settled
  BY <1>1, <1>2, <1>5 DEF HistoryInv, Ordered
<1>6. QED BY <1>3, <1>4, <1>5

LEMMA HistoryRaises ==
  ASSUME ShapeInv, NEW s \in Senders, HistoryInv(s), CloseAndRaise(s), responses[s] # << >>,
         UNCHANGED <<history, authHistory>>
  PROVE  HistoryInv(s)'
<1>1. [Latest(s) EXCEPT !.closed = TRUE] \in Response
  BY LatestIs, Changed DEF ShapeInv
<1>2. Mark(s, [Latest(s) EXCEPT !.closed = TRUE]) /\ Go(s, "raised")
  BY DEF CloseAndRaise
<1>3. DOMAIN responses'[s] = DOMAIN responses[s]
  BY <1>1, <1>2, MarkLatest DEF ShapeInv
<1>4. stage'[s] = "raised"
  BY <1>2, Moves
<1>5. QED BY <1>3, <1>4 DEF HistoryInv

\* The latest response becomes r.
LEMMA HistoryMarks ==
  ASSUME ShapeInv, NEW s \in Senders, HistoryInv(s), NEW p, Go(s, p),
         stage[s] \in Judging, p \in Settled, responses[s] # << >>,
         NEW r \in Response, Mark(s, r), UNCHANGED <<history, authHistory>>,
         r.history = history[s]
  PROVE  HistoryInv(s)'
<1> DEFINE n == Len(responses[s])
<1>1. stage'[s] = p /\ stage[s] \notin {"drain", "raised"} /\ p \in Judging /\ p # "raised"
  BY Moves DEF Judging, Settled
<1>2. /\ Len(responses'[s]) = n /\ DOMAIN responses'[s] = DOMAIN responses[s]
      /\ responses'[s][n] = r /\ responses'[s] # << >>
      /\ \A i \in DOMAIN responses[s] : i # n => responses'[s][i] = responses[s][i]
      /\ responses' \in [Senders -> Seq(Response)]
  BY MarkLatest DEF ShapeInv
<1>3. Latest(s)' = r
  BY <1>2 DEF Latest, Last
<1>4. n \in Nat /\ Ordered(history[s], n) /\ Ordered(authHistory[s], n)
  BY LenProperties DEF HistoryInv, Judging, ShapeInv
<1>5. /\ \A k \in DOMAIN history[s] : history[s][k] \in Nat /\ history[s][k] < n
      /\ \A k \in DOMAIN authHistory[s] : authHistory[s][k] \in Nat /\ authHistory[s][k] < n
  <2>1. history[s] \in Seq(Nat) /\ authHistory[s] \in Seq(Nat)
    BY DEF ShapeInv
  <2>2. QED BY <1>4, <2>1, LenProperties DEF Ordered
<1>6. /\ \A k \in DOMAIN history[s] : responses'[s][history[s][k]].read = TRUE
      /\ \A k \in DOMAIN authHistory[s] : responses'[s][authHistory[s][k]].read = TRUE
  BY <1>1, <1>2, <1>5 DEF HistoryInv
<1>7. UNCHANGED <<history[s], authHistory[s]>>
  OBVIOUS
<1>8. (Ordered(history[s], Len(responses[s])) /\ Ordered(authHistory[s], Len(responses[s])))'
  BY <1>2, <1>4, <1>7 DEF Ordered
<1>9. /\ \A k \in DOMAIN history[s] : history[s][k] \in DOMAIN responses[s]
      /\ \A k \in DOMAIN authHistory[s] : authHistory[s][k] \in DOMAIN responses[s]
  BY DEF HistoryInv
<1>10. QED BY <1>1, <1>2, <1>3, <1>6, <1>7, <1>8, <1>9 DEF HistoryInv

LEMMA HistoryStep ==
  ASSUME ShapeInv, NEW s \in Senders, HistoryInv(s), Step(s)
  PROVE  HistoryInv(s)'
<1> DEFINE n == Len(responses[s])
<1>1. /\ responses \in [Senders -> Seq(Response)] /\ history[s] \in Seq(Nat)
      /\ authHistory[s] \in Seq(Nat)
      /\ stage[s] \in Answering => responses[s] # << >>
      /\ stage[s] \in Early =>
           responses[s] = << >> /\ history[s] = << >> /\ authHistory[s] = << >>
      /\ {history, authHistory} \subseteq [Senders -> Seq(Nat)]
  BY DEF ShapeInv, Answering
<1>2. responses[s] # << >> =>
        /\ Latest(s) \in Response /\ Latest(s) = responses[s][n]
        /\ n \in Nat \ {0} /\ DOMAIN responses[s] = 1 .. n
  BY <1>1, LatestIs
<1>3. n \in Nat
  BY <1>1, LenProperties
<1>4. /\ \A k \in DOMAIN history[s] : history[s][k] \in Nat
      /\ \A k \in DOMAIN authHistory[s] : authHistory[s][k] \in Nat
  BY <1>1, LenProperties
<1> USE DEF Draining, Early, Answering, At, Judging, Settled
<1>5. CASE Submit(s) \/ Open(s) \/ Prepare(s)
  <2>1. /\ stage[s] \in Early /\ UNCHANGED progress
        /\ \E p \in {"raised", "open", "prepare", "sign", "attempt"} : Go(s, p)
    BY <1>5 DEF Submit, Open, Prepare
  <2>2. QED BY <1>1, <2>1, HistoryPlain
<1>6. CASE Sign(s) \/ Count(s) \/ TakeUp(s) \/ Renew(s)
  <2>1. /\ stage[s] \in {"sign", "count", "judge", "renew"} /\ UNCHANGED progress
        /\ \/ \E p \in {"count", "sign", "renew", "drain401"} : Go(s, p)
           \/ responses[s] = << >> /\ Go(s, "attempt")
    BY <1>6 DEF Sign, Count, TakeUp, Renew
  <2>2. QED BY <2>1, HistoryPlain
<1>7. CASE CannotSign(s) \/ Malformed(s) \/ HookFails(s) \/ DrainFails(s) \/ UpgradeRefused(s)
  <2>1. CASE responses[s] = << >>
    <3>1. CannotSign(s)
      BY <1>1, <1>7, <2>1 DEF Malformed, HookFails, DrainFails, UpgradeRefused
    <3>2. Go(s, "raised") /\ UNCHANGED progress
      BY <2>1, <3>1 DEF CannotSign, progress
    <3>3. QED BY <3>2, HistoryPlain
  <2>2. CASE responses[s] # << >>
    <3>1. CloseAndRaise(s) /\ UNCHANGED <<history, authHistory>>
      BY <1>7, <2>2 DEF CannotSign, Malformed, HookFails, DrainFails, UpgradeRefused
    <3>2. QED BY <2>2, <3>1, HistoryRaises
  <2>3. QED BY <2>1, <2>2
<1>8. CASE Settle(s)
  <2>1. /\ stage[s] = "judge" /\ UNCHANGED progress
        /\ Go(s, "holding") \/ Go(s, "drainLast")
    BY <1>8 DEF Settle
  <2>2. QED BY <2>1, HistoryPlain
<1>9. CASE GiveUp(s) \/ Attempt(s) \/ TransportFails(s)
  <2>1. /\ UNCHANGED progress
        /\ Go(s, "raised") \/ (stage[s] = "attempt" /\ Go(s, "wire"))
    BY <1>9 DEF GiveUp, Attempt, TransportFails
  <2>2. QED BY <2>1, HistoryPlain
<1>10. CASE Receive(s)
  <2>1. PICK a \in Answers, m \in {nonces, nonces + 1} :
          responses' = [responses EXCEPT ![s] = Append(responses[s], Arrived(a, m))]
    BY <1>10 DEF Receive
  <2>2. Arrived(a, m) \in Response
    BY ArrivedType DEF ShapeInv
  <2>3. /\ Len(responses'[s]) = n + 1 /\ DOMAIN responses[s] = 1 .. n
        /\ DOMAIN responses'[s] = 1 .. (n + 1)
        /\ \A i \in DOMAIN responses[s] : responses'[s][i] = responses[s][i]
    BY <1>1, <2>1, <2>2, Arrives
  <2>4. stage[s] = "wire" /\ stage'[s] = "hook" /\ UNCHANGED <<history[s], authHistory[s]>>
    BY <1>10, Moves DEF Receive
  <2>5. /\ \A k \in DOMAIN history[s] : history[s][k] \in DOMAIN responses[s]
        /\ \A k \in DOMAIN authHistory[s] : authHistory[s][k] \in DOMAIN responses[s]
        /\ \A k \in DOMAIN history[s] : responses[s][history[s][k]].read = TRUE
        /\ \A k \in DOMAIN authHistory[s] : responses[s][authHistory[s][k]].read = TRUE
        /\ Ordered(history[s], n + 1) /\ Ordered(authHistory[s], n + 1)
    BY <2>4 DEF HistoryInv
  <2>6. \A i \in DOMAIN responses[s] : i \in DOMAIN responses'[s]
    BY <1>3, <2>3
  <2>7. (Ordered(history[s], Len(responses[s])) /\ Ordered(authHistory[s], Len(responses[s])))'
    BY <2>3, <2>4, <2>5 DEF Ordered
  <2>8. QED BY <2>3, <2>4, <2>5, <2>6, <2>7 DEF HistoryInv
<1>11. CASE Hooked(s)
  <2>1. /\ stage[s] = "hook" /\ Mark(s, [Latest(s) EXCEPT !.history = history[s]])
        /\ Go(s, "judge") /\ UNCHANGED <<history, authHistory>>
    BY <1>11 DEF Hooked
  <2>2. /\ [Latest(s) EXCEPT !.history = history[s]] \in Response
        /\ [Latest(s) EXCEPT !.history = history[s]].history = history[s]
    BY <1>1, <1>2, <2>1, HistoryChanged DEF Response, Fields
  <2>3. QED BY <1>1, <2>1, <2>2, HistoryMarks
<1>12. CASE Redirect(s)
  <2>1. /\ stage[s] = "hook" /\ Mark(s, [Latest(s) EXCEPT !.history = history[s]])
        /\ stage'[s] = "drain" /\ authHistory' = authHistory
        /\ history' = [history EXCEPT ![s] = Append(history[s], n)]
    BY <1>12, Moves DEF Redirect, HistoryWith
  <2>2. [Latest(s) EXCEPT !.history = history[s]] \in Response
    BY <1>1, <1>2, <2>1, HistoryChanged
  <2>3. /\ Len(responses'[s]) = n /\ DOMAIN responses'[s] = DOMAIN responses[s]
        /\ \A i \in DOMAIN responses[s] : i # n => responses'[s][i] = responses[s][i]
    BY <1>1, <2>1, <2>2, MarkLatest
  <2>4. /\ \A k \in DOMAIN history[s] : history[s][k] \in DOMAIN responses[s]
        /\ \A k \in DOMAIN authHistory[s] : authHistory[s][k] \in DOMAIN responses[s]
        /\ \A k \in DOMAIN history[s] : responses[s][history[s][k]].read = TRUE
        /\ \A k \in DOMAIN authHistory[s] : responses[s][authHistory[s][k]].read = TRUE
        /\ Ordered(history[s], n) /\ Ordered(authHistory[s], n)
    BY <1>1, <2>1 DEF HistoryInv
  <2>5. /\ \A k \in DOMAIN history[s] : history[s][k] # n
        /\ \A k \in DOMAIN authHistory[s] : authHistory[s][k] # n
    BY <1>3, <1>4, <2>4 DEF Ordered
  <2>6. PICK h : h = Append(history[s], n)
    OBVIOUS
  <2>7. /\ Ordered(h, n + 1)
        /\ \A k \in DOMAIN h : h[k] = n \/ (k \in DOMAIN history[s] /\ h[k] = history[s][k])
    BY <1>1, <1>3, <2>4, <2>6, OrderedAppend
  <2>8. history'[s] = h /\ authHistory'[s] = authHistory[s]
    BY <1>1, <2>1, <2>6
  <2>9. n \in DOMAIN responses[s]
    BY <1>1, <1>2, <2>1
  <2>10. Ordered(authHistory[s], n + 1)
    BY <1>1, <1>3, <2>4, OrderedLater
  <2>11. (Ordered(history[s], Len(responses[s]) + 1)
          /\ Ordered(authHistory[s], Len(responses[s]) + 1))'
    BY <2>3, <2>7, <2>8, <2>10 DEF Ordered
  <2>12. stage'[s] = "drain"
    BY <2>1
  <2>13. QED BY <2>3, <2>4, <2>5, <2>7, <2>8, <2>9, <2>11, <2>12 DEF HistoryInv
<1>13. CASE Drained(s)
  <2>1. /\ stage[s] \in Draining /\ responses[s] # << >>
        /\ Go(s, IF stage[s] = "drainLast" THEN "returned" ELSE "attempt")
    BY <1>1, <1>13 DEF Drained
  <2>2. /\ ReadThrough(Latest(s)) \in Response /\ ReadThrough(Latest(s)).read = TRUE
        /\ ReadThrough(Latest(s)).history = Latest(s).history
    <3>1. PICK r \in Response : r = Latest(s)
      BY <1>2, <2>1
    <3>2. /\ ReadThrough(r) \in Response /\ ReadThrough(r).read = TRUE
          /\ ReadThrough(r).history = r.history
      BY Changed DEF Fields, Response
    <3>3. QED BY <3>1, <3>2
  <2>3. n \in DOMAIN responses[s]
    BY <1>2, <2>1
  <2>4. CASE stage[s] = "drain401"
    <3>1. /\ Mark(s, [ReadThrough(Latest(s)) EXCEPT !.history = authHistory[s]])
          /\ authHistory' = [authHistory EXCEPT ![s] = Append(authHistory[s], n)]
          /\ history' = [history EXCEPT ![s] = authHistory'[s]]
      BY <1>13, <2>4 DEF Drained
    <3>2. PICK r \in Response :
            r = [ReadThrough(Latest(s)) EXCEPT !.history = authHistory[s]]
      BY <1>1, <2>2, HistoryChanged
    <3>3. r.read = TRUE
      BY <2>2, <3>2 DEF Response, Fields
    <3>4. /\ Len(responses'[s]) = n /\ DOMAIN responses'[s] = DOMAIN responses[s]
          /\ responses'[s][n] = r
          /\ \A i \in DOMAIN responses[s] : i # n => responses'[s][i] = responses[s][i]
      BY <1>1, <2>1, <3>1, <3>2, MarkLatest
    <3>5. /\ \A k \in DOMAIN authHistory[s] : authHistory[s][k] \in DOMAIN responses[s]
          /\ \A k \in DOMAIN authHistory[s] : responses[s][authHistory[s][k]].read = TRUE
          /\ Ordered(authHistory[s], n)
      BY <2>1, <2>4 DEF HistoryInv
    <3>6. PICK h : h = Append(authHistory[s], n)
      OBVIOUS
    <3>7. /\ Ordered(h, n + 1)
          /\ \A k \in DOMAIN h :
               h[k] = n \/ (k \in DOMAIN authHistory[s] /\ h[k] = authHistory[s][k])
      BY <1>1, <1>3, <3>5, <3>6, OrderedAppend
    <3>8. history'[s] = h /\ authHistory'[s] = h
      BY <1>1, <3>1, <3>6
    <3>9. \A k \in DOMAIN h : h[k] \in DOMAIN responses[s] /\ responses'[s][h[k]].read = TRUE
      BY <2>3, <3>3, <3>4, <3>5, <3>7
    <3>10. (Ordered(history[s], Len(responses[s]) + 1)
            /\ Ordered(authHistory[s], Len(responses[s]) + 1))'
      BY <3>4, <3>7, <3>8 DEF Ordered
    <3>11. stage'[s] = "attempt"
      BY <2>1, <2>4, Moves
    <3>12. QED BY <3>4, <3>8, <3>9, <3>10, <3>11 DEF HistoryInv
  <2>5. CASE stage[s] = "drain"
    <3>1. Mark(s, ReadThrough(Latest(s))) /\ UNCHANGED <<history, authHistory>>
      BY <1>13, <2>5 DEF Drained
    <3>2. /\ Len(responses'[s]) = n /\ DOMAIN responses'[s] = DOMAIN responses[s]
          /\ responses'[s][n].read = TRUE
          /\ \A i \in DOMAIN responses[s] : i # n => responses'[s][i] = responses[s][i]
      BY <1>1, <2>1, <2>2, <3>1, MarkLatest
    <3>3. stage'[s] = "attempt" /\ UNCHANGED <<history[s], authHistory[s]>>
      BY <2>1, <2>5, <3>1, Moves
    <3>4. (Ordered(history[s], Len(responses[s]) + 1)
           /\ Ordered(authHistory[s], Len(responses[s]) + 1))'
      BY <2>5, <3>2, <3>3 DEF HistoryInv, Ordered
    <3>5. QED BY <2>5, <3>2, <3>3, <3>4 DEF HistoryInv
  <2>6. CASE stage[s] = "drainLast"
    <3>1. Mark(s, ReadThrough(Latest(s))) /\ UNCHANGED <<history, authHistory>>
      BY <1>13, <2>6 DEF Drained
    <3>2. Go(s, "returned") /\ ReadThrough(Latest(s)).history = history[s]
      BY <2>1, <2>2, <2>6 DEF HistoryInv
    <3>3. QED BY <2>1, <2>2, <2>6, <3>1, <3>2, HistoryMarks
  <2>7. QED BY <2>1, <2>4, <2>5, <2>6
<1>14. CASE LeaveStream(s)
  <2>1. PICK all \in BOOLEAN :
          Mark(s, [Latest(s) EXCEPT !.read = all, !.closed = TRUE])
    BY <1>14 DEF LeaveStream
  <2>2. /\ stage[s] = "holding" /\ Go(s, "returned") /\ Latest(s) \in Response
        /\ responses[s] # << >> /\ UNCHANGED <<history, authHistory>>
    BY <1>1, <1>2, <1>14 DEF LeaveStream
  <2>3. Latest(s).history = history[s]
    BY <2>2 DEF HistoryInv
  <2>4. /\ [Latest(s) EXCEPT !.read = all, !.closed = TRUE] \in Response
        /\ [Latest(s) EXCEPT !.read = all, !.closed = TRUE].history = history[s]
    BY <2>2, <2>3 DEF Response, Contents, Fields
  <2>5. QED BY <2>1, <2>2, <2>4, HistoryMarks
<1>15. QED
  BY <1>5, <1>6, <1>7, <1>8, <1>9, <1>10, <1>11, <1>12, <1>13, <1>14 DEF Step

-----------------------------------------------------------------------------
(***************************************************************************)
(* Between two awaits a task is alone.                                     *)
(***************************************************************************)
LEMMA LoopStep ==
  ASSUME ShapeInv, LoopInv, NEW s \in Senders, Step(s), Own(s)
  PROVE  LoopInv'
<1> SUFFICES ASSUME mode' = "tasks"
             PROVE  \A t \in Senders : /\ stage'[t] \in Busy => running' = t
                                       /\ stage'[t] = "open" => state' # "closed"
  BY DEF LoopInv
<1>1. mode = "tasks" /\ (state' = state \/ (stage[s] = "open" /\ state' = "opened"))
  <2>1. CASE Open(s)
    BY <2>1 DEF Open, At
  <2>2. CASE ~Open(s)
    <3>1. UNCHANGED <<mode, state>>
      BY <2>2 DEF Step, shared, Submit, Prepare, Sign, CannotSign, Count, TakeUp, Renew,
         Malformed, Settle, GiveUp, Attempt, TransportFails, Receive, Hooked, HookFails,
         Redirect, Drained, DrainFails, UpgradeRefused, LeaveStream
    <3>2. QED BY <3>1
  <2>3. QED BY <2>1, <2>2
<1>2. MayRun(s)
  BY DEF Step, At, MayRun, Submit, Open, Prepare, Sign, CannotSign, Count, TakeUp, Renew,
     Malformed, Settle, GiveUp, Attempt, TransportFails, Receive, Hooked, HookFails,
     Redirect, Drained, DrainFails, UpgradeRefused, LeaveStream
<1>3. \E p : /\ Go(s, p)
             /\ p = "open" => state # "closed" /\ state' = state
  <2>1. CASE Submit(s)
    BY <2>1 DEF Submit, shared
  <2>2. CASE ~Submit(s)
    <3>1. \/ Go(s, "prepare") \/ Go(s, "sign") \/ Go(s, "count") \/ Go(s, "judge")
          \/ Go(s, "renew") \/ Go(s, "attempt") \/ Go(s, "wire") \/ Go(s, "hook")
          \/ Go(s, "holding") \/ Go(s, "returned") \/ Go(s, "raised") \/ Go(s, "drain")
          \/ Go(s, "drain401") \/ Go(s, "drainLast")
      <4>1. CASE Open(s) \/ Prepare(s) \/ Sign(s) \/ CannotSign(s) \/ Count(s)
        BY <4>1 DEF Open, Prepare, Sign, CannotSign, CloseAndRaise, Count
      <4>2. CASE \/ TakeUp(s) \/ Renew(s) \/ Malformed(s) \/ Settle(s) \/ GiveUp(s)
                 \/ Attempt(s) \/ TransportFails(s) \/ Receive(s)
        BY <4>2 DEF TakeUp, Renew, Malformed, CloseAndRaise, Settle, GiveUp, Attempt,
           TransportFails, Receive
      <4>3. CASE \/ Hooked(s) \/ HookFails(s) \/ Redirect(s) \/ Drained(s)
                 \/ DrainFails(s) \/ UpgradeRefused(s) \/ LeaveStream(s)
        BY <4>3 DEF Hooked, HookFails, CloseAndRaise, Redirect, Drained, DrainFails,
           UpgradeRefused, LeaveStream
      <4>4. QED BY <2>2, <4>1, <4>2, <4>3 DEF Step
    <3>2. QED BY <3>1
  <2>3. QED BY <2>1, <2>2
<1>4. PICK p : Go(s, p) /\ (p = "open" => state # "closed" /\ state' = state)
  BY <1>3
<1>5. /\ stage'[s] = p /\ running' = IF p \in Busy THEN s ELSE "nobody"
      /\ \A t \in Senders : t # s => stage'[t] = stage[t]
  BY <1>1, <1>4, Moves DEF Go, Own
<1>6. \A t \in Senders : t # s => stage[t] \notin Busy
  BY <1>1, <1>2, ClientAssumption DEF LoopInv, MayRun
<1>7. QED BY <1>4, <1>5, <1>6 DEF Busy

LEMMA RangeStep ==
  ASSUME RangeInv, Next
  PROVE  RangeInv'
<1>1. CASE Enter \/ Close \/ TransportsClosed
  BY <1>1 DEF RangeInv, Enter, Close, TransportsClosed, rest, digest
<1>2. ASSUME NEW s \in Senders, Step(s)
      PROVE  RangeInv'
  <2>1. UNCHANGED <<mode, transports>> /\ (state' = state \/ state' = "opened")
    BY <1>2 DEF Step, shared, Submit, Open, Prepare, Sign, CannotSign, Count, TakeUp, Renew,
       Malformed, Settle, GiveUp, Attempt, TransportFails, Receive, Hooked, HookFails,
       Redirect, Drained, DrainFails, UpgradeRefused, LeaveStream
  <2>2. running' \in Senders \cup {"nobody"}
    <3>1. \E p : Go(s, p)
      <4>1. CASE \/ Submit(s) \/ Open(s) \/ Prepare(s) \/ Sign(s) \/ CannotSign(s)
                 \/ Count(s) \/ TakeUp(s) \/ Renew(s) \/ Malformed(s) \/ Settle(s)
        BY <4>1 DEF Submit, Open, Prepare, Sign, CannotSign, CloseAndRaise, Count, TakeUp,
           Renew, Malformed, Settle
      <4>2. CASE \/ GiveUp(s) \/ Attempt(s) \/ TransportFails(s) \/ Receive(s)
                 \/ Hooked(s) \/ HookFails(s) \/ Redirect(s)
                 \/ Drained(s) \/ DrainFails(s) \/ UpgradeRefused(s) \/ LeaveStream(s)
        BY <4>2 DEF GiveUp, Attempt, TransportFails, Receive, Hooked, HookFails, Redirect,
           Drained, DrainFails, UpgradeRefused, LeaveStream, CloseAndRaise
      <4>3. QED BY <1>2, <4>1, <4>2 DEF Step
    <3>2. QED BY <3>1 DEF Go
  <2>3. count' \in Nat \ {0}
    <3>1. count' \in {count, 1, count + 1}
      BY <1>2 DEF Step, digest, Submit, Open, Prepare, Sign, CannotSign, Count, CountUp,
         TakeUp, Renew, Malformed, Settle, GiveUp, Attempt, TransportFails, Receive, Hooked,
         HookFails, Redirect, Drained, DrainFails, UpgradeRefused, LeaveStream
    <3>2. QED BY <3>1 DEF RangeInv
  <2>4. nonces' \in 0 .. MaxNonces
    <3>1. nonces' = nonces \/ (nonces' = nonces + 1 /\ nonces < MaxNonces)
      <4>1. CASE Receive(s) BY <4>1 DEF Receive
      <4>2. CASE ~Receive(s)
        BY <1>2, <4>2 DEF Step, shared, Submit, Open, Prepare, Sign, CannotSign, Count,
           TakeUp, Renew, Malformed, Settle, GiveUp, Attempt, TransportFails, Hooked,
           HookFails, Redirect, Drained, DrainFails, UpgradeRefused, LeaveStream
      <4>3. QED BY <4>1, <4>2
    <3>2. QED BY <3>1, ClientAssumption DEF RangeInv
  <2>5. QED BY <2>1, <2>2, <2>3, <2>4 DEF RangeInv
<1>3. QED BY <1>1, <1>2 DEF Next

-----------------------------------------------------------------------------
(***************************************************************************)
(* Nonces and counts.                                                      *)
(***************************************************************************)
\* What is known of a response stays, and what arrives has a new nonce.
Kept(s) ==
  /\ \A t \in Senders : \A i \in DOMAIN responses[t] :
       /\ i \in DOMAIN responses'[t]
       /\ responses'[t][i].status = responses[t][i].status
       /\ responses'[t][i].nonce = responses[t][i].nonce
  /\ \A t \in Senders : \A i \in DOMAIN responses'[t] :
       \/ i \in DOMAIN responses[t]
       \/ /\ t = s
          /\ responses'[t][i].status = 401 =>
               nonces' = nonces + 1 /\ responses'[t][i].nonce = nonces'
  /\ nonces' = nonces \/ nonces' = nonces + 1

LEMMA KeptPlain ==
  ASSUME NEW s \in Senders, responses' = responses, nonces' = nonces
  PROVE  Kept(s)
BY DEF Kept

LEMMA KeptMarks ==
  ASSUME ShapeInv, NEW s \in Senders, responses[s] # << >>, nonces' = nonces,
         NEW r \in Response, Mark(s, r),
         r.status = Latest(s).status, r.nonce = Latest(s).nonce
  PROVE  Kept(s)
<1>1. /\ \A t \in Senders : t # s => responses'[t] = responses[t]
      /\ DOMAIN responses'[s] = DOMAIN responses[s]
      /\ responses'[s][Len(responses[s])] = r
      /\ \A i \in DOMAIN responses[s] : i # Len(responses[s]) =>
           responses'[s][i] = responses[s][i]
  BY MarkLatest DEF ShapeInv
<1>2. Latest(s) = responses[s][Len(responses[s])]
  BY LatestIs DEF ShapeInv
<1>3. QED BY <1>1, <1>2 DEF Kept

LEMMA KeptStep ==
  ASSUME ShapeInv, NEW s \in Senders, Step(s)
  PROVE  Kept(s)
<1>1. /\ responses \in [Senders -> Seq(Response)] /\ history[s] \in Seq(Nat)
      /\ authHistory[s] \in Seq(Nat) /\ nonces \in Nat
      /\ stage[s] \in Answering => responses[s] # << >>
  BY DEF ShapeInv, Answering
<1>2. responses[s] # << >> => Latest(s) \in Response
  BY <1>1, LatestIs
<1>3. ASSUME CloseAndRaise(s), responses[s] # << >>, nonces' = nonces
      PROVE  Kept(s)
  <2>1. /\ [Latest(s) EXCEPT !.closed = TRUE] \in Response
        /\ [Latest(s) EXCEPT !.closed = TRUE].status = Latest(s).status
        /\ [Latest(s) EXCEPT !.closed = TRUE].nonce = Latest(s).nonce
    BY <1>2, <1>3, Changed DEF Response, Fields
  <2>2. QED BY <1>3, <2>1, KeptMarks DEF CloseAndRaise
<1> USE DEF Answering, Draining, At
<1>4. CASE \/ Submit(s) \/ Open(s) \/ Prepare(s) \/ Sign(s) \/ Count(s) \/ TakeUp(s)
           \/ Renew(s) \/ Settle(s) \/ GiveUp(s) \/ Attempt(s) \/ TransportFails(s)
  <2>1. responses' = responses /\ nonces' = nonces
    BY <1>4 DEF Submit, Open, Prepare, Sign, Count, TakeUp, Renew, Settle, GiveUp, Attempt,
       TransportFails, progress, shared
  <2>2. QED BY <2>1, KeptPlain
<1>5. CASE CannotSign(s) \/ Malformed(s) \/ HookFails(s) \/ DrainFails(s) \/ UpgradeRefused(s)
  <2>1. CASE responses[s] = << >>
    <3>1. CannotSign(s)
      BY <1>1, <1>5, <2>1 DEF Malformed, HookFails, DrainFails, UpgradeRefused
    <3>2. QED BY <2>1, <3>1, KeptPlain DEF CannotSign, shared
  <2>2. CASE responses[s] # << >>
    BY <1>3, <1>5, <2>2 DEF CannotSign, Malformed, HookFails, DrainFails, UpgradeRefused,
       shared
  <2>3. QED BY <2>1, <2>2
<1>6. CASE Receive(s)
  <2>1. PICK a \in Answers :
          /\ nonces' = IF a.status = 401 THEN nonces + 1 ELSE nonces
          /\ responses' = [responses EXCEPT ![s] = Append(responses[s], Arrived(a, nonces'))]
    BY <1>6 DEF Receive
  <2>2. PICK m \in Nat : m = nonces'
    BY <1>1, <2>1
  <2>3. PICK r \in Response : r = Arrived(a, m)
    BY <2>2, ArrivedType
  <2>4. r.status = a.status /\ r.nonce = m
    BY <2>3 DEF Arrived
  <2>5. /\ \A t \in Senders : t # s => responses'[t] = responses[t]
        /\ Len(responses[s]) \in Nat /\ DOMAIN responses[s] = 1 .. Len(responses[s])
        /\ DOMAIN responses'[s] = 1 .. (Len(responses[s]) + 1)
        /\ responses'[s][Len(responses[s]) + 1] = r
        /\ \A i \in DOMAIN responses[s] : responses'[s][i] = responses[s][i]
    BY <1>1, <2>1, <2>2, <2>3, Arrives
  <2>6. /\ DOMAIN responses[s] \subseteq DOMAIN responses'[s]
        /\ \A i \in DOMAIN responses'[s] :
             i \in DOMAIN responses[s] \/ i = Len(responses[s]) + 1
    BY <2>5
  <2>7. QED BY <2>1, <2>2, <2>4, <2>5, <2>6 DEF Kept
<1>7. CASE Hooked(s) \/ Redirect(s)
  <2>1. /\ stage[s] = "hook" /\ Mark(s, [Latest(s) EXCEPT !.history = history[s]])
        /\ nonces' = nonces
    BY <1>7 DEF Hooked, Redirect, shared
  <2>2. /\ [Latest(s) EXCEPT !.history = history[s]] \in Response
        /\ [Latest(s) EXCEPT !.history = history[s]].status = Latest(s).status
        /\ [Latest(s) EXCEPT !.history = history[s]].nonce = Latest(s).nonce
    BY <1>1, <1>2, <2>1, HistoryChanged DEF Response, Fields
  <2>3. QED BY <1>1, <2>1, <2>2, KeptMarks
<1>8. CASE Drained(s)
  <2>1. /\ responses[s] # << >> /\ nonces' = nonces
        /\ \/ Mark(s, [ReadThrough(Latest(s)) EXCEPT !.history = authHistory[s]])
           \/ Mark(s, ReadThrough(Latest(s)))
    BY <1>1, <1>8 DEF Drained, shared
  <2>2. PICK q \in Response : q = ReadThrough(Latest(s))
    BY <1>2, <2>1, Changed
  <2>3. q.status = Latest(s).status /\ q.nonce = Latest(s).nonce
    BY <1>2, <2>1, <2>2 DEF ReadThrough, Response, Fields
  <2>4. PICK h \in Seq(Nat) : h = authHistory[s]
    BY <1>1
  <2>5. PICK r \in Response : r = [q EXCEPT !.history = h]
    BY HistoryChanged
  <2>6. r.status = Latest(s).status /\ r.nonce = Latest(s).nonce
    BY <2>3, <2>5 DEF Response, Fields
  <2>7. Mark(s, q) \/ Mark(s, r)
    BY <2>1, <2>2, <2>4, <2>5
  <2>8. QED BY <2>1, <2>3, <2>6, <2>7, KeptMarks
<1>9. CASE LeaveStream(s)
  <2>1. PICK all \in BOOLEAN :
          Mark(s, [Latest(s) EXCEPT !.read = all, !.closed = TRUE])
    BY <1>9 DEF LeaveStream
  <2>2. responses[s] # << >> /\ nonces' = nonces /\ Latest(s) \in Response
    BY <1>1, <1>2, <1>9 DEF LeaveStream, shared
  <2>3. PICK r \in Response : r = [Latest(s) EXCEPT !.read = all, !.closed = TRUE]
    BY <2>2 DEF Response, Contents, Fields
  <2>4. r.status = Latest(s).status /\ r.nonce = Latest(s).nonce
    BY <2>2, <2>3 DEF Response, Fields
  <2>5. QED BY <2>1, <2>2, <2>3, <2>4, KeptMarks
<1>10. QED BY <1>4, <1>5, <1>6, <1>7, <1>8, <1>9 DEF Step

LEMMA NoncesStep ==
  ASSUME ShapeInv, NonceInv, NEW s \in Senders, Step(s), Own(s), Kept(s)
  PROVE  /\ \A n : Taken(n) => Taken(n)'
         /\ \A t \in Senders : \A i \in DOMAIN responses'[t] :
              responses'[t][i].status = 401 => responses'[t][i].nonce \in 1 .. nonces'
         /\ \A t, u \in Senders : \A i \in DOMAIN responses'[t], j \in DOMAIN responses'[u] :
              /\ responses'[t][i].status = 401 /\ responses'[u][j].status = 401
              /\ responses'[t][i].nonce = responses'[u][j].nonce
              => t = u
<1>1. \A t \in Senders : Answered(t) => Answered(t)'
  <2>1. ASSUME NEW t \in Senders, t # s, Answered(t)
        PROVE  Answered(t)'
    BY <2>1 DEF Answered, Own
  <2>2. ASSUME Answered(s)
        PROVE  Answered(s)'
    <3>1. stage[s] \notin Early /\ flow[s] = "answered"
      BY <2>2 DEF Answered
    <3>2. flow'[s] = "answered"
      <4>1. CASE TakeUp(s)
        BY <4>1 DEF TakeUp, ShapeInv, PerSender
      <4>2. CASE ~TakeUp(s)
        <5>1. flow' = flow
          BY <3>1, <4>2 DEF Step, Early, At, Submit, Open, Prepare, Sign, CannotSign, Count,
             Renew, Malformed, Settle, GiveUp, Attempt, TransportFails, Receive, Hooked,
             HookFails, Redirect, Drained, DrainFails, UpgradeRefused, LeaveStream
        <5>2. QED BY <3>1, <5>1
      <4>3. QED BY <4>1, <4>2
    <3>3. stage'[s] \notin Early
      <4>1. CASE \/ Sign(s) \/ CannotSign(s) \/ Count(s) \/ TakeUp(s) \/ Renew(s)
                 \/ Malformed(s) \/ Settle(s) \/ GiveUp(s) \/ Attempt(s) \/ TransportFails(s)
        BY <4>1, Moves DEF Early, Sign, CannotSign, CloseAndRaise, Count, TakeUp, Renew,
           Malformed, Settle, GiveUp, Attempt, TransportFails
      <4>2. CASE \/ Receive(s) \/ Hooked(s) \/ HookFails(s) \/ Redirect(s)
                 \/ DrainFails(s) \/ UpgradeRefused(s) \/ LeaveStream(s)
        <5>1. \/ Go(s, "hook") \/ Go(s, "judge") \/ Go(s, "raised") \/ Go(s, "drain")
              \/ Go(s, "returned")
          BY <4>2 DEF Receive, Hooked, HookFails, Redirect, DrainFails, UpgradeRefused,
             LeaveStream, CloseAndRaise
        <5>2. QED BY <5>1, Moves DEF Early
      <4>3. CASE Drained(s)
        <5>1. Go(s, "returned") \/ Go(s, "attempt")
          BY <4>3 DEF Drained
        <5>2. QED BY <5>1, Moves DEF Early
      <4>4. QED BY <3>1, <4>1, <4>2, <4>3 DEF Step, Submit, Open, Prepare, At, Early
    <3>4. QED BY <3>2, <3>3 DEF Answered
  <2>3. QED BY <2>1, <2>2
<1>2. ASSUME NEW n, Taken(n)
      PROVE  Taken(n)'
  <2>1. PICK t \in Senders : Answered(t) /\ \E i \in DOMAIN responses[t] :
                               responses[t][i].status = 401 /\ responses[t][i].nonce = n
    BY <1>2 DEF Taken
  <2>2. PICK i \in DOMAIN responses[t] :
          responses[t][i].status = 401 /\ responses[t][i].nonce = n
    BY <2>1
  <2>3. /\ Answered(t)' /\ i \in DOMAIN responses'[t]
        /\ responses'[t][i].status = 401 /\ responses'[t][i].nonce = n
    BY <1>1, <2>1, <2>2 DEF Kept
  <2>4. QED BY <2>3 DEF Taken
<1>3. nonces \in Nat /\ (nonces' = nonces \/ nonces' = nonces + 1)
  BY DEF ShapeInv, Kept
<1>4. ASSUME NEW t \in Senders, NEW i \in DOMAIN responses'[t], responses'[t][i].status = 401
      PROVE  \/ /\ i \in DOMAIN responses[t] /\ responses[t][i].status = 401
                /\ responses'[t][i].nonce = responses[t][i].nonce
                /\ responses'[t][i].nonce \in 1 .. nonces
             \/ t = s /\ nonces' = nonces + 1 /\ responses'[t][i].nonce = nonces + 1
  <2>1. CASE i \in DOMAIN responses[t]
    <3>1. /\ responses[t][i].status = 401
          /\ responses'[t][i].nonce = responses[t][i].nonce
      BY <1>4, <2>1 DEF Kept
    <3>2. responses[t][i].nonce \in 1 .. nonces
      BY <2>1, <3>1 DEF NonceInv
    <3>3. QED BY <2>1, <3>1, <3>2
  <2>2. CASE i \notin DOMAIN responses[t]
    BY <1>4, <2>2 DEF Kept
  <2>3. QED BY <2>1, <2>2
<1>5. ASSUME NEW t \in Senders, NEW u \in Senders,
             NEW i \in DOMAIN responses'[t], NEW j \in DOMAIN responses'[u],
             responses'[t][i].status = 401, responses'[u][j].status = 401,
             responses'[t][i].nonce = responses'[u][j].nonce
      PROVE  t = u
  <2>1. CASE /\ i \in DOMAIN responses[t] /\ responses[t][i].status = 401
             /\ responses'[t][i].nonce = responses[t][i].nonce
             /\ j \in DOMAIN responses[u] /\ responses[u][j].status = 401
             /\ responses'[u][j].nonce = responses[u][j].nonce
    <3>1. responses[t][i].nonce = responses[u][j].nonce
      BY <1>5, <2>1
    <3>2. \A v, w \in Senders : \A k \in DOMAIN responses[v], l \in DOMAIN responses[w] :
            /\ responses[v][k].status = 401 /\ responses[w][l].status = 401
            /\ responses[v][k].nonce = responses[w][l].nonce
            => v = w
      BY DEF NonceInv
    <3>3. QED BY <2>1, <3>1, <3>2
  <2>2. nonces + 1 \notin 1 .. nonces
    BY <1>3
  <2>3. QED BY <1>4, <1>5, <2>1, <2>2
<1>6. ASSUME NEW t \in Senders, NEW i \in DOMAIN responses'[t], responses'[t][i].status = 401
      PROVE  responses'[t][i].nonce \in 1 .. nonces'
  BY <1>3, <1>4, <1>6
<1>7. QED BY <1>2, <1>5, <1>6

\* No header is written and no challenge taken up.
LEMMA SignPlain ==
  ASSUME ShapeInv, ShapeInv', NonceInv, SignInv, NEW s \in Senders, Step(s), Own(s), Kept(s),
         UNCHANGED <<mode, digest>>,
         \/ stage'[s] \notin {"renew", "sign", "count"}
         \/ stage'[s] = "sign" /\ challenge # None
  PROVE  NonceInv' /\ SignInv'
<1>1. /\ \A n : Taken(n) => Taken(n)'
      /\ UNCHANGED <<mode, challenge, count, signed, drawn>>
  BY NoncesStep DEF digest
<1>2. ASSUME challenge' # None \/ (\E t \in Senders : stage'[t] \in {"renew", "sign", "count"})
      PROVE  Taken(challenge.nonce)
  BY <1>1, <1>2 DEF NonceInv, Own
<1>3. PICK n : n = challenge.nonce
  OBVIOUS
<1>4. ASSUME challenge' # None \/ (\E t \in Senders : stage'[t] \in {"renew", "sign", "count"})
      PROVE  Taken(challenge.nonce)'
  <2>1. Taken(n)'
    BY <1>1, <1>2, <1>3, <1>4
  <2>2. n = challenge'.nonce
    BY <1>1, <1>3
  <2>3. QED BY <2>1, <2>2 DEF Taken
<1>5. NonceInv'
  BY <1>4, NoncesStep DEF NonceInv
<1>6. ASSUME mode' = "tasks"
      PROVE  SignInv'
  <2>1. /\ signed \in Seq(Nat \X Nat) /\ IsInjective(signed)
        /\ \A e \in ToSet(signed) : Taken(e[1])
        /\ \A t \in Senders : stage[t] = "count" => drawn[t] = <<challenge.nonce, count>>
        /\ \A e \in ToSet(signed) : e[1] = challenge.nonce =>
             e[2] < count /\ \A t \in Senders : stage[t] # "renew"
    BY <1>1, <1>6 DEF SignInv
  <2>2. \A t \in Senders : stage'[t] \in {"count", "renew"} => stage[t] = stage'[t]
    BY DEF Own
  <2>3. QED BY <1>1, <2>1, <2>2 DEF SignInv
<1>7. QED BY <1>5, <1>6 DEF SignInv

\* A sender that is between two awaits is the only one that is.
LEMMA Alone ==
  ASSUME LoopInv, mode = "tasks", NEW s \in Senders, stage[s] \in Busy, Own(s)
  PROVE  \A t \in Senders : t # s => stage[t] \notin Busy /\ stage'[t] \notin Busy
BY DEF LoopInv, Own

\* What becomes of the challenge is known to have been taken up.
LEMMA NonceAfter ==
  ASSUME ShapeInv, NonceInv, NEW s \in Senders, Step(s), Own(s), Kept(s),
         Taken(challenge.nonce)'
  PROVE  NonceInv'
BY NoncesStep DEF NonceInv

LEMMA SignsTakeUp ==
  ASSUME ShapeInv, LoopInv, NonceInv, SignInv, NEW s \in Senders, TakeUp(s), Own(s), Kept(s)
  PROVE  NonceInv' /\ SignInv'
<1> DEFINE k == Len(responses[s])
<1>1. /\ stage[s] = "judge" /\ stage'[s] = "renew" /\ responses' = responses
      /\ Latest(s).status = 401 /\ flow[s] = "digest" /\ flow'[s] = "answered"
      /\ challenge'.nonce = Latest(s).nonce /\ signed' = signed /\ mode' = mode
      /\ responses[s] # << >>
  BY Moves DEF TakeUp, At, Challenged, shared, progress, ShapeInv, PerSender
<1>2. Latest(s) = responses[s][k] /\ k \in DOMAIN responses[s]
  BY <1>1, LatestIs DEF ShapeInv
<1>3. PICK n : n = Latest(s).nonce
  OBVIOUS
<1>4. ~Taken(n)
  <2>1. SUFFICES ASSUME Taken(n)
                 PROVE  FALSE
    OBVIOUS
  <2>2. PICK t \in Senders : Answered(t) /\ \E i \in DOMAIN responses[t] :
                               responses[t][i].status = 401 /\ responses[t][i].nonce = n
    BY <2>1 DEF Taken
  <2>3. PICK i \in DOMAIN responses[t] :
          responses[t][i].status = 401 /\ responses[t][i].nonce = n
    BY <2>2
  <2>4. \A v, w \in Senders : \A j \in DOMAIN responses[v], l \in DOMAIN responses[w] :
          /\ responses[v][j].status = 401 /\ responses[w][l].status = 401
          /\ responses[v][j].nonce = responses[w][l].nonce
          => v = w
    BY DEF NonceInv
  <2>5. t = s
    BY <1>1, <1>2, <1>3, <2>3, <2>4
  <2>6. QED BY <1>1, <2>2, <2>5 DEF Answered
<1>5. Taken(n)'
  BY <1>1, <1>2, <1>3 DEF Taken, Answered, Early
<1>6. Taken(challenge.nonce)'
  BY <1>1, <1>3, <1>5 DEF Taken
<1>7. Step(s)
  BY DEF Step
<1>8. NonceInv'
  BY <1>6, <1>7, NonceAfter
<1>9. ASSUME mode' = "tasks"
      PROVE  SignInv'
  <2>1. /\ signed \in Seq(Nat \X Nat) /\ IsInjective(signed)
        /\ \A e \in ToSet(signed) : Taken(e[1])
    BY <1>1, <1>9 DEF SignInv
  <2>2. \A e \in ToSet(signed) : Taken(e[1])'
    BY <1>7, <2>1, NoncesStep
  <2>3. \A t \in Senders : stage'[t] # "count"
    BY <1>1, <1>9, Alone DEF Busy
  <2>4. \A e \in ToSet(signed) : e[1] # challenge'.nonce
    BY <1>1, <1>3, <1>4, <2>1
  <2>5. QED BY <1>1, <2>1, <2>2, <2>3, <2>4 DEF SignInv
<1>10. QED BY <1>8, <1>9 DEF SignInv

\* Renew(s) and Sign(s) keep the challenge and what was signed.
LEMMA SignsRenewOrSign ==
  ASSUME ShapeInv, LoopInv, NonceInv, SignInv, NEW s \in Senders, Renew(s) \/ Sign(s),
         Own(s), Kept(s)
  PROVE  NonceInv' /\ SignInv'
<1>1. /\ stage[s] \in {"renew", "sign"} /\ challenge' = challenge /\ signed' = signed
      /\ mode' = mode /\ Step(s)
  BY DEF Renew, Sign, At, shared, Step
<1>2. PICK n : n = challenge.nonce
  OBVIOUS
<1>3. Taken(n)
  BY <1>1, <1>2 DEF NonceInv
<1>4. Taken(n)'
  BY <1>1, <1>3, NoncesStep
<1>5. Taken(challenge.nonce)'
  BY <1>1, <1>2, <1>4 DEF Taken
<1>6. NonceInv'
  BY <1>1, <1>5, NonceAfter
<1>7. ASSUME mode' = "tasks"
      PROVE  SignInv'
  <2>1. /\ signed \in Seq(Nat \X Nat) /\ IsInjective(signed)
        /\ \A e \in ToSet(signed) : Taken(e[1])
        /\ \A e \in ToSet(signed) : e[1] = challenge.nonce =>
             e[2] < count /\ \A t \in Senders : stage[t] # "renew"
    BY <1>1, <1>7 DEF SignInv
  <2>2. \A e \in ToSet(signed) : Taken(e[1])'
    BY <1>1, <2>1, NoncesStep
  <2>3. \A t \in Senders : t # s => stage'[t] \notin {"count", "renew"}
    BY <1>1, <1>7, Alone DEF Busy
  <2>4. CASE Renew(s)
    <3>1. stage[s] = "renew" /\ stage'[s] = "sign" /\ count' = 1
      BY <2>4, Moves DEF Renew, At
    <3>2. QED BY <1>1, <2>1, <2>2, <2>3, <3>1 DEF SignInv
  <2>5. CASE Sign(s)
    <3>1. /\ stage'[s] = "count" /\ drawn'[s] = <<challenge.nonce, count>>
          /\ count' = count
      BY <2>5, Moves DEF Sign, ShapeInv, PerSender
    <3>2. QED BY <1>1, <2>1, <2>2, <2>3, <3>1 DEF SignInv
  <2>6. QED BY <1>7, <2>4, <2>5
<1>8. QED BY <1>6, <1>7 DEF SignInv

\* The count that is written is greater than those the challenge had before.
LEMMA SignsCount ==
  ASSUME ShapeInv, RangeInv, LoopInv, NonceInv, SignInv, NEW s \in Senders, Count(s),
         Own(s), Kept(s)
  PROVE  NonceInv' /\ SignInv'
<1>1. /\ stage[s] = "count" /\ challenge' = challenge /\ mode' = mode /\ Step(s)
      /\ stage'[s] \in {"attempt", "drain401"} /\ responses' = responses
      /\ count' = count + 1 /\ signed' = Append(signed, drawn[s])
  BY Moves DEF Count, At, shared, progress, Step, CountUp
<1>2. PICK n : n = challenge.nonce
  OBVIOUS
<1>3. Taken(n)
  BY <1>1, <1>2 DEF NonceInv
<1>4. Taken(n)'
  BY <1>1, <1>3, NoncesStep
<1>5. Taken(challenge.nonce)'
  BY <1>1, <1>2, <1>4 DEF Taken
<1>6. NonceInv'
  BY <1>1, <1>5, NonceAfter
<1>7. ASSUME mode' = "tasks"
      PROVE  SignInv'
  <2>1. /\ signed \in Seq(Nat \X Nat) /\ IsInjective(signed)
        /\ \A e \in ToSet(signed) : Taken(e[1])
        /\ drawn[s] = <<n, count>>
        /\ \A e \in ToSet(signed) : e[1] = n => e[2] < count
    BY <1>1, <1>2, <1>7 DEF SignInv
  <2>2. n \in Nat /\ count \in Nat
    BY <1>3 DEF Taken, NonceInv, RangeInv
  <2>3. PICK d \in Nat \X Nat : d = <<n, count>>
    BY <2>2
  <2>4. d[1] = n /\ d[2] = count
    BY <2>3
  <2>5. d \notin ToSet(signed)
    BY <2>1, <2>2, <2>4
  <2>6. /\ signed' \in Seq(Nat \X Nat) /\ ToSet(signed') = ToSet(signed) \cup {d}
        /\ IsInjective(signed')
    BY <1>1, <2>1, <2>3, <2>5, AppendList
  <2>7. \A e \in ToSet(signed') : Taken(e[1])'
    BY <1>1, <1>4, <2>1, <2>4, <2>6, NoncesStep
  <2>8. \A t \in Senders : stage'[t] \notin {"count", "renew"}
    BY <1>1, <1>7, Alone DEF Busy
  <2>9. \A e \in ToSet(signed) : e \in Nat \X Nat
    BY <2>1, Elements
  <2>10. \A e \in ToSet(signed') : e[1] = n => e[2] < count'
    <3>1. \A e \in ToSet(signed) : e[1] = n => e[2] < count + 1
      BY <2>1, <2>2, <2>9
    <3>2. QED BY <1>1, <2>2, <2>4, <2>6, <3>1
  <2>11. QED BY <1>1, <1>2, <2>6, <2>7, <2>8, <2>10 DEF SignInv
<1>8. QED BY <1>6, <1>7 DEF SignInv

LEMMA SignStep ==
  ASSUME ShapeInv, ShapeInv', RangeInv, LoopInv, NonceInv, SignInv,
         NEW s \in Senders, Step(s), Own(s), Kept(s)
  PROVE  NonceInv' /\ SignInv'
<1>1. CASE TakeUp(s) BY <1>1, SignsTakeUp
<1>2. CASE Renew(s) \/ Sign(s) BY <1>2, SignsRenewOrSign
<1>3. CASE Count(s) BY <1>3, SignsCount
<1>4. CASE Prepare(s)
  <2>1. /\ UNCHANGED <<mode, digest>>
        /\ Go(s, "attempt") \/ (Go(s, "sign") /\ challenge # None)
    BY <1>4 DEF Prepare, shared
  <2>2. \/ stage'[s] \notin {"renew", "sign", "count"}
        \/ stage'[s] = "sign" /\ challenge # None
    BY <2>1, Moves
  <2>3. QED BY <2>1, <2>2, SignPlain
<1>5. CASE \/ Submit(s) \/ Open(s) \/ CannotSign(s) \/ Malformed(s) \/ Settle(s)
           \/ GiveUp(s) \/ Attempt(s) \/ TransportFails(s) \/ Receive(s)
  <2>1. /\ UNCHANGED <<mode, digest>>
        /\ \/ Go(s, "raised") \/ Go(s, "open") \/ Go(s, "prepare") \/ Go(s, "holding")
           \/ Go(s, "drainLast") \/ Go(s, "wire") \/ Go(s, "hook")
    BY <1>5 DEF Submit, Open, CannotSign, CloseAndRaise, Malformed, Settle, GiveUp, Attempt,
       TransportFails, Receive, shared
  <2>2. stage'[s] \notin {"renew", "sign", "count"}
    BY <2>1, Moves
  <2>3. QED BY <2>1, <2>2, SignPlain
<1>6. CASE \/ Hooked(s) \/ HookFails(s) \/ Redirect(s) \/ Drained(s) \/ DrainFails(s)
           \/ UpgradeRefused(s) \/ LeaveStream(s)
  <2>1. /\ UNCHANGED <<mode, digest>>
        /\ \/ Go(s, "judge") \/ Go(s, "raised") \/ Go(s, "drain") \/ Go(s, "returned")
           \/ Go(s, "attempt")
    BY <1>6 DEF Hooked, HookFails, CloseAndRaise, Redirect, Drained, DrainFails,
       UpgradeRefused, LeaveStream, shared
  <2>2. stage'[s] \notin {"renew", "sign", "count"}
    BY <2>1, Moves
  <2>3. QED BY <2>1, <2>2, SignPlain
<1>7. QED BY <1>1, <1>2, <1>3, <1>4, <1>5, <1>6 DEF Step

-----------------------------------------------------------------------------
(***************************************************************************)
(* The invariant holds in every reachable state.                           *)
(***************************************************************************)
SendInv(s) == LeakInv(s) /\ LengthInv(s) /\ ScopeInv(s) /\ HistoryInv(s)

IInv ==
  /\ ShapeInv /\ RangeInv /\ LoopInv /\ NonceInv /\ SignInv
  /\ \A s \in Senders : SendInv(s)

LEMMA InitInv == Init => IInv
<1> SUFFICES ASSUME Init
             PROVE  IInv
  OBVIOUS
<1>1. /\ << >> \in Seq(Response) /\ << >> \in Seq(Nat) /\ << >> \in Seq(Nat \X Nat)
      /\ DOMAIN << >> = {} /\ Len(<< >>) = 0 /\ ToSet(<< >>) = {} /\ IsInjective(<< >>)
  BY EmptyList
<1>2. /\ \A s \in Senders : /\ stage[s] = "idle" /\ responses[s] = << >>
                            /\ history[s] = << >> /\ authHistory[s] = << >>
      /\ mode \in Modes /\ state = "unopened" /\ transports = "open" /\ challenge = None
      /\ count = 1 /\ nonces = 0 /\ signed = << >> /\ running = "nobody"
  BY DEF Init
<1>3. ShapeInv
  <2>1. /\ stage \in [Senders -> Stages] /\ responses \in [Senders -> Seq(Response)]
        /\ {history, authHistory} \subseteq [Senders -> Seq(Nat)]
    BY <1>1 DEF Init, Stages
  <2>2. /\ PerSender(call) /\ PerSender(original) /\ PerSender(request)
        /\ PerSender(spent) /\ PerSender(flow) /\ PerSender(drawn)
    BY DEF Init, PerSender
  <2>3. QED BY <1>2, <2>1, <2>2 DEF ShapeInv, Draining
<1>4. RangeInv
  BY <1>2, ClientAssumption DEF RangeInv
<1>5. LoopInv
  BY <1>2 DEF LoopInv, Busy
<1>6. NonceInv
  BY <1>1, <1>2 DEF NonceInv
<1>7. SignInv
  BY <1>1, <1>2 DEF SignInv
<1>8. ASSUME NEW s \in Senders
      PROVE  SendInv(s)
  <2>1. LeakInv(s)
    BY <1>1, <1>2 DEF LeakInv
  <2>2. LengthInv(s)
    <3>1. MaxRedirects \in Nat /\ 0 <= 2 * MaxRedirects + 1
      BY ClientAssumption
    <3>2. QED BY <1>1, <1>2, <3>1 DEF LengthInv, Answered, Early
  <2>3. ScopeInv(s)
    BY <1>2 DEF ScopeInv
  <2>4. HistoryInv(s)
    BY <1>1, <1>2 DEF HistoryInv, Ordered, Judging, Settled
  <2>5. QED BY <2>1, <2>2, <2>3, <2>4 DEF SendInv
<1>9. QED BY <1>3, <1>4, <1>5, <1>6, <1>7, <1>8 DEF IInv

LEMMA OwnerInv ==
  ASSUME IInv, UNCHANGED rest, RangeInv', LoopInv'
  PROVE  IInv'
<1>1. UNCHANGED <<mode, nonces, challenge, count, signed, drawn, running, stage, call,
                  original, request, spent, flow, responses, history, authHistory>>
  BY DEF rest, digest, outgoing, progress
<1>2. ShapeInv'
  BY <1>1 DEF IInv, ShapeInv, PerSender
<1>3. NonceInv' /\ SignInv'
  BY <1>1 DEF IInv, NonceInv, SignInv, Taken, Answered
<1>4. ASSUME NEW s \in Senders
      PROVE  SendInv(s)'
  <2>1. SendInv(s)
    BY DEF IInv
  <2>2. LeakInv(s)' /\ LengthInv(s)'
    BY <1>1, <2>1 DEF SendInv, LeakInv, LengthInv, Answered
  <2>3. ScopeInv(s)'
    BY <1>1, <2>1 DEF SendInv, ScopeInv, IsRequest, InScope
  <2>4. HistoryInv(s)'
    BY <1>1, <2>1 DEF SendInv, HistoryInv, Ordered, Latest
  <2>5. QED BY <2>2, <2>3, <2>4 DEF SendInv
<1>5. QED BY <1>2, <1>3, <1>4 DEF IInv

LEMMA NextInv ==
  ASSUME IInv, [Next]_vars
  PROVE  IInv'
<1>1. ASSUME NEW s \in Senders, Step(s)
      PROVE  IInv'
  <2>1. ShapeInv /\ RangeInv /\ LoopInv /\ NonceInv /\ SignInv
    BY DEF IInv
  <2>2. ShapeInv' /\ Own(s) /\ Kept(s)
    BY <1>1, <2>1, ShapeStep, KeptStep
  <2>3. RangeInv'
    BY <1>1, <2>1, RangeStep DEF Next
  <2>4. LoopInv'
    BY <1>1, <2>1, <2>2, LoopStep
  <2>5. NonceInv' /\ SignInv'
    BY <1>1, <2>1, <2>2, SignStep
  <2>6. ASSUME NEW t \in Senders
        PROVE  SendInv(t)'
    <3>1. SendInv(t)
      BY DEF IInv
    <3>2. CASE t = s
      BY <1>1, <2>1, <3>1, <3>2, LeakStep, LengthStep, ScopeStep, HistoryStep DEF SendInv
    <3>3. CASE t # s
      BY <2>2, <3>1, <3>3, LeakOthers, LengthOthers, ScopeOthers, HistoryOthers DEF SendInv
    <3>4. QED BY <3>2, <3>3
  <2>7. QED BY <2>2, <2>3, <2>4, <2>5, <2>6 DEF IInv
<1>2. ASSUME Enter \/ Close \/ TransportsClosed
      PROVE  IInv'
  <2>1. UNCHANGED rest
    BY <1>2 DEF Enter, Close, TransportsClosed
  <2>2. RangeInv'
    BY <1>2, RangeStep DEF Next, IInv
  <2>3. LoopInv'
    <3>1. UNCHANGED <<mode, running, stage>> /\ running = "nobody"
          /\ (state' = "closed" \/ state' = "opened" \/ state' = state)
      BY <1>2 DEF Enter, Close, TransportsClosed, rest
    <3>2. mode = "tasks" => \A s \in Senders : stage[s] \notin Busy
      BY <3>1, ClientAssumption DEF IInv, LoopInv
    <3>3. QED BY <3>1, <3>2 DEF LoopInv, Busy
  <2>4. QED BY <2>1, <2>2, <2>3, OwnerInv
<1>3. ASSUME UNCHANGED vars
      PROVE  IInv'
  <2>1. UNCHANGED rest /\ UNCHANGED <<mode, state, transports, nonces, count, running, stage>>
    BY <1>3 DEF vars, rest, shared, digest
  <2>2. RangeInv' /\ LoopInv'
    BY <2>1 DEF IInv, RangeInv, LoopInv
  <2>3. QED BY <2>1, <2>2, OwnerInv
<1>4. QED BY <1>1, <1>2, <1>3 DEF Next

LEMMA Invariance == Spec => []IInv
<1>1. IInv /\ [Next]_vars => IInv'
  BY NextInv
<1>2. QED BY InitInv, <1>1, PTL DEF Spec

-----------------------------------------------------------------------------
(***************************************************************************)
(* The theorems.                                                           *)
(***************************************************************************)
\* Every state has the shape the model means, and the histories refer to
\* responses there are.
THEOREM TypeCorrect == Spec => []TypeOK
<1>1. ASSUME IInv
      PROVE  TypeOK
  <2>1. ASSUME NEW s \in Senders
        PROVE  /\ stage[s] \in Stages
               /\ Range(history[s]) \subseteq DOMAIN responses[s]
               /\ Range(authHistory[s]) \subseteq DOMAIN responses[s]
    <3>1. stage[s] \in Stages /\ HistoryInv(s)
      BY <1>1 DEF IInv, SendInv, ShapeInv
    <3>2. QED BY <3>1 DEF HistoryInv, Range
  <2>2. challenge # None => challenge.nonce \in 1 .. nonces
    BY <1>1 DEF IInv, NonceInv, Taken
  <2>3. QED BY <1>1, <2>1, <2>2 DEF IInv, RangeInv, TypeOK
<1>2. QED BY <1>1, Invariance, PTL

\* However send() ends, no response stays open but the one a user holds, and
\* what came before the latest response is closed before the next request.
THEOREM NothingLeaks == Spec => []NoLeak
<1>1. ASSUME IInv
      PROVE  NoLeak
  <2>1. ASSUME NEW s \in Senders, NEW i \in DOMAIN responses[s], ~responses[s][i].closed
        PROVE  /\ i = Len(responses[s])
               /\ stage[s] \notin {"attempt", "wire", "returned", "raised"}
               /\ stage[s] = "holding" => Streams(call[s])
    <3>1. LeakInv(s)
      BY <1>1 DEF IInv, SendInv
    <3>2. QED BY <2>1, <3>1 DEF LeakInv, Reading, Draining
  <2>2. QED BY <2>1 DEF NoLeak
<1>2. QED BY <1>1, Invariance, PTL

\* The history of a returned response holds responses that were read, in the
\* order they came and all of them before it.
THEOREM HistoriesAreReadable == Spec => []HistoryReadable
<1>1. ASSUME IInv
      PROVE  HistoryReadable
  <2>1. ASSUME NEW s \in Senders, stage[s] = "returned"
        PROVE  /\ \A k \in DOMAIN Latest(s).history :
                    /\ responses[s][Latest(s).history[k]].read
                    /\ Latest(s).history[k] < Len(responses[s])
               /\ \A j, k \in DOMAIN Latest(s).history :
                    j < k => Latest(s).history[j] < Latest(s).history[k]
    <3>1. HistoryInv(s) /\ responses[s] # << >>
      BY <1>1, <2>1 DEF IInv, SendInv, ShapeInv
    <3>2. Latest(s).history = history[s] /\ Ordered(history[s], Len(responses[s]))
      BY <2>1, <3>1 DEF HistoryInv, Settled, Judging
    <3>3. \A k \in DOMAIN history[s] : responses[s][history[s][k]].read = TRUE
      BY <2>1, <3>1 DEF HistoryInv
    <3>4. QED BY <3>2, <3>3 DEF Ordered
  <2>2. QED BY <2>1 DEF HistoryReadable
<1>2. QED BY <1>1, Invariance, PTL

\* Credentials never reach another origin than the one they were written for,
\* or its https twin.
THEOREM CredentialsStayInScope == Spec => []AuthorizationScoped
<1>1. ASSUME IInv
      PROVE  AuthorizationScoped
  <2>1. \A s \in Senders : ScopeInv(s)
    BY <1>1 DEF IInv, SendInv
  <2>2. QED BY <2>1 DEF ScopeInv, InScope, AuthorizationScoped
<1>2. QED BY <1>1, Invariance, PTL

\* A request that has a body other than a plain iterator sends all of it.
THEOREM BodiesAreWhole == Spec => []BodyWhole
<1>1. ASSUME IInv
      PROVE  BodyWhole
  <2>1. \A s \in Senders : ScopeInv(s)
    BY <1>1 DEF IInv, SendInv
  <2>2. QED BY <2>1 DEF ScopeInv, BodyWhole
<1>2. QED BY <1>1, Invariance, PTL

\* However the servers mix redirects and challenges, send() stops after
\* 2 * max_redirects + 1 responses.
THEOREM SendIsBounded == Spec => []RequestsBounded
<1>1. ASSUME IInv
      PROVE  RequestsBounded
  BY <1>1 DEF IInv, SendInv, LengthInv, RequestsBounded
<1>2. QED BY <1>1, Invariance, PTL

\* However many tasks share a DigestAuth, no nonce goes out twice with the
\* same count.
THEOREM NoNonceCountTwice == Spec => []NonceCountsFresh
<1>1. ASSUME IInv
      PROVE  NonceCountsFresh
  BY <1>1 DEF IInv, SignInv, NonceCountsFresh
<1>2. QED BY <1>1, Invariance, PTL

\* A send() on its way never opens an AsyncClient that was closed: it checks
\* and opens in one piece, between two awaits.
THEOREM ClosedForGood == Spec => StaysClosed
<1>1. ASSUME IInv, [Next]_vars
      PROVE  [mode = "tasks" /\ state = "closed" => state' = "closed"]_vars
  <2>1. SUFFICES ASSUME mode = "tasks", state = "closed"
                 PROVE  state' = "closed"
    OBVIOUS
  <2>2. ASSUME NEW s \in Senders, Step(s)
        PROVE  state' = "closed"
    <3>1. stage[s] # "open"
      BY <1>1, <2>1 DEF IInv, LoopInv
    <3>2. state' = state
      BY <2>2, <3>1 DEF Step, At, shared, Submit, Open, Prepare, Sign, CannotSign, Count,
         TakeUp, Renew, Malformed, Settle, GiveUp, Attempt, TransportFails, Receive, Hooked,
         HookFails, Redirect, Drained, DrainFails, UpgradeRefused, LeaveStream
    <3>3. QED BY <2>1, <3>2
  <2>3. CASE Enter \/ Close \/ TransportsClosed
    BY <2>1, <2>3 DEF Enter, Close, TransportsClosed
  <2>4. CASE UNCHANGED vars
    BY <2>1, <2>4 DEF vars, shared
  <2>5. QED BY <1>1, <2>2, <2>3, <2>4 DEF Next
<1>2. QED BY <1>1, Invariance, PTL DEF Spec, StaysClosed

=============================================================================
