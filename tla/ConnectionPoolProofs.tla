------------------------ MODULE ConnectionPoolProofs ------------------------
(***************************************************************************)
(* Theorems about ConnectionPool, for any number of tasks, connections and *)
(* origins and any limits.  The first part holds with and without HTTP/2,  *)
(* for coroutines and for threads; the second is about a pool of HTTP/1.1  *)
(* connections that coroutines share.                                      *)
(***************************************************************************)
EXTENDS ConnectionPool, SequenceLemmas, FiniteSetTheorems

-----------------------------------------------------------------------------
(***************************************************************************)
(* The inductive invariant, part one: the queue and the pass.              *)
(***************************************************************************)
\* The stages at which a request certainly is in the queue.
Queued == {"assign", "waiting", "connect", "connecting", "send", "init",
           "preface", "permit", "active", "body", "leaving"}

QueueInv ==
  /\ \A r \in Requests : pc[r] \in Queued => r \in InFlight
  /\ \A r \in Requests : pc[r] \in {"start", "done"} => r \notin InFlight
  /\ \A k \in Closers : pc[k] \in {"start", "closing", "done"}

OneScanner ==
  \A r, s \in Requests : pc[r] \in Scanning /\ pc[s] \in Scanning => r = s

At(stages) == \E r \in Requests : pc[r] \in stages

\* While the pass copies from todo to kept, to avail, nothing is copied twice.
Splits(s, t) ==
  IsInjective(s) /\ IsInjective(t) /\ ToSet(s) \cap ToSet(t) = {}

CleanInv ==
  At({"sweep", "trim"}) =>
    /\ Splits(scan.kept, scan.todo)
    /\ Len(scan.kept) + Len(scan.todo) <= MaxConnections
    /\ scan.avail = << >>

OfferInv ==
  /\ At({"snapshot", "match", "taken"}) =>
       /\ scan.budget = MaxConnections - Len(connections)
       /\ IsInjective(scan.avail)
       /\ ToSet(scan.avail) \subseteq Pooled
  /\ At({"snapshot"}) =>
       Splits(scan.avail, scan.todo) /\ ToSet(scan.todo) \subseteq Pooled
  /\ At({"taken"}) => scan.hit \in DOMAIN scan.avail

PassInv ==
  /\ OneScanner
  /\ IsInjective(connections)
  /\ CleanInv
  /\ OfferInv
  /\ PoolBounded

-----------------------------------------------------------------------------
(***************************************************************************)
(* Part two: who uses a connection.                                        *)
(***************************************************************************)
Holding == {"connect", "connecting", "send", "init", "preface", "permit",
            "active", "body"}

Multiplexing == {"init", "preface", "permit"}

Sending == Multiplexing \cup {"send", "active", "body"}

\* A request at work has a connection, which is made while it connects and
\* there once it sends; an HTTP/1.1 exchange keeps its connection busy.
Sound(r) ==
  /\ pc[r] \in Holding => conn[r] # None
  /\ pc[r] = "connecting" => link[conn[r]].inner = "none"
  /\ pc[r] \in Sending => link[conn[r]].inner # "none"
  /\ pc[r] \in Multiplexing => link[conn[r]].proto = "h2"
  /\ pc[r] \in {"active", "body"} /\ link[conn[r]].proto = "h11" =>
       link[conn[r]].inner \in {"ACTIVE", "CLOSED"}

OneConnector ==
  \A r, s \in Requests :
    pc[r] = "connecting" /\ pc[s] = "connecting" /\ conn[r] = conn[s] => r = s

UseInv == (\A r \in Requests : Sound(r)) /\ OneConnector /\ ExclusiveUse

PInv == TypeOK /\ QueueInv /\ PassInv

IInv == PInv /\ UseInv

-----------------------------------------------------------------------------
(***************************************************************************)
(* Types of what the operators return.                                     *)
(***************************************************************************)
LEMMA FirstIn ==
  ASSUME NEW S \in SUBSET Nat, S # {}
  PROVE  First(S) \in S
<1>1. PICK n \in S : \A m \in S : n <= m BY LeastNat
<1>2. QED BY <1>1 DEF First

LEMMA GotoType ==
  ASSUME TypeOK, NEW t \in Tasks, NEW stage \in Stages, Goto(t, stage),
         t \in Requests \/ stage \in {"start", "closing", "done"}
  PROVE  /\ pc' = [pc EXCEPT ![t] = stage]
         /\ pc' \in [Tasks -> Stages]
         /\ running' \in Requests \cup {None}
<1>1. pc' = [pc EXCEPT ![t] = stage] /\ pc' \in [Tasks -> Stages]
  BY DEF TypeOK, Goto
<1>2. stage \in {"start", "closing", "done"} => ~ KeepsLoop(t, stage)
  BY DEF KeepsLoop, Scanning
<1>3. running' \in Requests \cup {None}
  BY <1>2 DEF Goto
<1>4. QED BY <1>1, <1>3

LEMMA LinkTypes ==
  ASSUME NEW l \in Link
  PROVE  /\ Shut(l) \in Link
         /\ \A b \in BOOLEAN : Closed11(l, b) \in Link
         /\ \A S : Closed2(l, S) \in Link
         /\ \A b \in Faults(l) : [l EXCEPT !.broken = b] \in Link
         /\ [l EXCEPT !.broken = "goaway"] \in Link
         /\ [l EXCEPT !.failed = TRUE] \in Link
         /\ [l EXCEPT !.expired = TRUE] \in Link
         /\ [l EXCEPT !.ready = TRUE] \in Link
         /\ [l EXCEPT !.inner = "ACTIVE", !.expired = FALSE] \in Link
         /\ \A p \in {"h11", "h2"} :
              [l EXCEPT !.proto = p, !.open = TRUE,
                        !.inner = IF p = "h2" THEN "IDLE" ELSE "NEW"] \in Link
<1>1. Shut(l) \in Link BY DEF Shut, Link
<1>2. \A b \in BOOLEAN : Closed11(l, b) \in Link BY <1>1 DEF Closed11, Link
<1>3. \A S : Closed2(l, S) \in Link BY <1>1 DEF Closed2, Link
<1>4. \A b \in Faults(l) : [l EXCEPT !.broken = b] \in Link BY DEF Faults, Link
<1>5. /\ [l EXCEPT !.broken = "goaway"] \in Link
      /\ [l EXCEPT !.failed = TRUE] \in Link
      /\ [l EXCEPT !.expired = TRUE] \in Link
      /\ [l EXCEPT !.ready = TRUE] \in Link
      /\ [l EXCEPT !.inner = "ACTIVE", !.expired = FALSE] \in Link
  BY DEF Link
<1>6. \A p \in {"h11", "h2"} :
        [l EXCEPT !.proto = p, !.open = TRUE,
                  !.inner = IF p = "h2" THEN "IDLE" ELSE "NEW"] \in Link
  BY DEF Link
<1>7. QED BY <1>1, <1>2, <1>3, <1>4, <1>5, <1>6

LEMMA ResponseClosedType ==
  ASSUME NEW r, NEW l \in Link, NEW b \in BOOLEAN
  PROVE  ResponseClosed(r, l, b) \in Link
BY LinkTypes DEF ResponseClosed

LEMMA EmptyScanType ==
  EmptyScan \in Scan /\ EmptyScan.kept = << >> /\ EmptyScan.avail = << >>
<1>1. << >> \in Seq(Conns) BY EmptyList
<1>2. QED BY <1>1 DEF EmptyScan, Scan

LEMMA NewLinkType ==
  ASSUME NEW o \in Origins \cup {None}
  PROVE  NewLink(o) \in Link
BY DEF NewLink, Link

\* EXCEPT at one connection.
LEMMA LinkExcept ==
  ASSUME TypeOK, NEW c, NEW v, c \in Conns => v \in Link
  PROVE  [link EXCEPT ![c] = v] \in [Conns -> Link]
BY DEF TypeOK

-----------------------------------------------------------------------------
(***************************************************************************)
(* Moves of one task and what they leave alone.                            *)
(***************************************************************************)
\* The only task inside the pass is the one whose step is looked at.
LEMMA ScannerAt ==
  ASSUME OneScanner, NEW r \in Requests, pc[r] \in Scanning
  PROVE  /\ \A stages \in SUBSET Scanning : At(stages) <=> pc[r] \in stages
         /\ \A s \in Requests : pc[s] \in Scanning => s = r
BY DEF OneScanner, At

\* A move from inside the pass to inside the pass.
LEMMA ScannerMoves ==
  ASSUME TypeOK, QueueInv, OneScanner, NEW r \in Requests, pc[r] \in Scanning,
         NEW stage \in Scanning, pc' = [pc EXCEPT ![r] = stage], requests' = requests
  PROVE  /\ \A stages \in SUBSET Scanning : At(stages)' <=> stage \in stages
         /\ OneScanner' /\ QueueInv'
<1>1. pc \in [Tasks -> Stages] /\ Requests \subseteq Tasks /\ Closers \subseteq Tasks
  BY DEF TypeOK, Tasks
<1>2. r \notin Closers BY PoolAssumption
<1>3. \A s \in Requests : pc'[s] = IF s = r THEN stage ELSE pc[s] BY <1>1
<1>4. \A s \in Requests : pc'[s] \in Scanning => s = r
  BY <1>3 DEF OneScanner
<1>5. ASSUME NEW stages \in SUBSET Scanning PROVE At(stages)' <=> stage \in stages
  <2>1. \A s \in Requests : pc'[s] \in stages => s = r BY <1>4
  <2>2. pc'[r] = stage BY <1>3
  <2>3. QED BY <2>1, <2>2 DEF At
<1>6. OneScanner' BY <1>4 DEF OneScanner
<1>7. QueueInv'
  <2>1. \A k \in Closers : pc'[k] = pc[k] BY <1>1, <1>2
  <2>2. stage \notin Queued /\ stage \notin {"start", "done"} BY DEF Scanning, Queued
  <2>3. QED BY <1>3, <2>1, <2>2 DEF QueueInv, InFlight
<1>8. QED BY <1>5, <1>6, <1>7

\* A move outside the pass, lists and locals of the pass unchanged.
LEMMA OutsideMoves ==
  ASSUME TypeOK, PassInv, NEW t \in Tasks, NEW stage \in Stages \ Scanning,
         pc' = [pc EXCEPT ![t] = stage], connections' = connections, scan' = scan
  PROVE  PassInv'
<1>1. pc \in [Tasks -> Stages] /\ Requests \subseteq Tasks BY DEF TypeOK, Tasks
<1>2. \A s \in Requests : pc'[s] \in Scanning => pc[s] \in Scanning /\ pc'[s] = pc[s]
  BY <1>1
<1>3. \A stages \in SUBSET Scanning : At(stages)' => At(stages) BY <1>2 DEF At
<1>4. /\ At({"sweep", "trim"})' => At({"sweep", "trim"})
      /\ At({"snapshot", "match", "taken"})' => At({"snapshot", "match", "taken"})
      /\ At({"snapshot"})' => At({"snapshot"})
      /\ At({"taken"})' => At({"taken"})
  BY <1>3 DEF Scanning
<1>5. OneScanner' BY <1>2 DEF PassInv, OneScanner
<1>6. CleanInv' BY <1>4 DEF PassInv, CleanInv, Splits
<1>7. OfferInv' BY <1>4 DEF PassInv, OfferInv, Splits, Pooled
<1>8. QED BY <1>5, <1>6, <1>7 DEF PassInv, PoolBounded

\* A queued request goes from one queued stage to another.
LEMMA QueuedMoves ==
  ASSUME PInv, NEW r \in Requests, pc[r] \in Queued, NEW stage \in Queued,
         Goto(r, stage), link' \in [Conns -> Link],
         conn' \in [Requests -> Conns \cup {None}],
         UNCHANGED <<requests, connections, want, closing, scan>>
  PROVE  PInv'
<1>1. stage \in Stages \ Scanning /\ stage \notin {"start", "done"}
  BY DEF Queued, Stages, Scanning
<1>2. r \in Tasks /\ r \notin Closers /\ Requests \subseteq Tasks /\ Closers \subseteq Tasks
  BY PoolAssumption DEF Tasks
<1>3. /\ pc' = [pc EXCEPT ![r] = stage] /\ pc' \in [Tasks -> Stages]
      /\ running' \in Requests \cup {None}
  BY <1>1, <1>2, GotoType DEF PInv
<1>4. TypeOK' BY <1>3 DEF PInv, TypeOK
<1>5. PassInv' BY <1>1, <1>2, <1>3, OutsideMoves DEF PInv
<1>6. QueueInv'
  <2>1. \A t \in Tasks : pc'[t] = IF t = r THEN stage ELSE pc[t]
    BY <1>3 DEF PInv, TypeOK
  <2>2. QED BY <1>1, <1>2, <2>1 DEF PInv, QueueInv, InFlight
<1>7. QED BY <1>4, <1>5, <1>6 DEF PInv

\* A step that moves no task and touches connections only.
LEMMA NobodyMoves ==
  ASSUME PInv, link' \in [Conns -> Link], closing' \in [Tasks -> Seq(Conns)],
         UNCHANGED <<requests, connections, pc, running, conn, want, scan>>
  PROVE  PInv'
<1>1. TypeOK' BY DEF PInv, TypeOK
<1>2. PassInv'
  BY DEF PInv, PassInv, OneScanner, CleanInv, OfferInv, PoolBounded, At, Splits, Pooled
<1>3. QueueInv' BY DEF PInv, QueueInv, InFlight
<1>4. QED BY <1>1, <1>2, <1>3 DEF PInv

-----------------------------------------------------------------------------
(***************************************************************************)
(* Every action preserves the first part.                                  *)
(***************************************************************************)
\* Waiting, connecting and sending keep a request in the queue.
LEMMA RequestSteps ==
  ASSUME PInv, NEW r \in Requests,
         \/ Acquired(r) \/ WaitFails(r) \/ LockConnect(r) \/ LockCancelled(r)
         \/ Connected(r) \/ ConnectFails(r) \/ Begin(r) \/ NotAvailable(r)
         \/ SendCancelled(r) \/ InitLock(r) \/ SendInit(r) \/ InitFails(r)
         \/ Admit(r) \/ PermitCancelled(r) \/ Headers(r) \/ ExchangeFails(r)
         \/ Refused(r) \/ CloseResponse(r)
  PROVE  PInv'
<1> USE DEF Queued
<1>1. /\ link \in [Conns -> Link] /\ conn \in [Requests -> Conns \cup {None}]
      /\ [conn EXCEPT ![r] = None] \in [Requests -> Conns \cup {None}]
  BY DEF PInv, TypeOK
<1>2. \A c \in Conns : \A b \in Faults(link[c]), e \in BOOLEAN :
        ResponseClosed(r, [link[c] EXCEPT !.broken = b], e) \in Link
  BY <1>1, LinkTypes, ResponseClosedType
<1>3. \A c \in Conns : \A e \in BOOLEAN : ResponseClosed(r, link[c], e) \in Link
  BY <1>1, ResponseClosedType
<1>4. CASE Acquired(r) BY <1>1, <1>4, QueuedMoves DEF Acquired
<1>5. CASE WaitFails(r) BY <1>1, <1>5, QueuedMoves DEF WaitFails
<1>6. CASE LockConnect(r) BY <1>1, <1>6, QueuedMoves DEF LockConnect
<1>7. CASE LockCancelled(r)
  <2>1. link' \in [Conns -> Link] BY <1>1, <1>7, LinkTypes DEF LockCancelled
  <2>2. QED BY <1>1, <1>7, <2>1, QueuedMoves DEF LockCancelled
<1>8. CASE Connected(r)
  <2>1. link' \in [Conns -> Link]
    <3>1. PICK p \in {"h11", "h2"} : link' = [link EXCEPT ![conn[r]] =
                  [@ EXCEPT !.proto = p, !.open = TRUE,
                            !.inner = IF p = "h2" THEN "IDLE" ELSE "NEW"]]
      BY <1>8 DEF Connected
    <3>2. QED BY <1>1, <3>1, LinkTypes
  <2>2. QED BY <1>1, <1>8, <2>1, QueuedMoves DEF Connected
<1>9. CASE ConnectFails(r)
  <2>1. link' \in [Conns -> Link] BY <1>1, <1>9, LinkTypes DEF ConnectFails
  <2>2. QED BY <1>1, <1>9, <2>1, QueuedMoves DEF ConnectFails
<1>10. CASE Begin(r)
  <2>1. link' \in [Conns -> Link] BY <1>1, <1>10, LinkTypes DEF Begin
  <2>2. QED BY <1>1, <1>10, <2>1, QueuedMoves DEF Begin
<1>11. CASE NotAvailable(r) BY <1>1, <1>11, QueuedMoves DEF NotAvailable
<1>12. CASE SendCancelled(r) BY <1>1, <1>12, QueuedMoves DEF SendCancelled
<1>13. CASE InitLock(r) BY <1>1, <1>13, QueuedMoves DEF InitLock
<1>14. CASE SendInit(r)
  <2>1. link' \in [Conns -> Link] BY <1>1, <1>14, LinkTypes DEF SendInit
  <2>2. QED BY <1>1, <1>14, <2>1, QueuedMoves DEF SendInit
<1>15. CASE InitFails(r)
  <2>1. link' \in [Conns -> Link] BY <1>1, <1>15, LinkTypes DEF InitFails
  <2>2. QED BY <1>1, <1>15, <2>1, QueuedMoves DEF InitFails
<1>16. CASE Admit(r) BY <1>1, <1>16, QueuedMoves DEF Admit
<1>17. CASE PermitCancelled(r) BY <1>1, <1>17, QueuedMoves DEF PermitCancelled
<1>18. CASE Headers(r) BY <1>1, <1>18, QueuedMoves DEF Headers
<1>19. CASE ExchangeFails(r)
  <2>1. link' \in [Conns -> Link]
    <3>1. PICK b \in Faults(link[conn[r]]) : link' = [link EXCEPT ![conn[r]] =
                  ResponseClosed(r, [@ EXCEPT !.broken = b], FALSE)]
      BY <1>19 DEF ExchangeFails
    <3>2. QED BY <1>1, <1>2, <3>1
  <2>2. QED BY <1>1, <1>19, <2>1, QueuedMoves DEF ExchangeFails
<1>20. CASE Refused(r)
  <2>1. link' \in [Conns -> Link] BY <1>1, <1>3, <1>20 DEF Refused
  <2>2. QED BY <1>1, <1>20, <2>1, QueuedMoves DEF Refused
<1>21. CASE CloseResponse(r)
  <2>1. ASSUME link' = [link EXCEPT ![conn[r]] = ResponseClosed(r, @, TRUE)]
        PROVE  link' \in [Conns -> Link]
    BY <1>1, <1>3, <2>1
  <2>2. ASSUME NEW b \in Faults(link[conn[r]]),
               link' = [link EXCEPT ![conn[r]] =
                          ResponseClosed(r, [@ EXCEPT !.broken = b], FALSE)]
        PROVE  link' \in [Conns -> Link]
    BY <1>1, <1>2, <2>2
  <2>3. link' \in [Conns -> Link]
    <3>1. \/ link' = [link EXCEPT ![conn[r]] = ResponseClosed(r, @, TRUE)]
          \/ \E b \in Faults(link[conn[r]]) :
               link' = [link EXCEPT ![conn[r]] =
                          ResponseClosed(r, [@ EXCEPT !.broken = b], FALSE)]
      BY <1>21 DEF CloseResponse
    <3>2. QED BY <2>1, <2>2, <3>1
  <2>4. QED BY <1>1, <1>21, <2>3, QueuedMoves DEF CloseResponse
<1>22. QED
  BY <1>4, <1>5, <1>6, <1>7, <1>8, <1>9, <1>10, <1>11, <1>12, <1>13, <1>14,
     <1>15, <1>16, <1>17, <1>18, <1>19, <1>20, <1>21

LEMMA NetworkSteps ==
  ASSUME PInv, NEW c \in Conns, Expire(c) \/ GoAway(c)
  PROVE  PInv'
<1>1. link' \in [Conns -> Link]
  <2>1. link \in [Conns -> Link] BY DEF PInv, TypeOK
  <2>2. CASE Expire(c) BY <2>1, <2>2, LinkTypes DEF Expire
  <2>3. CASE GoAway(c) BY <2>1, <2>3, LinkTypes DEF GoAway
  <2>4. QED BY <2>2, <2>3
<1>2. closing' \in [Tasks -> Seq(Conns)] BY DEF PInv, TypeOK, Expire, GoAway
<1>3. QED BY <1>1, <1>2, NobodyMoves DEF Expire, GoAway

\* Closing what a pass took out.
LEMMA ClosingSteps ==
  ASSUME PInv, NEW t \in Tasks, CloseNext(t) \/ CloseDone(t)
  PROVE  PInv'
<1>1. CASE CloseNext(t)
  <2>1. closing[t] \in Seq(Conns) /\ closing[t] # << >> BY <1>1 DEF CloseNext, PInv, TypeOK
  <2>2. Tail(closing[t]) \in Seq(Conns) /\ Head(closing[t]) \in Conns BY <2>1, TailList
  <2>3. closing' \in [Tasks -> Seq(Conns)] BY <1>1, <2>2 DEF CloseNext, PInv, TypeOK
  <2>4. link' \in [Conns -> Link] BY <1>1, <2>2, LinkTypes DEF CloseNext, PInv, TypeOK
  <2>5. QED BY <1>1, <2>3, <2>4, NobodyMoves DEF CloseNext
<1>2. CASE CloseDone(t)
  <2> DEFINE stage == IF t \in Closers THEN "done" ELSE Resume(t)
  <2>1. /\ stage \in {"done", "waiting", "connect"}
        /\ t \in Requests \/ stage = "done"
        /\ t \in Requests => t \notin Closers
        /\ t \in Requests /\ stage = "done" => t \notin InFlight
        /\ t \in Requests /\ stage \in Queued => t \in InFlight
    BY PoolAssumption DEF Resume, Tasks, InFlight, Queued
  <2>2. stage \in Stages \ Scanning /\ Goto(t, stage) BY <1>2, <2>1 DEF Stages, Scanning, CloseDone
  <2> HIDE DEF stage
  <2>3. /\ pc' = [pc EXCEPT ![t] = stage] /\ pc' \in [Tasks -> Stages]
        /\ running' \in Requests \cup {None}
    BY <2>1, <2>2, GotoType DEF PInv
  <2>4. UNCHANGED <<requests, connections, link, conn, want, closing, scan>>
    BY <1>2 DEF CloseDone
  <2>5. TypeOK' BY <2>3, <2>4 DEF PInv, TypeOK
  <2>6. PassInv' BY <2>2, <2>3, <2>4, OutsideMoves DEF PInv
  <2>7. QueueInv'
    <3>1. \A s \in Tasks : pc'[s] = IF s = t THEN stage ELSE pc[s]
      BY <2>3 DEF PInv, TypeOK
    <3>2. Requests \subseteq Tasks /\ Closers \subseteq Tasks BY DEF Tasks
    <3>3. QED BY <2>1, <2>4, <3>1, <3>2 DEF PInv, QueueInv, InFlight
  <2>8. QED BY <2>5, <2>6, <2>7 DEF PInv
<1>3. QED BY <1>1, <1>2

\* A pass begins, over the queue q with the assignments a.
LEMMA StartPassInv ==
  ASSUME PInv, NEW r \in Requests, ~ Locked, pc[r] \in Queued,
         NEW q \in Seq(Requests), NEW a \in [Requests -> Conns \cup {None}],
         StartPass(r, q, a), requests' = q,
         IsInjective(q), ToSet(q) \in {InFlight, InFlight \ {r}},
         conn' \in [Requests -> Conns \cup {None}],
         UNCHANGED <<connections, link, want, closing>>
  PROVE  PInv'
<1>1. /\ r \in Tasks /\ r \notin Closers /\ Requests \subseteq Tasks /\ Closers \subseteq Tasks
      /\ "sweep" \in Stages /\ "sweep" \in Scanning
      /\ "sweep" \notin {"start", "done"} /\ "sweep" \notin Queued
  BY PoolAssumption DEF Tasks, Stages, Scanning, Queued
<1>2. /\ pc' = [pc EXCEPT ![r] = "sweep"] /\ pc' \in [Tasks -> Stages]
      /\ running' \in Requests \cup {None}
  BY <1>1, GotoType DEF PInv, StartPass
<1>3. \A s \in Tasks : pc'[s] = IF s = r THEN "sweep" ELSE pc[s]
  BY <1>1, <1>2 DEF PInv, TypeOK
<1>4. connections \in Seq(Conns) /\ << >> \in Seq(Conns) BY EmptyList DEF PInv, TypeOK
<1>5. {a[p] : p \in ToSet(q)} \ {None} \subseteq Conns BY Elements
<1>6. /\ scan' \in Scan /\ scan'.todo = connections
      /\ scan'.kept = << >> /\ scan'.avail = << >>
  <2> DEFINE R == {a[p] : p \in ToSet(q)} \ {None}
  <2>1. scan' = [EmptyScan EXCEPT !.refs = R, !.todo = connections]
    BY DEF StartPass
  <2>2. R \in SUBSET Conns BY <1>5
  <2> HIDE DEF R
  <2>3. QED BY <1>4, <2>1, <2>2, EmptyScanType DEF Scan
<1>7. TypeOK' BY <1>2, <1>6 DEF PInv, TypeOK
<1>8. QueueInv'
  <2>1. r \in InFlight BY DEF PInv, QueueInv
  <2>2. ToSet(q) \subseteq InFlight /\ (\A s \in InFlight : s = r \/ s \in ToSet(q))
    OBVIOUS
  <2>3. InFlight' = ToSet(q) BY DEF InFlight
  <2>4. QED BY <1>1, <1>3, <2>1, <2>2, <2>3 DEF PInv, QueueInv
<1>9. PassInv'
  <2>1. \A s \in Requests : pc'[s] \in Scanning => s = r
    BY <1>1, <1>3 DEF Locked
  <2>2. OneScanner' BY <2>1 DEF OneScanner
  <2>3. IsInjective(connections) /\ Len(connections) <= MaxConnections
    BY DEF PInv, PassInv, PoolBounded
  <2>4. ~ At({"snapshot", "match", "taken"})' /\ ~ At({"snapshot"})'
        /\ ~ At({"taken"})'
    BY <1>1, <1>3, <2>1 DEF At, Scanning
  <2>5. OfferInv' BY <2>4 DEF OfferInv
  <2>6. CleanInv'
    <3>1. /\ Len(<< >>) = 0 /\ ToSet(<< >>) = {} /\ IsInjective(<< >>)
          /\ Len(connections) \in Nat
      BY <1>4, EmptyList, Elements
    <3>2. Len(<< >>) + Len(connections) <= MaxConnections
      BY <3>1, <2>3, PoolAssumption
    <3>3. QED BY <1>6, <2>3, <3>1, <3>2 DEF CleanInv, Splits
  <2>7. QED BY <2>2, <2>3, <2>5, <2>6 DEF PassInv, PoolBounded
<1>10. QED BY <1>7, <1>8, <1>9 DEF PInv

\* list.remove on a list without duplicates.
LEMMA WithoutList ==
  ASSUME NEW S, NEW s \in Seq(S), IsInjective(s), NEW e \in ToSet(s)
  PROVE  /\ Without(s, e) \in Seq(S)
         /\ Len(Without(s, e)) = Len(s) - 1
         /\ IsInjective(Without(s, e))
         /\ ToSet(Without(s, e)) = ToSet(s) \ {e}
<1> DEFINE i == CHOOSE i \in DOMAIN s : s[i] = e
<1>1. i \in DOMAIN s /\ s[i] = e BY Elements
<1>2. Without(s, e) = RemoveAt(s, i) BY DEF Without
<1> HIDE DEF i
<1>3. QED BY <1>1, <1>2, RemoveAtList

LEMMA SubmitStep ==
  ASSUME PInv, NEW r \in Requests, NEW o \in Origins, Submit(r, o)
  PROVE  PInv'
<1>1. /\ r \in Tasks /\ r \notin Closers /\ Requests \subseteq Tasks /\ Closers \subseteq Tasks
      /\ "assign" \in Stages \ Scanning /\ "assign" \in Queued
      /\ "assign" \notin {"start", "done"}
  BY PoolAssumption DEF Tasks, Stages, Scanning, Queued
<1>2. pc[r] = "start" /\ Goto(r, "assign") /\ requests' = Append(requests, r)
      /\ want' = [want EXCEPT ![r] = o]
      /\ UNCHANGED <<connections, link, conn, closing, scan>>
  BY DEF Submit
<1>3. /\ pc' = [pc EXCEPT ![r] = "assign"] /\ pc' \in [Tasks -> Stages]
      /\ running' \in Requests \cup {None}
  BY <1>1, <1>2, GotoType DEF PInv
<1>4. r \notin InFlight BY <1>2 DEF PInv, QueueInv
<1>5. /\ requests' \in Seq(Requests) /\ IsInjective(requests')
      /\ ToSet(requests') = InFlight \cup {r}
  BY <1>2, <1>4, AppendList DEF PInv, TypeOK, InFlight
<1>6. want' \in [Requests -> Origins \cup {None}] BY <1>2 DEF PInv, TypeOK
<1>7. TypeOK' BY <1>2, <1>3, <1>5, <1>6 DEF PInv, TypeOK
<1>8. PassInv' BY <1>1, <1>2, <1>3, OutsideMoves DEF PInv
<1>9. QueueInv'
  <2>1. \A t \in Tasks : pc'[t] = IF t = r THEN "assign" ELSE pc[t]
    BY <1>3 DEF PInv, TypeOK
  <2>2. InFlight' = InFlight \cup {r} BY <1>5 DEF InFlight
  <2>3. QED BY <1>1, <2>1, <2>2 DEF PInv, QueueInv
<1>10. QED BY <1>7, <1>8, <1>9 DEF PInv

LEMMA AssignStep ==
  ASSUME PInv, NEW r \in Requests, Assign(r)
  PROVE  PInv'
<1>1. /\ pc[r] \in Queued /\ ~ Locked /\ StartPass(r, requests, conn)
      /\ UNCHANGED <<requests, connections, link, conn, want, closing>>
  BY DEF Assign, Queued
<1>2. /\ requests \in Seq(Requests) /\ IsInjective(requests)
      /\ conn \in [Requests -> Conns \cup {None}]
  BY DEF PInv, TypeOK
<1>3. ToSet(requests) \in {InFlight, InFlight \ {r}} BY DEF InFlight
<1>4. requests' = requests /\ conn' \in [Requests -> Conns \cup {None}] BY <1>1, <1>2
<1>5. QED BY <1>1, <1>2, <1>3, <1>4, StartPassInv

LEMMA LeaveStep ==
  ASSUME PInv, NEW r \in Requests, Leave(r)
  PROVE  PInv'
<1> DEFINE q == Without(requests, r)
<1>1. /\ pc[r] \in Queued /\ ~ Locked /\ requests' = q
      /\ conn' = [conn EXCEPT ![r] = None]
      /\ StartPass(r, requests', conn)
      /\ UNCHANGED <<connections, link, want, closing>>
  BY DEF Leave, Queued
<1>2. /\ requests \in Seq(Requests) /\ IsInjective(requests) /\ r \in ToSet(requests)
      /\ conn \in [Requests -> Conns \cup {None}]
  BY <1>1 DEF PInv, TypeOK, QueueInv, InFlight
<1>3. q \in Seq(Requests) /\ IsInjective(q) /\ ToSet(q) = InFlight \ {r}
  BY <1>2, WithoutList DEF InFlight
<1> HIDE DEF q
<1>4. StartPass(r, q, conn) BY <1>1
<1>5. conn' \in [Requests -> Conns \cup {None}] BY <1>1, <1>2
<1>6. QED BY <1>1, <1>2, <1>3, <1>4, <1>5, StartPassInv

LEMMA ACloseStep ==
  ASSUME PInv, NEW k \in Closers, AClose(k)
  PROVE  PInv'
<1>1. /\ k \in Tasks /\ k \notin Requests /\ Requests \subseteq Tasks /\ Closers \subseteq Tasks
      /\ "closing" \in Stages \ Scanning /\ "closing" \in {"start", "closing", "done"}
  BY PoolAssumption DEF Tasks, Stages, Scanning
<1>2. /\ ~ Locked /\ Goto(k, "closing") /\ connections' = << >>
      /\ closing' = [closing EXCEPT ![k] = connections]
      /\ UNCHANGED <<requests, link, conn, want, scan>>
  BY DEF AClose
<1>3. /\ pc' = [pc EXCEPT ![k] = "closing"] /\ pc' \in [Tasks -> Stages]
      /\ running' \in Requests \cup {None}
  BY <1>1, <1>2, GotoType DEF PInv
<1>4. \A t \in Tasks : pc'[t] = IF t = k THEN "closing" ELSE pc[t]
  BY <1>3 DEF PInv, TypeOK
<1>5. /\ connections' \in Seq(Conns) /\ Len(connections') = 0 /\ IsInjective(connections')
  BY <1>2, EmptyList
<1>6. closing' \in [Tasks -> Seq(Conns)] BY <1>2 DEF PInv, TypeOK
<1>7. TypeOK' BY <1>2, <1>3, <1>5, <1>6 DEF PInv, TypeOK
<1>8. QueueInv' BY <1>1, <1>2, <1>4 DEF PInv, QueueInv, InFlight
<1>9. PassInv'
  <2>1. \A s \in Requests : pc'[s] \notin Scanning BY <1>1, <1>2, <1>4 DEF Locked
  <2>2. OneScanner' BY <2>1 DEF OneScanner
  <2>3. /\ ~ At({"sweep", "trim"})' /\ ~ At({"snapshot", "match", "taken"})'
        /\ ~ At({"snapshot"})' /\ ~ At({"taken"})'
    BY <2>1 DEF At, Scanning
  <2>4. PoolBounded' BY <1>5, PoolAssumption DEF PoolBounded
  <2>5. QED BY <1>5, <2>2, <2>3, <2>4 DEF PassInv, CleanInv, OfferInv
<1>10. QED BY <1>7, <1>8, <1>9 DEF PInv

-----------------------------------------------------------------------------
(***************************************************************************)
(* The steps of the pass.                                                  *)
(***************************************************************************)
\* One iteration moves the head of todo to the other list, or drops it.
LEMMA Advance ==
  ASSUME NEW S, NEW kept \in Seq(S), NEW todo \in Seq(S), todo # << >>,
         Splits(kept, todo), NEW kept2 \in {kept, Append(kept, Head(todo))}
  PROVE  /\ Head(todo) \in S /\ kept2 \in Seq(S) /\ Tail(todo) \in Seq(S)
         /\ Splits(kept2, Tail(todo))
         /\ Len(kept2) + Len(Tail(todo)) <= Len(kept) + Len(todo)
         /\ ToSet(kept2) \subseteq ToSet(kept) \cup ToSet(todo)
         /\ ToSet(Tail(todo)) \subseteq ToSet(todo)
<1> DEFINE c == Head(todo)
           rest == Tail(todo)
<1>1. /\ IsInjective(kept) /\ IsInjective(todo) /\ ToSet(kept) \cap ToSet(todo) = {}
      /\ Len(kept) \in Nat /\ Len(todo) \in Nat
  BY Elements DEF Splits
<1>2. /\ c \in S /\ c \in ToSet(todo) /\ rest \in Seq(S) /\ Len(rest) = Len(todo) - 1
      /\ ToSet(rest) \subseteq ToSet(todo) /\ IsInjective(rest) /\ c \notin ToSet(rest)
  BY <1>1, TailList
<1>3. /\ Append(kept, c) \in Seq(S) /\ Len(Append(kept, c)) = Len(kept) + 1
      /\ ToSet(Append(kept, c)) = ToSet(kept) \cup {c} /\ IsInjective(Append(kept, c))
  <2>1. c \notin ToSet(kept) BY <1>1, <1>2
  <2>2. QED BY <1>1, <1>2, <2>1, AppendList
<1> HIDE DEF c, rest
<1>4. CASE kept2 = kept BY <1>1, <1>2, <1>4 DEF Splits, c, rest
<1>5. CASE kept2 = Append(kept, c) BY <1>1, <1>2, <1>3, <1>5 DEF Splits, c, rest
<1>6. QED BY <1>4, <1>5 DEF c

\* A step of the pass that stays at its control point.
LEMMA PassStays ==
  ASSUME PInv, NEW r \in Requests, pc[r] \in Scanning,
         connections' \in Seq(Conns), link' \in [Conns -> Link],
         conn' \in [Requests -> Conns \cup {None}],
         closing' \in [Tasks -> Seq(Conns)], scan' \in Scan,
         UNCHANGED <<requests, pc, running, want>>
  PROVE  /\ TypeOK' /\ QueueInv' /\ OneScanner'
         /\ \A stages \in SUBSET Scanning : At(stages) <=> pc[r] \in stages
         /\ \A stages \in SUBSET Scanning : At(stages)' <=> pc[r] \in stages
<1>1. TypeOK' /\ QueueInv' /\ OneScanner'
  BY DEF PInv, TypeOK, QueueInv, InFlight, PassInv, OneScanner
<1>2. \A stages \in SUBSET Scanning : At(stages) <=> pc[r] \in stages
  BY ScannerAt DEF PInv, PassInv
<1>3. \A stages \in SUBSET Scanning : At(stages)' <=> At(stages) BY DEF At
<1>4. QED BY <1>1, <1>2, <1>3

\* A step of the pass that goes on to another control point.
LEMMA PassMoves ==
  ASSUME PInv, NEW r \in Requests, pc[r] \in Scanning, NEW stage \in Scanning,
         Goto(r, stage), connections' \in Seq(Conns),
         conn' \in [Requests -> Conns \cup {None}], scan' \in Scan,
         UNCHANGED <<requests, link, want, closing>>
  PROVE  /\ TypeOK' /\ QueueInv' /\ OneScanner'
         /\ \A stages \in SUBSET Scanning : At(stages) <=> pc[r] \in stages
         /\ \A stages \in SUBSET Scanning : At(stages)' <=> stage \in stages
<1>1. r \in Tasks /\ stage \in Stages BY DEF Tasks, Stages
<1>2. /\ pc' = [pc EXCEPT ![r] = stage] /\ pc' \in [Tasks -> Stages]
      /\ running' \in Requests \cup {None}
  BY <1>1, GotoType DEF PInv
<1>3. TypeOK' BY <1>2 DEF PInv, TypeOK
<1>4. /\ QueueInv' /\ OneScanner'
      /\ \A stages \in SUBSET Scanning : At(stages)' <=> stage \in stages
  BY <1>2, ScannerMoves DEF PInv, PassInv
<1>5. \A stages \in SUBSET Scanning : At(stages) <=> pc[r] \in stages
  BY ScannerAt DEF PInv, PassInv
<1>6. QED BY <1>3, <1>4, <1>5

\* The control points of OfferInv and CleanInv, as seen by the task in the pass.
LEMMA ControlPoints ==
  /\ {"sweep", "trim"} \in SUBSET Scanning
  /\ {"snapshot", "match", "taken"} \in SUBSET Scanning
  /\ {"snapshot"} \in SUBSET Scanning
  /\ {"taken"} \in SUBSET Scanning
BY DEF Scanning

\* Clean-up and trimming: todo shrinks, kept grows by at most its head.
LEMMA CleanStep ==
  ASSUME PInv, NEW r \in Requests, Sweep(r) \/ Trim(r)
  PROVE  PInv'
<1>1. /\ pc[r] \in {"sweep", "trim"} /\ scan.todo # << >>
      /\ UNCHANGED <<requests, connections, link, pc, running, conn, want>>
      /\ scan \in Scan /\ closing \in [Tasks -> Seq(Conns)] /\ r \in Tasks
  BY DEF Sweep, Trim, PInv, TypeOK, Tasks
<1>2. pc[r] \in Scanning BY <1>1 DEF Scanning
<1>3. /\ scan.kept \in Seq(Conns) /\ scan.todo \in Seq(Conns)
      /\ scan.surplus \in Int
  BY <1>1 DEF Scan
<1>4. PICK kept2 \in {scan.kept, Append(scan.kept, Head(scan.todo))}, n \in Int :
        scan' = [scan EXCEPT !.todo = Tail(@), !.kept = kept2, !.surplus = n]
  <2>1. CASE Sweep(r)
    <3>1. scan' = [scan EXCEPT !.todo = Tail(@),
             !.kept = IF Drops(Head(scan.todo)) \/ Expires(Head(scan.todo))
                        THEN @ ELSE Append(@, Head(scan.todo))]
      BY <2>1 DEF Sweep
    <3>2. scan' = [scan EXCEPT !.todo = Tail(@), !.surplus = scan.surplus,
             !.kept = IF Drops(Head(scan.todo)) \/ Expires(Head(scan.todo))
                        THEN @ ELSE Append(@, Head(scan.todo))]
      BY <3>1, <1>1 DEF Scan
    <3>3. QED BY <3>2, <1>3
  <2>2. CASE Trim(r)
    <3> DEFINE close == scan.surplus > 0 /\ Surplus(Head(scan.todo))
    <3>1. scan' = [scan EXCEPT !.todo = Tail(@),
             !.kept = IF close THEN @ ELSE Append(@, Head(scan.todo)),
             !.surplus = IF close THEN @ - 1 ELSE @]
      BY <2>2 DEF Trim
    <3> HIDE DEF close
    <3>2. CASE close
      <4>1. scan' = [scan EXCEPT !.todo = Tail(@), !.kept = scan.kept,
                                 !.surplus = scan.surplus - 1]
        BY <3>1, <3>2
      <4>2. scan.surplus - 1 \in Int BY <1>3
      <4>3. QED BY <4>1, <4>2, Zenon
    <3>3. CASE ~ close
      <4>1. scan' = [scan EXCEPT !.todo = Tail(@), !.surplus = scan.surplus,
                                 !.kept = Append(scan.kept, Head(scan.todo))]
        BY <3>1, <3>3
      <4>2. QED BY <4>1, <1>3
    <3>4. QED BY <3>2, <3>3
  <2>3. QED BY <2>1, <2>2
<1>5. CleanInv BY DEF PInv, PassInv
<1>6. /\ Splits(scan.kept, scan.todo) /\ scan.avail = << >>
      /\ Len(scan.kept) + Len(scan.todo) <= MaxConnections
  <2>1. At({"sweep", "trim"}) BY <1>1 DEF At
  <2>2. QED BY <2>1, <1>5 DEF CleanInv
<1>7. /\ Head(scan.todo) \in Conns /\ kept2 \in Seq(Conns) /\ Tail(scan.todo) \in Seq(Conns)
      /\ Splits(kept2, Tail(scan.todo))
      /\ Len(kept2) + Len(Tail(scan.todo)) <= Len(scan.kept) + Len(scan.todo)
  BY <1>1, <1>3, <1>6, Advance
<1>8. /\ scan' \in Scan /\ scan'.kept = kept2 /\ scan'.todo = Tail(scan.todo)
      /\ scan'.avail = << >>
  BY <1>1, <1>4, <1>6, <1>7 DEF Scan
<1>9. closing' \in [Tasks -> Seq(Conns)]
  <2>1. closing' \in {closing, [closing EXCEPT ![r] = Append(@, Head(scan.todo))]}
    BY DEF Sweep, Trim
  <2>2. Append(closing[r], Head(scan.todo)) \in Seq(Conns) BY <1>1, <1>7, AppendList
  <2>3. QED BY <1>1, <2>1, <2>2
<1>10. /\ TypeOK' /\ QueueInv' /\ OneScanner'
       /\ \A stages \in SUBSET Scanning : At(stages)' <=> pc[r] \in stages
       /\ PoolBounded' /\ IsInjective(connections')
  <2>1. /\ connections' \in Seq(Conns) /\ link' \in [Conns -> Link]
        /\ conn' \in [Requests -> Conns \cup {None}]
    BY <1>1 DEF PInv, TypeOK
  <2>2. PoolBounded' /\ IsInjective(connections')
    BY <1>1 DEF PInv, PassInv, PoolBounded
  <2>3. QED BY <1>1, <1>2, <1>8, <1>9, <2>1, <2>2, PassStays
<1>11. CleanInv'
  <2>1. Len(kept2) + Len(Tail(scan.todo)) <= MaxConnections
    <3>1. /\ Len(scan.kept) \in Nat /\ Len(scan.todo) \in Nat
          /\ Len(kept2) \in Nat /\ Len(Tail(scan.todo)) \in Nat
      BY <1>3, <1>7, Elements
    <3>2. MaxConnections \in Nat BY PoolAssumption
    <3> DEFINE a == Len(scan.kept)
               b == Len(scan.todo)
               u == Len(kept2)
               v == Len(Tail(scan.todo))
    <3>3. a \in Nat /\ b \in Nat /\ u \in Nat /\ v \in Nat BY <3>1
    <3>4. u + v <= a + b /\ a + b <= MaxConnections BY <1>6, <1>7
    <3> HIDE DEF a, b, u, v
    <3>5. u + v <= MaxConnections BY <3>2, <3>3, <3>4
    <3>6. QED BY <3>5 DEF u, v
  <2>2. QED BY <1>7, <1>8, <2>1 DEF CleanInv, Splits
<1>12. OfferInv'
  <2>1. pc[r] \notin {"snapshot", "match", "taken"} BY <1>1
  <2>2. /\ ~ At({"snapshot", "match", "taken"})' /\ ~ At({"snapshot"})'
        /\ ~ At({"taken"})'
    BY <1>10, <2>1, ControlPoints
  <2>3. QED BY <2>2 DEF OfferInv
<1>13. QED BY <1>10, <1>11, <1>12 DEF PInv, PassInv

\* The retained connections are walked a second time.
LEMMA SweepDoneStep ==
  ASSUME PInv, NEW r \in Requests, SweepDone(r)
  PROVE  PInv'
<1>1. /\ pc[r] = "sweep" /\ scan.todo = << >> /\ Goto(r, "trim")
      /\ scan' = [scan EXCEPT !.todo = scan.kept, !.kept = << >>, !.surplus = IdleSurplus]
      /\ UNCHANGED <<requests, connections, link, conn, want, closing>>
      /\ pc[r] \in Scanning /\ "trim" \in Scanning
  BY DEF SweepDone, Scanning
<1>2. /\ scan \in Scan /\ scan.kept \in Seq(Conns) /\ scan.todo \in Seq(Conns)
      /\ connections' \in Seq(Conns) /\ conn' \in [Requests -> Conns \cup {None}]
  BY <1>1 DEF PInv, TypeOK, Scan
<1>3. CleanInv /\ At({"sweep", "trim"}) BY <1>1 DEF PInv, PassInv, At
<1>4. /\ Splits(scan.kept, << >>) /\ Len(scan.kept) + Len(<< >>) <= MaxConnections
      /\ scan.avail = << >>
  BY <1>1, <1>3 DEF CleanInv
<1>5. IdleSurplus \in Int
  <2> DEFINE I == {i \in DOMAIN scan.kept : Surplus(scan.kept[i])}
  <2>1. DOMAIN scan.kept = 1 .. Len(scan.kept) /\ Len(scan.kept) \in Nat
    BY <1>2, Elements
  <2>2. IsFiniteSet(1 .. Len(scan.kept)) BY <2>1, FS_Interval
  <2>3. IsFiniteSet(I) BY <2>1, <2>2, FS_Subset
  <2>4. Cardinality(I) \in Nat BY <2>3, FS_CardinalityType
  <2>5. MaxKeepalive \in Nat BY PoolAssumption DEF MaxKeepalive
  <2>6. QED BY <2>4, <2>5 DEF IdleSurplus, CountIdle
<1>6. /\ << >> \in Seq(Conns) /\ Len(<< >>) = 0 /\ ToSet(<< >>) = {} /\ IsInjective(<< >>)
      /\ Len(scan.kept) \in Nat
  BY <1>2, EmptyList, Elements
<1>7. /\ scan' \in Scan /\ scan'.kept = << >> /\ scan'.todo = scan.kept
      /\ scan'.avail = << >>
  BY <1>1, <1>2, <1>4, <1>5, <1>6 DEF Scan
<1>8. /\ TypeOK' /\ QueueInv' /\ OneScanner'
      /\ \A stages \in SUBSET Scanning : At(stages)' <=> "trim" \in stages
  BY <1>1, <1>2, <1>7, PassMoves
<1>9. CleanInv'
  <2>1. Splits(<< >>, scan.kept) BY <1>4, <1>6 DEF Splits
  <2>2. Len(<< >>) + Len(scan.kept) <= MaxConnections BY <1>4, <1>6
  <2>3. QED BY <1>7, <2>1, <2>2 DEF CleanInv, Splits
<1>10. OfferInv' BY <1>8, ControlPoints DEF OfferInv
<1>11. PoolBounded' /\ IsInjective(connections')
  BY <1>1 DEF PInv, PassInv, PoolBounded
<1>12. QED BY <1>8, <1>9, <1>10, <1>11 DEF PInv, PassInv

\* The pool gets the retained connections, the pass its budget.
LEMMA TrimDoneStep ==
  ASSUME PInv, NEW r \in Requests, TrimDone(r)
  PROVE  PInv'
<1>1. /\ pc[r] = "trim" /\ scan.todo = << >> /\ Goto(r, "snapshot")
      /\ connections' = scan.kept
      /\ scan' = [scan EXCEPT !.todo = scan.kept, !.kept = << >>, !.surplus = 0,
                              !.budget = MaxConnections - Len(scan.kept)]
      /\ UNCHANGED <<requests, link, conn, want, closing>>
      /\ pc[r] \in Scanning /\ "snapshot" \in Scanning
  BY DEF TrimDone, Scanning
<1>2. /\ scan \in Scan /\ scan.kept \in Seq(Conns)
      /\ conn' \in [Requests -> Conns \cup {None}]
  BY <1>1 DEF PInv, TypeOK, Scan
<1>3. /\ << >> \in Seq(Conns) /\ Len(<< >>) = 0 /\ ToSet(<< >>) = {} /\ IsInjective(<< >>)
      /\ Len(scan.kept) \in Nat /\ MaxConnections \in Nat
  BY <1>2, EmptyList, Elements, PoolAssumption
<1>4. IsInjective(scan.kept) /\ Len(scan.kept) <= MaxConnections /\ scan.avail = << >>
  <2>1. CleanInv /\ At({"sweep", "trim"}) BY <1>1 DEF PInv, PassInv, At
  <2>2. /\ Splits(scan.kept, << >>) /\ Len(scan.kept) + Len(<< >>) <= MaxConnections
        /\ scan.avail = << >>
    BY <1>1, <2>1 DEF CleanInv
  <2>3. QED BY <1>3, <2>2 DEF Splits
<1>5. /\ scan' \in Scan /\ scan'.todo = scan.kept /\ scan'.avail = << >>
      /\ scan'.budget = MaxConnections - Len(scan.kept)
  <2> DEFINE b == MaxConnections - Len(scan.kept)
  <2>1. b \in Int /\ 0 \in Int BY <1>3
  <2>2. scan' = [scan EXCEPT !.todo = scan.kept, !.kept = << >>, !.surplus = 0, !.budget = b]
    BY <1>1
  <2> HIDE DEF b
  <2>3. scan' \in Scan /\ scan'.todo = scan.kept /\ scan'.avail = scan.avail
        /\ scan'.budget = b
    BY <1>2, <1>3, <2>1, <2>2 DEF Scan
  <2>4. QED BY <1>4, <2>3 DEF b
<1>6. /\ TypeOK' /\ QueueInv' /\ OneScanner'
      /\ \A stages \in SUBSET Scanning : At(stages)' <=> "snapshot" \in stages
  BY <1>1, <1>2, <1>5, PassMoves
<1>7. CleanInv' BY <1>6, ControlPoints DEF CleanInv
<1>8. OfferInv'
  <2>1. Splits(<< >>, scan.kept) BY <1>3, <1>4 DEF Splits
  <2>2. Pooled' = ToSet(scan.kept) BY <1>1 DEF Pooled
  <2>3. ~ At({"taken"})' BY <1>6, ControlPoints
  <2>4. QED BY <1>1, <1>3, <1>5, <2>1, <2>2, <2>3 DEF OfferInv, Splits
<1>9. PoolBounded' /\ IsInjective(connections') BY <1>1, <1>4 DEF PoolBounded
<1>10. QED BY <1>6, <1>7, <1>8, <1>9 DEF PInv, PassInv

LEMMA SnapshotStep ==
  ASSUME PInv, NEW r \in Requests, Snapshot(r)
  PROVE  PInv'
<1>1. /\ pc[r] = "snapshot" /\ pc[r] \in Scanning /\ scan.todo # << >>
      /\ UNCHANGED <<requests, connections, link, pc, running, conn, want, closing>>
      /\ scan' = [scan EXCEPT !.todo = Tail(@),
                    !.avail = IF Offers(Head(scan.todo)) THEN Append(@, Head(scan.todo)) ELSE @]
  BY DEF Snapshot, Scanning
<1>2. /\ scan \in Scan /\ scan.avail \in Seq(Conns) /\ scan.todo \in Seq(Conns)
      /\ connections' \in Seq(Conns) /\ link' \in [Conns -> Link]
      /\ conn' \in [Requests -> Conns \cup {None}] /\ closing' \in [Tasks -> Seq(Conns)]
  BY <1>1 DEF PInv, TypeOK, Scan
<1> DEFINE avail2 == IF Offers(Head(scan.todo)) THEN Append(scan.avail, Head(scan.todo))
                                               ELSE scan.avail
<1>3. /\ avail2 \in {scan.avail, Append(scan.avail, Head(scan.todo))}
      /\ scan' = [scan EXCEPT !.todo = Tail(@), !.avail = avail2]
  BY <1>1
<1> HIDE DEF avail2
<1>4. /\ Splits(scan.avail, scan.todo) /\ ToSet(scan.todo) \subseteq Pooled
      /\ ToSet(scan.avail) \subseteq Pooled
      /\ scan.budget = MaxConnections - Len(connections)
  <2>1. OfferInv /\ At({"snapshot"}) /\ At({"snapshot", "match", "taken"})
    BY <1>1 DEF PInv, PassInv, At
  <2>2. QED BY <2>1 DEF OfferInv
<1>5. /\ avail2 \in Seq(Conns) /\ Tail(scan.todo) \in Seq(Conns)
      /\ Splits(avail2, Tail(scan.todo))
      /\ ToSet(avail2) \subseteq Pooled /\ ToSet(Tail(scan.todo)) \subseteq Pooled
  <2>1. /\ avail2 \in Seq(Conns) /\ Tail(scan.todo) \in Seq(Conns)
        /\ Splits(avail2, Tail(scan.todo))
        /\ ToSet(avail2) \subseteq ToSet(scan.avail) \cup ToSet(scan.todo)
        /\ ToSet(Tail(scan.todo)) \subseteq ToSet(scan.todo)
    <3>1. /\ scan.todo # << >> /\ Splits(scan.avail, scan.todo)
          /\ scan.avail \in Seq(Conns) /\ scan.todo \in Seq(Conns)
          /\ avail2 \in {scan.avail, Append(scan.avail, Head(scan.todo))}
      BY <1>1, <1>2, <1>3, <1>4
    <3>2. QED BY <3>1, Advance
  <2>2. QED BY <1>4, <2>1
<1>6. /\ scan' \in Scan /\ scan'.avail = avail2 /\ scan'.todo = Tail(scan.todo)
      /\ scan'.budget = scan.budget
  BY <1>2, <1>3, <1>5 DEF Scan
<1>7. /\ TypeOK' /\ QueueInv' /\ OneScanner'
      /\ \A stages \in SUBSET Scanning : At(stages)' <=> pc[r] \in stages
  BY <1>1, <1>2, <1>6, PassStays
<1>8. ~ At({"sweep", "trim"})' /\ ~ At({"taken"})' BY <1>1, <1>7, ControlPoints
<1>9. OfferInv'
  BY <1>1, <1>4, <1>5, <1>6, <1>8 DEF OfferInv, Splits, Pooled
<1>10. CleanInv' /\ PoolBounded' /\ IsInjective(connections')
  BY <1>1, <1>8 DEF PInv, PassInv, PoolBounded, CleanInv
<1>11. QED BY <1>7, <1>9, <1>10 DEF PInv, PassInv

LEMMA SnapshotDoneStep ==
  ASSUME PInv, NEW r \in Requests, SnapshotDone(r)
  PROVE  PInv'
<1>1. /\ pc[r] = "snapshot" /\ pc[r] \in Scanning /\ "match" \in Scanning
      /\ Goto(r, "match")
      /\ UNCHANGED <<requests, connections, link, conn, want, closing, scan>>
  BY DEF SnapshotDone, Scanning
<1>2. /\ connections' \in Seq(Conns) /\ conn' \in [Requests -> Conns \cup {None}]
      /\ scan' \in Scan
  BY <1>1 DEF PInv, TypeOK
<1>3. /\ TypeOK' /\ QueueInv' /\ OneScanner'
      /\ \A stages \in SUBSET Scanning : At(stages)' <=> "match" \in stages
  BY <1>1, <1>2, PassMoves
<1>4. ~ At({"sweep", "trim"})' /\ ~ At({"snapshot"})' /\ ~ At({"taken"})'
  BY <1>3, ControlPoints
<1>5. At({"snapshot", "match", "taken"}) BY <1>1 DEF At
<1>6. OfferInv'
  BY <1>1, <1>4, <1>5 DEF PInv, PassInv, OfferInv, Pooled
<1>7. CleanInv' /\ PoolBounded' /\ IsInjective(connections')
  BY <1>1, <1>4 DEF PInv, PassInv, PoolBounded, CleanInv
<1>8. QED BY <1>3, <1>6, <1>7 DEF PInv, PassInv

\* What the assignment loop knows.
LEMMA MatchContext ==
  ASSUME PInv, NEW r \in Requests, Matching(r)
  PROVE  /\ pc[r] = "match" /\ pc[r] \in Scanning
         /\ Candidate \in Requests /\ want[Candidate] \in Origins \cup {None}
         /\ scan \in Scan /\ scan.avail \in Seq(Conns) /\ scan.budget \in Int
         /\ scan.next \in Nat \ {0}
         /\ connections \in Seq(Conns) /\ link \in [Conns -> Link]
         /\ conn \in [Requests -> Conns \cup {None}] /\ closing \in [Tasks -> Seq(Conns)]
         /\ scan.budget = MaxConnections - Len(connections)
         /\ IsInjective(scan.avail) /\ ToSet(scan.avail) \subseteq Pooled
         /\ IsInjective(connections) /\ Len(connections) <= MaxConnections
         /\ Fitting \subseteq Nat /\ Evictable \subseteq Nat
         /\ \A i \in Fitting \cup Evictable : i \in DOMAIN scan.avail
<1>1. pc[r] = "match" /\ pc[r] \in Scanning /\ ~ MatchOver BY DEF Matching, Scanning
<1>2. /\ scan \in Scan /\ scan.avail \in Seq(Conns) /\ scan.budget \in Int
      /\ scan.next \in Nat \ {0}
      /\ connections \in Seq(Conns) /\ link \in [Conns -> Link]
      /\ conn \in [Requests -> Conns \cup {None}] /\ closing \in [Tasks -> Seq(Conns)]
      /\ requests \in Seq(Requests) /\ want \in [Requests -> Origins \cup {None}]
  BY DEF PInv, TypeOK, Scan
<1>3. scan.next \in 1 .. Len(requests)
  <2>1. Len(requests) \in Nat BY <1>2, Elements
  <2>2. ~ (scan.next > Len(requests)) BY <1>1 DEF MatchOver
  <2>3. QED BY <1>2, <2>1, <2>2
<1>4. Candidate \in Requests BY <1>2, <1>3, Elements DEF Candidate
<1>5. /\ scan.budget = MaxConnections - Len(connections)
      /\ IsInjective(scan.avail) /\ ToSet(scan.avail) \subseteq Pooled
  <2>1. At({"snapshot", "match", "taken"}) /\ OfferInv
    BY <1>1 DEF At, PInv, PassInv
  <2>2. QED BY <2>1 DEF OfferInv
<1>6. DOMAIN scan.avail \subseteq Nat
  <2>1. DOMAIN scan.avail = 1 .. Len(scan.avail) /\ Len(scan.avail) \in Nat
    BY <1>2, Elements
  <2>2. QED BY <2>1
<1>7. IsInjective(connections) /\ Len(connections) <= MaxConnections
  BY DEF PInv, PassInv, PoolBounded
<1>8. QED BY <1>1, <1>2, <1>4, <1>5, <1>6, <1>7 DEF Fitting, Evictable

LEMMA SkipStep ==
  ASSUME PInv, NEW r \in Requests, Skip(r)
  PROVE  PInv'
<1>1. /\ Matching(r) /\ scan' = [scan EXCEPT !.next = @ + 1]
      /\ UNCHANGED <<requests, connections, link, pc, running, conn, want, closing>>
  BY DEF Skip
<1>2. /\ pc[r] = "match" /\ pc[r] \in Scanning /\ scan \in Scan
      /\ scan.next \in Nat \ {0}
      /\ connections \in Seq(Conns) /\ link \in [Conns -> Link]
      /\ conn \in [Requests -> Conns \cup {None}] /\ closing \in [Tasks -> Seq(Conns)]
      /\ scan.budget = MaxConnections - Len(connections)
      /\ IsInjective(scan.avail) /\ ToSet(scan.avail) \subseteq Pooled
  BY <1>1, MatchContext
<1>3. /\ scan' \in Scan /\ scan'.avail = scan.avail /\ scan'.budget = scan.budget
  <2>1. scan.next + 1 \in Nat \ {0} BY <1>2
  <2>2. QED BY <1>1, <1>2, <2>1 DEF Scan
<1>4. /\ TypeOK' /\ QueueInv' /\ OneScanner'
      /\ \A stages \in SUBSET Scanning : At(stages)' <=> pc[r] \in stages
  BY <1>1, <1>2, <1>3, PassStays
<1>5. ~ At({"sweep", "trim"})' /\ ~ At({"snapshot"})' /\ ~ At({"taken"})'
  BY <1>2, <1>4, ControlPoints
<1>6. OfferInv' BY <1>1, <1>2, <1>3, <1>5 DEF OfferInv, Pooled
<1>7. CleanInv' /\ PoolBounded' /\ IsInjective(connections')
  BY <1>1, <1>5 DEF PInv, PassInv, PoolBounded, CleanInv
<1>8. QED BY <1>4, <1>6, <1>7 DEF PInv, PassInv

LEMMA ReuseStep ==
  ASSUME PInv, NEW r \in Requests, Reuse(r)
  PROVE  PInv'
<1> DEFINE i == First(Fitting)
<1>1. /\ Matching(r) /\ Fitting # {}
      /\ conn' = [conn EXCEPT ![Candidate] = scan.avail[i]]
      /\ scan' = [scan EXCEPT !.hit = i]
      /\ Goto(r, "taken") /\ "taken" \in Scanning
      /\ UNCHANGED <<requests, connections, link, want, closing>>
  BY DEF Reuse, Scanning
<1>2. /\ pc[r] = "match" /\ pc[r] \in Scanning /\ scan \in Scan
      /\ scan.avail \in Seq(Conns) /\ connections \in Seq(Conns)
      /\ conn \in [Requests -> Conns \cup {None}]
      /\ scan.budget = MaxConnections - Len(connections)
      /\ IsInjective(scan.avail) /\ ToSet(scan.avail) \subseteq Pooled
      /\ Fitting \subseteq Nat /\ Fitting \subseteq DOMAIN scan.avail
  BY <1>1, MatchContext
<1>3. i \in DOMAIN scan.avail
  <2>1. First(Fitting) \in Fitting BY <1>1, <1>2, FirstIn
  <2>2. QED BY <1>2, <2>1
<1> HIDE DEF i
<1>4. scan.avail[i] \in Conns /\ i \in Nat \ {0}
  <2>1. DOMAIN scan.avail = 1 .. Len(scan.avail) /\ Len(scan.avail) \in Nat
    BY <1>2, Elements
  <2>2. QED BY <1>2, <1>3, <2>1, Elements
<1>5. conn' \in [Requests -> Conns \cup {None}] BY <1>1, <1>2, <1>4
<1>6. /\ scan' \in Scan /\ scan'.avail = scan.avail /\ scan'.budget = scan.budget
      /\ scan'.hit = i
  BY <1>1, <1>2, <1>4 DEF Scan
<1>7. /\ TypeOK' /\ QueueInv' /\ OneScanner'
      /\ \A stages \in SUBSET Scanning : At(stages)' <=> "taken" \in stages
  BY <1>1, <1>2, <1>5, <1>6, PassMoves
<1>8. ~ At({"sweep", "trim"})' /\ ~ At({"snapshot"})' BY <1>7, ControlPoints
<1>9. OfferInv' BY <1>1, <1>2, <1>3, <1>6, <1>8 DEF OfferInv, Pooled
<1>10. CleanInv' /\ PoolBounded' /\ IsInjective(connections')
  BY <1>1, <1>8 DEF PInv, PassInv, PoolBounded, CleanInv
<1>11. QED BY <1>7, <1>9, <1>10 DEF PInv, PassInv

LEMMA TakenStep ==
  ASSUME PInv, NEW r \in Requests, Taken(r)
  PROVE  PInv'
<1> DEFINE c == scan.avail[scan.hit]
           full == IsIdle(c) /\ ~CanMultiplex(c)
           avail2 == IF full THEN RemoveAt(scan.avail, scan.hit) ELSE scan.avail
<1>1. /\ pc[r] = "taken" /\ pc[r] \in Scanning /\ "match" \in Scanning
      /\ Goto(r, "match")
      /\ UNCHANGED <<requests, connections, link, conn, want, closing>>
  BY DEF Taken, Scanning
<1>2. scan' = [scan EXCEPT !.next = @ + 1, !.hit = 1, !.avail = avail2]
  BY DEF Taken
<1>3. /\ scan \in Scan /\ scan.avail \in Seq(Conns) /\ scan.next \in Nat \ {0}
      /\ connections' \in Seq(Conns) /\ conn' \in [Requests -> Conns \cup {None}]
  BY <1>1 DEF PInv, TypeOK, Scan
<1>4. /\ scan.hit \in DOMAIN scan.avail
      /\ scan.budget = MaxConnections - Len(connections)
      /\ IsInjective(scan.avail) /\ ToSet(scan.avail) \subseteq Pooled
  <2>1. OfferInv /\ At({"taken"}) /\ At({"snapshot", "match", "taken"})
    BY <1>1 DEF PInv, PassInv, At
  <2>2. QED BY <2>1 DEF OfferInv
<1>5. avail2 \in {scan.avail, RemoveAt(scan.avail, scan.hit)} OBVIOUS
<1> HIDE DEF avail2
<1>6. avail2 \in Seq(Conns) /\ IsInjective(avail2) /\ ToSet(avail2) \subseteq Pooled
  <2>1. LET t == RemoveAt(scan.avail, scan.hit)
        IN t \in Seq(Conns) /\ IsInjective(t) /\ ToSet(t) \subseteq ToSet(scan.avail)
    BY <1>3, <1>4, RemoveAtList
  <2>2. QED BY <1>3, <1>4, <1>5, <2>1
<1>7. scan' \in Scan /\ scan'.avail = avail2 /\ scan'.budget = scan.budget
  <2>1. scan.next + 1 \in Nat \ {0} /\ 1 \in Nat \ {0} BY <1>3
  <2>2. QED BY <1>2, <1>3, <1>6, <2>1 DEF Scan
<1>8. /\ TypeOK' /\ QueueInv' /\ OneScanner'
      /\ \A stages \in SUBSET Scanning : At(stages)' <=> "match" \in stages
  BY <1>1, <1>3, <1>7, PassMoves
<1>9. ~ At({"sweep", "trim"})' /\ ~ At({"snapshot"})' /\ ~ At({"taken"})'
  BY <1>8, ControlPoints
<1>10. OfferInv' BY <1>1, <1>4, <1>6, <1>7, <1>9 DEF OfferInv, Pooled
<1>11. CleanInv' /\ PoolBounded' /\ IsInjective(connections')
  BY <1>1, <1>9 DEF PInv, PassInv, PoolBounded, CleanInv
<1>12. QED BY <1>8, <1>10, <1>11 DEF PInv, PassInv

\* A new connection within the budget.
LEMMA CreateStep ==
  ASSUME PInv, NEW r \in Requests, Create(r)
  PROVE  PInv'
<1>1. PICK c \in Fresh :
        /\ link' = [link EXCEPT ![c] = NewLink(want[Candidate])]
        /\ connections' = Append(connections, c)
        /\ conn' = [conn EXCEPT ![Candidate] = c]
  BY DEF Create
<1>2. /\ Matching(r) /\ scan.budget > 0
      /\ scan' = [scan EXCEPT !.next = @ + 1, !.budget = @ - 1]
      /\ UNCHANGED <<requests, pc, running, want, closing>>
  BY DEF Create, MayCreate
<1>3. /\ pc[r] = "match" /\ pc[r] \in Scanning /\ Candidate \in Requests
      /\ want[Candidate] \in Origins \cup {None}
      /\ scan \in Scan /\ scan.budget \in Int /\ scan.next \in Nat \ {0}
      /\ connections \in Seq(Conns) /\ link \in [Conns -> Link]
      /\ conn \in [Requests -> Conns \cup {None}] /\ closing \in [Tasks -> Seq(Conns)]
      /\ scan.budget = MaxConnections - Len(connections)
      /\ IsInjective(scan.avail) /\ ToSet(scan.avail) \subseteq Pooled
      /\ IsInjective(connections)
  BY <1>2, MatchContext
<1>4. c \in Conns /\ c \notin ToSet(connections) BY <1>1 DEF Fresh
<1>5. /\ connections' \in Seq(Conns) /\ Len(connections') = Len(connections) + 1
      /\ ToSet(connections') = ToSet(connections) \cup {c} /\ IsInjective(connections')
  BY <1>1, <1>3, <1>4, AppendList
<1>6. link' \in [Conns -> Link] /\ conn' \in [Requests -> Conns \cup {None}]
  BY <1>1, <1>3, <1>4, NewLinkType
<1>7. /\ scan' \in Scan /\ scan'.avail = scan.avail
      /\ scan'.budget = scan.budget - 1
  <2>1. scan.next + 1 \in Nat \ {0} /\ scan.budget - 1 \in Int BY <1>3
  <2>2. QED BY <1>2, <1>3, <2>1 DEF Scan
<1>8. /\ TypeOK' /\ QueueInv' /\ OneScanner'
      /\ \A stages \in SUBSET Scanning : At(stages)' <=> pc[r] \in stages
  BY <1>2, <1>3, <1>5, <1>6, <1>7, PassStays
<1>9. ~ At({"sweep", "trim"})' /\ ~ At({"snapshot"})' /\ ~ At({"taken"})'
  BY <1>3, <1>8, ControlPoints
<1>10. /\ scan'.budget = MaxConnections - Len(connections')
       /\ Len(connections') <= MaxConnections
  <2>1. Len(connections) \in Nat /\ MaxConnections \in Nat
    BY <1>3, Elements, PoolAssumption
  <2>2. QED BY <1>2, <1>3, <1>5, <1>7, <2>1
<1>11. OfferInv' BY <1>3, <1>5, <1>7, <1>9, <1>10 DEF OfferInv, Pooled
<1>12. CleanInv' /\ PoolBounded' BY <1>9, <1>10 DEF PoolBounded, CleanInv
<1>13. QED BY <1>5, <1>8, <1>11, <1>12 DEF PInv, PassInv

\* One connection out, one in.
LEMMA EvictStep ==
  ASSUME PInv, NEW r \in Requests, Evict(r)
  PROVE  PInv'
<1> DEFINE i == First(Evictable)
           old == scan.avail[i]
           rest == Without(connections, old)
<1>1. PICK c \in Fresh :
        /\ link' = [link EXCEPT ![c] = NewLink(want[Candidate])]
        /\ connections' = Append(rest, c)
        /\ conn' = [conn EXCEPT ![Candidate] = c]
  BY DEF Evict
<1>2. /\ Matching(r) /\ Evictable # {}
      /\ scan' = [scan EXCEPT !.next = @ + 1, !.avail = RemoveAt(@, i)]
      /\ closing' = [closing EXCEPT ![r] = Append(@, old)]
      /\ UNCHANGED <<requests, pc, running, want>>
  BY DEF Evict
<1>3. /\ pc[r] = "match" /\ pc[r] \in Scanning /\ Candidate \in Requests
      /\ want[Candidate] \in Origins \cup {None}
      /\ scan \in Scan /\ scan.avail \in Seq(Conns) /\ scan.next \in Nat \ {0}
      /\ connections \in Seq(Conns) /\ link \in [Conns -> Link]
      /\ conn \in [Requests -> Conns \cup {None}] /\ closing \in [Tasks -> Seq(Conns)]
      /\ scan.budget = MaxConnections - Len(connections)
      /\ IsInjective(scan.avail) /\ ToSet(scan.avail) \subseteq Pooled
      /\ IsInjective(connections) /\ Len(connections) <= MaxConnections
      /\ Evictable \subseteq Nat /\ Evictable \subseteq DOMAIN scan.avail
  BY <1>2, MatchContext
<1>4. i \in DOMAIN scan.avail
  <2>1. First(Evictable) \in Evictable BY <1>2, <1>3, FirstIn
  <2>2. QED BY <1>3, <2>1
<1> HIDE DEF i
<1>5. old \in Conns /\ old \in ToSet(connections)
  BY <1>3, <1>4, Elements DEF Pooled
<1> HIDE DEF old
<1>6. /\ rest \in Seq(Conns) /\ Len(rest) = Len(connections) - 1 /\ IsInjective(rest)
      /\ ToSet(rest) = ToSet(connections) \ {old}
  BY <1>3, <1>5, WithoutList
<1> HIDE DEF rest
<1>7. c \in Conns /\ c \notin ToSet(rest) BY <1>1, <1>6 DEF Fresh
<1>8. /\ connections' \in Seq(Conns) /\ Len(connections') = Len(connections)
      /\ ToSet(connections') = ToSet(rest) \cup {c} /\ IsInjective(connections')
  <2>1. /\ Append(rest, c) \in Seq(Conns) /\ Len(Append(rest, c)) = Len(rest) + 1
        /\ ToSet(Append(rest, c)) = ToSet(rest) \cup {c} /\ IsInjective(Append(rest, c))
    BY <1>6, <1>7, AppendList
  <2>2. Len(connections) \in Nat BY <1>3, Elements
  <2>3. QED BY <1>1, <1>6, <2>1, <2>2
<1>9. LET t == RemoveAt(scan.avail, i)
      IN /\ t \in Seq(Conns) /\ IsInjective(t)
         /\ ToSet(t) \subseteq ToSet(scan.avail) /\ old \notin ToSet(t)
  BY <1>3, <1>4, RemoveAtList DEF old
<1> DEFINE avail2 == RemoveAt(scan.avail, i)
<1>10. /\ avail2 \in Seq(Conns) /\ IsInjective(avail2)
       /\ ToSet(avail2) \subseteq ToSet(connections')
  BY <1>3, <1>6, <1>8, <1>9 DEF Pooled
<1>11. /\ scan' \in Scan /\ scan'.avail = avail2 /\ scan'.budget = scan.budget
  <2>1. scan.next + 1 \in Nat \ {0} BY <1>3
  <2>2. scan' = [scan EXCEPT !.next = @ + 1, !.avail = avail2] BY <1>2
  <2> HIDE DEF avail2
  <2>3. QED BY <1>3, <1>10, <2>1, <2>2 DEF Scan
<1> HIDE DEF avail2
<1>12. link' \in [Conns -> Link] /\ conn' \in [Requests -> Conns \cup {None}]
  BY <1>1, <1>3, <1>7, NewLinkType
<1>13. closing' \in [Tasks -> Seq(Conns)]
  <2>1. r \in Tasks BY DEF Tasks
  <2>2. Append(closing[r], old) \in Seq(Conns) BY <1>3, <1>5, <2>1, AppendList
  <2>3. QED BY <1>2, <1>3, <2>2
<1>14. /\ TypeOK' /\ QueueInv' /\ OneScanner'
       /\ \A stages \in SUBSET Scanning : At(stages)' <=> pc[r] \in stages
  BY <1>2, <1>3, <1>8, <1>11, <1>12, <1>13, PassStays
<1>15. ~ At({"sweep", "trim"})' /\ ~ At({"snapshot"})' /\ ~ At({"taken"})'
  BY <1>3, <1>14, ControlPoints
<1>16. OfferInv' BY <1>3, <1>8, <1>10, <1>11, <1>15 DEF OfferInv, Pooled
<1>17. CleanInv' /\ PoolBounded' BY <1>3, <1>8, <1>15 DEF PoolBounded, CleanInv
<1>18. QED BY <1>8, <1>14, <1>16, <1>17 DEF PInv, PassInv

LEMMA MatchDoneStep ==
  ASSUME PInv, NEW r \in Requests, MatchDone(r)
  PROVE  PInv'
<1> DEFINE stage == IF closing[r] = << >> THEN Resume(r) ELSE "closing"
<1>1. /\ pc[r] = "match" /\ pc[r] \in Scanning /\ scan' = EmptyScan /\ Goto(r, stage)
      /\ UNCHANGED <<requests, connections, link, conn, want, closing>>
  BY DEF MatchDone, Scanning
<1>2. /\ stage \in Stages \ Scanning
      /\ stage = "done" => r \notin InFlight
      /\ stage # "start"
      /\ stage \in Queued => r \in InFlight
  BY DEF Resume, InFlight, Queued, Stages, Scanning
<1> HIDE DEF stage
<1>3. r \in Tasks /\ r \notin Closers /\ Requests \subseteq Tasks /\ Closers \subseteq Tasks
  BY PoolAssumption DEF Tasks
<1>4. /\ pc' = [pc EXCEPT ![r] = stage] /\ pc' \in [Tasks -> Stages]
      /\ running' \in Requests \cup {None}
  BY <1>1, <1>2, <1>3, GotoType DEF PInv
<1>5. \A t \in Tasks : pc'[t] = IF t = r THEN stage ELSE pc[t]
  BY <1>4 DEF PInv, TypeOK
<1>6. TypeOK' BY <1>1, <1>4, EmptyScanType DEF PInv, TypeOK
<1>7. QueueInv' BY <1>1, <1>2, <1>3, <1>5 DEF PInv, QueueInv, InFlight
<1>8. PassInv'
  <2>1. \A s \in Requests : pc'[s] \notin Scanning
    BY <1>1, <1>2, <1>3, <1>5 DEF PInv, PassInv, OneScanner
  <2>2. OneScanner' BY <2>1 DEF OneScanner
  <2>3. /\ ~ At({"sweep", "trim"})' /\ ~ At({"snapshot", "match", "taken"})'
        /\ ~ At({"snapshot"})' /\ ~ At({"taken"})'
    BY <2>1 DEF At, Scanning
  <2>4. PoolBounded' /\ IsInjective(connections')
    BY <1>1 DEF PInv, PassInv, PoolBounded
  <2>5. QED BY <2>2, <2>3, <2>4 DEF PassInv, CleanInv, OfferInv
<1>9. QED BY <1>6, <1>7, <1>8 DEF PInv

-----------------------------------------------------------------------------
LEMMA PInvInit == Init => PInv
<1> SUFFICES ASSUME Init PROVE PInv OBVIOUS
<1>1. << >> \in Seq(Requests) /\ << >> \in Seq(Conns) /\ ToSet(<< >>) = {}
      /\ IsInjective(<< >>) /\ Len(<< >>) = 0
  BY EmptyList
<1>2. "start" \in Stages /\ "start" \notin Queued /\ "start" \notin Scanning
  BY DEF Stages, Queued, Scanning
<1>3. [c \in Conns |-> NewLink(None)] \in [Conns -> Link] BY NewLinkType
<1>4. TypeOK BY <1>1, <1>2, <1>3, EmptyScanType DEF Init, TypeOK
<1>5. QueueInv BY <1>1, <1>2 DEF Init, QueueInv, InFlight, Tasks
<1>6. PassInv
  <2>1. \A s \in Requests : pc[s] \notin Scanning BY <1>2 DEF Init, Tasks
  <2>2. OneScanner BY <2>1 DEF OneScanner
  <2>3. /\ ~ At({"sweep", "trim"}) /\ ~ At({"snapshot", "match", "taken"})
        /\ ~ At({"snapshot"}) /\ ~ At({"taken"})
    BY <2>1 DEF At, Scanning
  <2>4. PoolBounded /\ IsInjective(connections)
    BY <1>1, PoolAssumption DEF Init, PoolBounded
  <2>5. QED BY <2>2, <2>3, <2>4 DEF PassInv, CleanInv, OfferInv
<1>7. QED BY <1>4, <1>5, <1>6 DEF PInv

LEMMA PInvNext == PInv /\ [Next]_vars => PInv'
<1> SUFFICES ASSUME PInv, [Next]_vars PROVE PInv' OBVIOUS
<1>1. ASSUME NEW r \in Requests, Pass(r) PROVE PInv'
  <2>1. \/ Sweep(r) \/ Trim(r) \/ SweepDone(r) \/ TrimDone(r)
        \/ Snapshot(r) \/ SnapshotDone(r)
        \/ Skip(r) \/ Reuse(r) \/ Taken(r) \/ Create(r) \/ Evict(r) \/ MatchDone(r)
    BY <1>1 DEF Pass
  <2>2. QED
    BY <2>1, CleanStep, SweepDoneStep, TrimDoneStep, SnapshotStep, SnapshotDoneStep,
       SkipStep, ReuseStep, TakenStep, CreateStep, EvictStep, MatchDoneStep
<1>2. ASSUME NEW t \in Tasks, Progress(t) PROVE PInv'
  <2>1. CASE CloseNext(t) \/ CloseDone(t) BY <2>1, ClosingSteps
  <2>2. CASE t \in Requests /\ ~ (CloseNext(t) \/ CloseDone(t))
    BY <1>1, <1>2, <2>2, AssignStep, LeaveStep, RequestSteps DEF Progress
  <2>3. QED BY <1>2, <2>1, <2>2 DEF Progress
<1>3. ASSUME NEW r \in Requests, Cancel(r) \/ Refused(r) PROVE PInv'
  BY <1>3, RequestSteps DEF Cancel
<1>4. CASE UNCHANGED vars
  BY <1>4 DEF vars, PInv, TypeOK, QueueInv, InFlight, PassInv, OneScanner,
              CleanInv, OfferInv, PoolBounded, At, Splits, Pooled
<1>5. QED
  BY <1>2, <1>3, <1>4, SubmitStep, ACloseStep, NetworkSteps DEF Next, Finished

\* Every variable keeps its type, and the queue never holds a request twice:
\* the pass, a retry and the removal of a request all keep the queue and the
\* pool in the shape the next pass relies on.
THEOREM TypeCorrect == Spec => []TypeOK
<1>1. PInv => TypeOK BY DEF PInv
<1>2. QED BY <1>1, PInvInit, PInvNext, PTL DEF Spec

\* The pool lists at most max_connections connections, for every limit, every
\* number of tasks and every interleaving, coroutines or threads.
THEOREM PoolIsBounded == Spec => []PoolBounded
<1>1. PInv => PoolBounded BY DEF PInv, PassInv
<1>2. QED BY <1>1, PInvInit, PInvNext, PTL DEF Spec

-----------------------------------------------------------------------------
(***************************************************************************)
(* Every action preserves the second part: who uses a connection.          *)
(***************************************************************************)
LEMMA HeldConn ==
  ASSUME PInv, UseInv, NEW s \in Requests, pc[s] \in Holding
  PROVE  conn[s] \in Conns /\ link[conn[s]] \in Link
BY DEF PInv, TypeOK, UseInv, Sound

\* One connection changes.
LEMMA LinkAt ==
  ASSUME TypeOK, NEW c \in Conns, NEW v, link' = [link EXCEPT ![c] = v]
  PROVE  \A d \in Conns : link'[d] = IF d = c THEN v ELSE link[d]
BY DEF TypeOK

\* Tasks that hold a connection stay where they are, or become waiters for it;
\* their connections are unharmed or get closed.
LEMMA UseKept ==
  ASSUME PInv, UseInv,
         \A s \in Requests : pc'[s] \in Holding => conn'[s] # None,
         \A s \in Requests : pc'[s] \in Holding \ {"connect"} =>
           /\ pc'[s] = pc[s] /\ conn'[s] = conn[s]
           /\ link'[conn[s]].proto = link[conn[s]].proto
           /\ \/ link'[conn[s]].inner = link[conn[s]].inner
              \/ link[conn[s]].inner # "none" /\ link'[conn[s]].inner = "CLOSED"
  PROVE  UseInv'
<1>1. \A s \in Requests : Sound(s) BY DEF UseInv
<1>2. /\ "connecting" \in Holding \ {"connect"}
      /\ Sending \subseteq Holding \ {"connect"}
      /\ Multiplexing \subseteq Holding \ {"connect"} /\ Multiplexing \subseteq Sending
      /\ {"active", "body"} \subseteq Holding \ {"connect"}
  BY DEF Holding, Sending, Multiplexing
<1>3. ASSUME NEW s \in Requests PROVE Sound(s)'
  <2>1. CASE pc'[s] \in Holding \ {"connect"}
    BY <1>1, <1>2, <2>1 DEF Sound
  <2>2. CASE pc'[s] \notin Holding \ {"connect"}
    BY <1>2, <2>2 DEF Sound
  <2>3. QED BY <2>1, <2>2
<1>4. OneConnector' BY <1>2 DEF UseInv, OneConnector
<1>5. ExclusiveUse'
  <2>1. \A s \in Exchanging' : s \in Exchanging /\ conn'[s] = conn[s]
          /\ link'[conn[s]].proto = link[conn[s]].proto
    BY <1>2 DEF Exchanging
  <2>2. QED BY <2>1 DEF UseInv, ExclusiveUse
<1>6. QED BY <1>3, <1>4, <1>5 DEF UseInv

\* Task r goes to a stage at which it holds no connection, or only waits for
\* the request lock of one; connections keep protocol and state.
LEMMA UseMoves ==
  ASSUME PInv, UseInv, NEW t \in Tasks, NEW stage,
         pc' = [pc EXCEPT ![t] = stage], stage \notin Holding \ {"connect"},
         \A s \in Requests : pc'[s] \in Holding => conn'[s] # None,
         \A s \in Requests : s # t /\ pc[s] \in Holding => conn'[s] = conn[s],
         \A c \in Conns : link'[c].proto = link[c].proto /\ link'[c].inner = link[c].inner
  PROVE  UseInv'
<1>1. \A s \in Requests : pc'[s] = IF s = t THEN stage ELSE pc[s]
  BY DEF PInv, TypeOK, Tasks
<1>2. ASSUME NEW s \in Requests, pc'[s] \in Holding \ {"connect"}
      PROVE  /\ pc'[s] = pc[s] /\ conn'[s] = conn[s]
             /\ link'[conn[s]].proto = link[conn[s]].proto
             /\ link'[conn[s]].inner = link[conn[s]].inner
  <2>1. s # t /\ pc'[s] = pc[s] BY <1>1, <1>2
  <2>2. conn[s] \in Conns BY <1>2, <2>1, HeldConn
  <2>3. QED BY <1>2, <2>1, <2>2
<1>3. QED BY <1>2, UseKept

\* r starts to wait for its connection, or gives it up.
LEMMA UsePlain ==
  ASSUME PInv, UseInv, NEW r \in Requests,
         \/ Acquired(r) \/ WaitFails(r) \/ LockCancelled(r) \/ ConnectFails(r)
         \/ NotAvailable(r) \/ SendCancelled(r) \/ PermitCancelled(r)
  PROVE  UseInv'
<1>1. /\ r \in Tasks /\ link \in [Conns -> Link] /\ conn \in [Requests -> Conns \cup {None}]
      /\ pc \in [Tasks -> Stages]
  BY DEF PInv, TypeOK, Tasks
<1>2. PICK stage : /\ pc' = [pc EXCEPT ![r] = stage]
                   /\ stage \notin Holding \ {"connect"}
                   /\ stage \in Holding => conn[r] # None /\ conn' = conn
  BY DEF Acquired, WaitFails, LockCancelled, ConnectFails, NotAvailable,
         SendCancelled, PermitCancelled, Goto, Holding
<1>3. \A s \in Requests : pc'[s] = IF s = r THEN stage ELSE pc[s]
  BY <1>1, <1>2 DEF Tasks
<1>4. conn' = conn \/ conn' = [conn EXCEPT ![r] = None]
  BY DEF Acquired, WaitFails, LockCancelled, ConnectFails, NotAvailable,
         SendCancelled, PermitCancelled
<1>5. \A s \in Requests : s # r => conn'[s] = conn[s] BY <1>1, <1>4
<1>6. \A s \in Requests : pc'[s] \in Holding => conn'[s] # None
  BY <1>2, <1>3, <1>5 DEF UseInv, Sound
<1>7. link' = link \/ link' = [link EXCEPT ![conn[r]] = [@ EXCEPT !.failed = TRUE]]
  BY DEF Acquired, WaitFails, LockCancelled, ConnectFails, NotAvailable,
         SendCancelled, PermitCancelled
<1>8. \A c \in Conns : link'[c].proto = link[c].proto /\ link'[c].inner = link[c].inner
  BY <1>1, <1>7 DEF Link
<1>9. QED BY <1>1, <1>2, <1>5, <1>6, <1>8, UseMoves

\* The request lock is free.
LEMMA UseLockConnect ==
  ASSUME PInv, UseInv, NEW r \in Requests, LockConnect(r)
  PROVE  UseInv'
<1> DEFINE stage == IF link[conn[r]].inner = "none" THEN "connecting" ELSE "send"
<1>1. /\ pc[r] = "connect" /\ Connecting(conn[r]) = {}
      /\ pc' = [pc EXCEPT ![r] = stage] /\ conn' = conn /\ link' = link
      /\ r \in Tasks /\ pc \in [Tasks -> Stages]
  BY DEF LockConnect, Goto, PInv, TypeOK, Tasks
<1>2. \A s \in Requests : pc'[s] = IF s = r THEN stage ELSE pc[s]
  BY <1>1 DEF Tasks
<1>3. conn[r] # None BY <1>1 DEF UseInv, Sound, Holding
<1>4. ASSUME NEW s \in Requests PROVE Sound(s)'
  <2>1. Sound(s) BY DEF UseInv
  <2>2. CASE s = r
    BY <1>1, <1>2, <1>3, <2>2 DEF Sound, Sending, Multiplexing
  <2>3. CASE s # r BY <1>1, <1>2, <2>1, <2>3 DEF Sound
  <2>4. QED BY <2>2, <2>3
<1>5. OneConnector'
  <2>1. \A s \in Requests : pc[s] = "connecting" => conn[s] # conn[r]
    BY <1>1 DEF Connecting
  <2>2. QED BY <1>1, <1>2, <2>1 DEF UseInv, OneConnector
<1>6. ExclusiveUse'
  <2>1. Exchanging' = Exchanging BY <1>1, <1>2 DEF Exchanging
  <2>2. QED BY <1>1, <2>1 DEF UseInv, ExclusiveUse
<1>7. QED BY <1>4, <1>5, <1>6 DEF UseInv

\* A new protocol connection: nobody else was past the request lock.
LEMMA UseConnected ==
  ASSUME PInv, UseInv, NEW r \in Requests, Connected(r)
  PROVE  UseInv'
<1>1. /\ pc[r] = "connecting" /\ pc' = [pc EXCEPT ![r] = "send"] /\ conn' = conn
      /\ r \in Tasks /\ pc \in [Tasks -> Stages] /\ link \in [Conns -> Link]
  BY DEF Connected, Goto, PInv, TypeOK, Tasks
<1>2. PICK p \in {"h11", "h2"} : link' = [link EXCEPT ![conn[r]] =
         [@ EXCEPT !.proto = p, !.open = TRUE,
                   !.inner = IF p = "h2" THEN "IDLE" ELSE "NEW"]]
  BY DEF Connected
<1>3. conn[r] \in Conns /\ link[conn[r]].inner = "none"
  BY <1>1, HeldConn DEF Holding, UseInv, Sound
<1>4. link'[conn[r]].inner # "none" /\ \A c \in Conns : c # conn[r] => link'[c] = link[c]
  BY <1>1, <1>2, <1>3 DEF Link
<1>5. \A s \in Requests : pc'[s] = IF s = r THEN "send" ELSE pc[s]
  BY <1>1 DEF Tasks
<1>6. ASSUME NEW s \in Requests, s # r, pc[s] \in Holding \ {"connect"}
      PROVE  conn[s] # conn[r] /\ link'[conn[s]] = link[conn[s]]
  <2>1. conn[s] # conn[r]
    <3>1. CASE pc[s] = "connecting" BY <1>1, <1>6, <3>1 DEF UseInv, OneConnector
    <3>2. CASE pc[s] \in Sending BY <1>3, <3>2 DEF UseInv, Sound
    <3>3. QED BY <1>6, <3>1, <3>2 DEF Holding, Sending, Multiplexing
  <2>2. conn[s] \in Conns BY <1>6, HeldConn
  <2>3. QED BY <1>4, <2>1, <2>2
<1>7. ASSUME NEW s \in Requests PROVE Sound(s)'
  <2>1. Sound(s) BY DEF UseInv
  <2>2. CASE s = r
    BY <1>1, <1>3, <1>4, <1>5, <2>1, <2>2 DEF Sound, Holding, Multiplexing
  <2>3. CASE s # r /\ pc[s] \in Holding \ {"connect"}
    BY <1>1, <1>5, <1>6, <2>1, <2>3 DEF Sound
  <2>4. CASE s # r /\ pc[s] \notin Holding \ {"connect"}
    BY <1>1, <1>5, <2>1, <2>4 DEF Sound, Holding, Sending, Multiplexing
  <2>5. QED BY <2>2, <2>3, <2>4
<1>8. OneConnector' BY <1>1, <1>5 DEF UseInv, OneConnector
<1>9. ExclusiveUse'
  <2>1. Exchanging' = Exchanging BY <1>1, <1>5 DEF Exchanging
  <2>2. \A s \in Exchanging : link'[conn[s]] = link[conn[s]]
    BY <1>1, <1>6 DEF Exchanging, Holding
  <2>3. QED BY <1>1, <2>1, <2>2 DEF UseInv, ExclusiveUse
<1>10. QED BY <1>7, <1>8, <1>9 DEF UseInv

\* The admission check of the protocol connection.
LEMMA UseBegin ==
  ASSUME PInv, UseInv, NEW r \in Requests, Begin(r)
  PROVE  UseInv'
<1> DEFINE c == conn[r]
           stage == IF link[c].proto = "h11" THEN "active" ELSE "init"
<1>1. /\ pc[r] = "send" /\ pc' = [pc EXCEPT ![r] = stage] /\ conn' = conn
      /\ r \in Tasks /\ pc \in [Tasks -> Stages] /\ link \in [Conns -> Link]
      /\ Accepts(link[c])
      /\ link' = [link EXCEPT ![c] = [@ EXCEPT !.inner = "ACTIVE", !.expired = FALSE]]
  BY DEF Begin, Goto, PInv, TypeOK, Tasks
<1>2. c \in Conns /\ link[c] \in Link BY <1>1, HeldConn DEF Holding
<1>3. /\ link'[c].inner = "ACTIVE" /\ link'[c].proto = link[c].proto
      /\ \A d \in Conns : d # c => link'[d] = link[d]
      /\ link[c].proto \in {"h11", "h2"}
  BY <1>1, <1>2 DEF Link
<1>4. \A s \in Requests : pc'[s] = IF s = r THEN stage ELSE pc[s]
  BY <1>1 DEF Tasks
<1>5. link[c].inner # "none"
      /\ (link[c].proto = "h11" => link[c].inner \notin {"ACTIVE", "CLOSED"})
  BY <1>1 DEF Accepts
<1>6. ASSUME NEW s \in Requests, s # r, pc[s] \in Holding
      PROVE  \/ link'[conn[s]] = link[conn[s]] /\ conn[s] # c
             \/ conn[s] = c
  <2>1. conn[s] \in Conns BY <1>6, HeldConn
  <2>2. QED BY <1>3, <2>1
<1>7. ASSUME NEW s \in Requests PROVE Sound(s)'
  <2>1. Sound(s) BY DEF UseInv
  <2>2. CASE s = r
    BY <1>1, <1>2, <1>3, <1>4, <2>1, <2>2 DEF Sound, Holding, Multiplexing
  <2>3. CASE s # r /\ pc[s] \in Holding
    BY <1>1, <1>3, <1>4, <1>5, <1>6, <2>1, <2>3 DEF Sound
  <2>4. CASE s # r /\ pc[s] \notin Holding
    BY <1>1, <1>4, <2>1, <2>4 DEF Sound, Holding, Sending, Multiplexing
  <2>5. QED BY <2>2, <2>3, <2>4
<1>8. OneConnector' BY <1>1, <1>4 DEF UseInv, OneConnector
<1>9. ExclusiveUse'
  <2>1. \A s \in Exchanging' : s = r \/ s \in Exchanging BY <1>4 DEF Exchanging
  <2>2. r \notin Exchanging BY <1>1 DEF Exchanging
  <2>3. ASSUME NEW s \in Exchanging
        PROVE  /\ link'[conn[s]].proto = link[conn[s]].proto
               /\ conn[s] = c => link[c].proto # "h11"
    <3>1. s \in Requests /\ pc[s] \in Holding /\ s # r /\ pc[s] \in {"active", "body"}
      BY <2>2 DEF Exchanging, Holding
    <3>2. Sound(s) BY <3>1 DEF UseInv
    <3>3. QED BY <1>3, <1>5, <1>6, <3>1, <3>2 DEF Sound
  <2>4. ASSUME NEW s \in Exchanging', NEW u \in Exchanging',
               conn[s] = conn[u], link'[conn[s]].proto = "h11"
        PROVE  s = u
    <3>1. CASE s \in Exchanging /\ u \in Exchanging
      BY <2>3, <2>4, <3>1 DEF UseInv, ExclusiveUse
    <3>2. CASE s = r /\ u \in Exchanging BY <1>3, <2>3, <2>4, <3>2
    <3>3. CASE u = r /\ s \in Exchanging BY <1>3, <2>3, <2>4, <3>3
    <3>4. QED BY <2>1, <3>1, <3>2, <3>3
  <2>5. QED BY <1>1, <2>4 DEF ExclusiveUse
<1>10. QED BY <1>7, <1>8, <1>9 DEF UseInv

\* From the init lock to the response.
LEMMA UseSends ==
  ASSUME PInv, UseInv, NEW r \in Requests,
         InitLock(r) \/ SendInit(r) \/ Admit(r) \/ Headers(r)
  PROVE  UseInv'
<1>1. /\ r \in Tasks /\ link \in [Conns -> Link] /\ conn' = conn
      /\ pc \in [Tasks -> Stages]
  BY DEF PInv, TypeOK, Tasks, InitLock, SendInit, Admit, Headers
<1>2. PICK stage : /\ pc' = [pc EXCEPT ![r] = stage]
                   /\ \/ pc[r] \in Multiplexing /\ stage \in Multiplexing \cup {"active"}
                      \/ pc[r] = "active" /\ stage = "body"
  BY DEF InitLock, SendInit, Admit, Headers, Goto, Multiplexing
<1>3. \A s \in Requests : pc'[s] = IF s = r THEN stage ELSE pc[s]
  BY <1>1, <1>2 DEF Tasks
<1>4. link' = link \/ link' = [link EXCEPT ![conn[r]] = [@ EXCEPT !.ready = TRUE]]
  BY DEF InitLock, SendInit, Admit, Headers
<1>5. \A c \in Conns : link'[c].proto = link[c].proto /\ link'[c].inner = link[c].inner
  BY <1>1, <1>4 DEF Link
<1>6. ASSUME NEW s \in Requests, pc[s] \in Holding
      PROVE  /\ link'[conn[s]].proto = link[conn[s]].proto
             /\ link'[conn[s]].inner = link[conn[s]].inner
  BY <1>5, <1>6, HeldConn
<1>7. pc[r] \in Holding BY <1>2 DEF Holding, Multiplexing
<1>8. ASSUME NEW s \in Requests PROVE Sound(s)'
  <2>1. Sound(s) BY DEF UseInv
  <2>2. CASE s = r
    <3>1. pc[r] \in Sending /\ stage \in Holding /\ stage # "connecting" /\ stage \in Sending
      BY <1>2 DEF Holding, Sending, Multiplexing
    <3>2. pc'[r] = stage /\ conn'[r] = conn[r] BY <1>1, <1>3
    <3>3. stage \in Multiplexing => pc[r] \in Multiplexing BY <1>2 DEF Multiplexing
    <3>4. link[conn[r]].proto = "h11" => pc[r] \in {"active", "body"}
      BY <1>2, <2>1, <2>2 DEF Sound
    <3>5. QED BY <1>6, <1>7, <2>1, <2>2, <3>1, <3>2, <3>3, <3>4 DEF Sound
  <2>3. CASE s # r /\ pc[s] \in Holding
    BY <1>1, <1>3, <1>6, <2>1, <2>3 DEF Sound
  <2>4. CASE s # r /\ pc[s] \notin Holding
    BY <1>1, <1>3, <2>1, <2>4 DEF Sound, Holding, Sending, Multiplexing
  <2>5. QED BY <2>2, <2>3, <2>4
<1>9. OneConnector' BY <1>1, <1>2, <1>3 DEF UseInv, OneConnector, Multiplexing
<1>10. ExclusiveUse'
  <2>1. \A s \in Exchanging' : s \in Exchanging \/ (s = r /\ link[conn[r]].proto = "h2")
    BY <1>2, <1>3 DEF Exchanging, Multiplexing, UseInv, Sound
  <2>2. \A s \in Exchanging' : pc[s] \in Holding /\ s \in Requests
    BY <1>3, <1>7 DEF Exchanging, Holding
  <2>3. ASSUME NEW s \in Exchanging', NEW u \in Exchanging',
               conn[s] = conn[u], link'[conn[s]].proto = "h11"
        PROVE  s = u
    <3>1. link[conn[s]].proto = "h11" BY <1>6, <2>2, <2>3
    <3>2. s \in Exchanging /\ u \in Exchanging BY <2>1, <2>3, <3>1
    <3>3. QED BY <2>3, <3>1, <3>2 DEF UseInv, ExclusiveUse
  <2>4. QED BY <1>1, <2>3 DEF ExclusiveUse
<1>11. QED BY <1>8, <1>9, <1>10 DEF UseInv

LEMMA EndOfResponse ==
  ASSUME NEW l \in Link, l.inner # "none", NEW r, NEW e \in BOOLEAN
  PROVE  LET v == ResponseClosed(r, l, e)
         IN v.proto = l.proto /\ v.inner # "none"
<1>1. Shut(l).proto = l.proto /\ Shut(l).inner # "none" BY DEF Shut, Link
<1>2. Closed11(l, e).proto = l.proto /\ Closed11(l, e).inner # "none"
  BY <1>1 DEF Closed11, Link
<1>3. ASSUME NEW S PROVE Closed2(l, S).proto = l.proto /\ Closed2(l, S).inner # "none"
  BY <1>1 DEF Closed2, Link
<1>4. QED BY <1>2, <1>3 DEF ResponseClosed

\* r stops using its connection: nobody else has an HTTP/1.1 exchange there.
LEMMA UseEnds ==
  ASSUME PInv, UseInv, NEW r \in Requests,
         InitFails(r) \/ ExchangeFails(r) \/ Refused(r) \/ CloseResponse(r)
  PROVE  UseInv'
<1> DEFINE c == conn[r]
<1>1. /\ r \in Tasks /\ link \in [Conns -> Link] /\ conn \in [Requests -> Conns \cup {None}]
      /\ pc \in [Tasks -> Stages]
  BY DEF PInv, TypeOK, Tasks
<1>2. PICK stage \in {"leaving", "assign"} : pc' = [pc EXCEPT ![r] = stage]
  BY DEF InitFails, ExchangeFails, Refused, CloseResponse, Goto
<1>3. \A s \in Requests : pc'[s] = IF s = r THEN stage ELSE pc[s]
  BY <1>1, <1>2 DEF Tasks
<1>4. \A s \in Requests : s # r => conn'[s] = conn[s]
  BY <1>1 DEF InitFails, ExchangeFails, Refused, CloseResponse
<1>5. pc[r] \in {"preface", "active", "body"}
  BY DEF InitFails, ExchangeFails, Refused, CloseResponse
<1>6. /\ c \in Conns /\ link[c] \in Link /\ link[c].inner # "none" /\ Sound(r)
      /\ r \in Exchanging \/ link[c].proto = "h2"
  BY <1>5, HeldConn DEF Holding, Sending, Multiplexing, UseInv, Sound, Exchanging
<1>7. PICK v : link' = [link EXCEPT ![c] = v] /\ v.proto = link[c].proto /\ v.inner # "none"
  <2>1. CASE InitFails(r)
    <3>1. Shut(link[c]).proto = link[c].proto /\ Shut(link[c]).inner # "none"
      BY <1>6 DEF Shut, Link
    <3>2. QED BY <2>1, <3>1 DEF InitFails
  <2>2. ASSUME NEW b \in Faults(link[c]), NEW e \in BOOLEAN
        PROVE  LET v == ResponseClosed(r, [link[c] EXCEPT !.broken = b], e)
               IN v.proto = link[c].proto /\ v.inner # "none"
    <3> DEFINE l == [link[c] EXCEPT !.broken = b]
    <3>1. l \in Link BY <1>6, LinkTypes
    <3>2. l.inner # "none" /\ l.proto = link[c].proto BY <1>6 DEF Link
    <3> HIDE DEF l
    <3>3. QED BY <3>1, <3>2, EndOfResponse DEF l
  <2>3. ASSUME NEW e \in BOOLEAN
        PROVE  LET v == ResponseClosed(r, link[c], e)
               IN v.proto = link[c].proto /\ v.inner # "none"
    BY <1>6, EndOfResponse
  <2>4. CASE ExchangeFails(r)
    <3>1. PICK b \in Faults(link[c]) :
            link' = [link EXCEPT ![c] = ResponseClosed(r, [link[c] EXCEPT !.broken = b], FALSE)]
      BY <1>1, <1>6, <2>4 DEF ExchangeFails
    <3>2. QED BY <2>2, <3>1
  <2>5. CASE Refused(r)
    <3>1. link' = [link EXCEPT ![c] = ResponseClosed(r, link[c], FALSE)]
      BY <1>1, <1>6, <2>5 DEF Refused
    <3>2. QED BY <2>3, <3>1
  <2>6. CASE CloseResponse(r)
    <3>1. \/ link' = [link EXCEPT ![c] = ResponseClosed(r, link[c], TRUE)]
          \/ \E b \in Faults(link[c]) :
               link' = [link EXCEPT ![c] = ResponseClosed(r, [link[c] EXCEPT !.broken = b], FALSE)]
      BY <1>1, <1>6, <2>6 DEF CloseResponse
    <3>2. QED BY <2>2, <2>3, <3>1
  <2>7. QED BY <2>1, <2>4, <2>5, <2>6
<1>8. \A d \in Conns : link'[d] = IF d = c THEN v ELSE link[d] BY <1>1, <1>7
<1>9. ASSUME NEW s \in Requests, s # r, pc[s] \in {"active", "body"},
             link[conn[s]].proto = "h11"
      PROVE  conn[s] # c
  <2>1. s \in Exchanging BY <1>9 DEF Exchanging
  <2>2. QED BY <1>6, <1>9, <2>1 DEF UseInv, ExclusiveUse
<1>10. ASSUME NEW s \in Requests, s # r, pc[s] \in Holding
       PROVE  /\ link'[conn[s]].proto = link[conn[s]].proto
              /\ conn[s] = c => link'[conn[s]].inner # "none" /\ link[conn[s]].inner # "none"
              /\ conn[s] # c => link'[conn[s]].inner = link[conn[s]].inner
  <2>1. conn[s] \in Conns BY <1>10, HeldConn
  <2>2. QED BY <1>6, <1>7, <1>8, <2>1
<1>11. ASSUME NEW s \in Requests PROVE Sound(s)'
  <2>1. Sound(s) BY DEF UseInv
  <2>2. CASE s = r
    BY <1>2, <1>3, <2>2 DEF Sound, Holding, Sending, Multiplexing
  <2>3. CASE s # r /\ pc[s] \in Holding
    BY <1>3, <1>4, <1>9, <1>10, <2>1, <2>3 DEF Sound
  <2>4. CASE s # r /\ pc[s] \notin Holding
    BY <1>3, <1>4, <2>1, <2>4 DEF Sound, Holding, Sending, Multiplexing
  <2>5. QED BY <2>2, <2>3, <2>4
<1>12. OneConnector' BY <1>2, <1>3, <1>4 DEF UseInv, OneConnector
<1>13. ExclusiveUse'
  <2>1. \A s \in Exchanging' : s # r /\ s \in Exchanging /\ conn'[s] = conn[s]
          /\ link'[conn[s]].proto = link[conn[s]].proto
    BY <1>2, <1>3, <1>4, <1>10 DEF Exchanging, Holding
  <2>2. QED BY <2>1 DEF UseInv, ExclusiveUse
<1>14. QED BY <1>11, <1>12, <1>13 DEF UseInv

\* Closing a connection harms nobody's exclusive use.
LEMMA UseCloseNext ==
  ASSUME PInv, UseInv, NEW t \in Tasks, CloseNext(t)
  PROVE  UseInv'
<1> DEFINE c == Head(closing[t])
<1>1. /\ link' = [link EXCEPT ![c] = Shut(link[c])] /\ pc' = pc /\ conn' = conn
      /\ closing[t] # << >> /\ closing[t] \in Seq(Conns) /\ link \in [Conns -> Link]
  BY DEF CloseNext, PInv, TypeOK
<1>2. c \in Conns BY <1>1, TailList
<1> HIDE DEF c
<1>3. /\ Shut(link[c]).proto = link[c].proto
      /\ \/ Shut(link[c]).inner = link[c].inner
         \/ link[c].inner # "none" /\ Shut(link[c]).inner = "CLOSED"
  BY <1>1, <1>2 DEF Shut, Link
<1>4. \A d \in Conns : /\ link'[d].proto = link[d].proto
                       /\ \/ link'[d].inner = link[d].inner
                          \/ link[d].inner # "none" /\ link'[d].inner = "CLOSED"
  BY <1>1, <1>2, <1>3
<1>5. \A s \in Requests : pc'[s] \in Holding => conn'[s] # None
  BY <1>1 DEF UseInv, Sound
<1>6. ASSUME NEW s \in Requests, pc'[s] \in Holding \ {"connect"}
      PROVE  /\ pc'[s] = pc[s] /\ conn'[s] = conn[s]
             /\ link'[conn[s]].proto = link[conn[s]].proto
             /\ \/ link'[conn[s]].inner = link[conn[s]].inner
                \/ link[conn[s]].inner # "none" /\ link'[conn[s]].inner = "CLOSED"
  BY <1>1, <1>4, <1>6, HeldConn
<1>7. QED BY <1>5, <1>6, UseKept

LEMMA UseNetwork ==
  ASSUME PInv, UseInv, NEW c \in Conns, Expire(c) \/ GoAway(c)
  PROVE  UseInv'
<1>1. /\ pc' = pc /\ conn' = conn /\ link \in [Conns -> Link]
      /\ \/ link' = [link EXCEPT ![c] = [@ EXCEPT !.expired = TRUE]]
         \/ link' = [link EXCEPT ![c] = [@ EXCEPT !.broken = "goaway"]]
  BY DEF Expire, GoAway, PInv, TypeOK
<1>2. \A d \in Conns : link'[d].proto = link[d].proto /\ link'[d].inner = link[d].inner
  BY <1>1 DEF Link
<1>3. \A s \in Requests : pc'[s] \in Holding => conn'[s] # None
  BY <1>1 DEF UseInv, Sound
<1>4. ASSUME NEW s \in Requests, pc'[s] \in Holding \ {"connect"}
      PROVE  /\ pc'[s] = pc[s] /\ conn'[s] = conn[s]
             /\ link'[conn[s]].proto = link[conn[s]].proto
             /\ link'[conn[s]].inner = link[conn[s]].inner
  BY <1>1, <1>2, <1>4, HeldConn
<1>5. QED BY <1>3, <1>4, UseKept

\* Entering the queue, starting a pass, closing the pool, going on after it.
LEMMA UseOutside ==
  ASSUME PInv, UseInv, NEW t \in Tasks,
         \/ \E o \in Origins : t \in Requests /\ Submit(t, o)
         \/ t \in Requests /\ (Assign(t) \/ Leave(t) \/ MatchDone(t))
         \/ t \in Closers /\ AClose(t)
         \/ CloseDone(t)
  PROVE  UseInv'
<1>1. /\ link' = link /\ pc \in [Tasks -> Stages] /\ Requests \subseteq Tasks
      /\ conn \in [Requests -> Conns \cup {None}] /\ Requests \cap Closers = {}
  BY PoolAssumption DEF Submit, Assign, Leave, MatchDone, AClose, CloseDone, PInv, TypeOK, Tasks
<1>2. PICK stage : /\ pc' = [pc EXCEPT ![t] = stage]
                   /\ stage \notin Holding \ {"connect"}
                   /\ stage = "connect" /\ t \in Requests => conn[t] # None /\ conn' = conn
  BY <1>1 DEF Submit, Assign, Leave, MatchDone, AClose, CloseDone, StartPass, Goto,
              Resume, Holding
<1>3. conn' = conn \/ (t \in Requests /\ conn' = [conn EXCEPT ![t] = None])
  BY DEF Submit, Assign, Leave, MatchDone, AClose, CloseDone
<1>4. \A s \in Requests : s # t => conn'[s] = conn[s] BY <1>1, <1>3
<1>5. \A s \in Requests : pc'[s] = IF s = t THEN stage ELSE pc[s] BY <1>1, <1>2
<1>6. \A s \in Requests : pc'[s] \in Holding => conn'[s] # None
  BY <1>2, <1>4, <1>5 DEF UseInv, Sound
<1>7. QED BY <1>1, <1>2, <1>4, <1>6, UseMoves

\* The loops of the pass hand out nothing.
LEMMA UseLoops ==
  ASSUME PInv, UseInv, NEW r \in Requests,
         \/ Sweep(r) \/ SweepDone(r) \/ Trim(r) \/ TrimDone(r)
         \/ Snapshot(r) \/ SnapshotDone(r) \/ Skip(r) \/ Taken(r)
  PROVE  UseInv'
<1>1. /\ link' = link /\ conn' = conn
      /\ pc' = pc \/ \E stage \in Scanning : pc' = [pc EXCEPT ![r] = stage]
      /\ r \in Tasks
  BY DEF Sweep, SweepDone, Trim, TrimDone, Snapshot, SnapshotDone, Skip, Taken, Goto,
         Scanning, Tasks
<1>2. CASE pc' = pc
  <2>1. \A s \in Requests : pc'[s] \in Holding => conn'[s] # None
    BY <1>1, <1>2 DEF UseInv, Sound
  <2>2. QED BY <1>1, <1>2, <2>1, UseKept
<1>3. CASE \E stage \in Scanning : pc' = [pc EXCEPT ![r] = stage]
  <2>1. PICK stage \in Scanning : pc' = [pc EXCEPT ![r] = stage] BY <1>3
  <2>2. stage \notin Holding BY DEF Scanning, Holding
  <2>3. \A s \in Requests : pc'[s] = IF s = r THEN stage ELSE pc[s]
    BY <2>1 DEF PInv, TypeOK, Tasks
  <2>4. \A s \in Requests : pc'[s] \in Holding => conn'[s] # None
    BY <1>1, <2>2, <2>3 DEF UseInv, Sound
  <2>5. QED BY <1>1, <2>1, <2>2, <2>4, UseMoves
<1>4. QED BY <1>1, <1>2, <1>3

\* Handing out: the candidate held nothing, and a new connection is nobody's.
LEMMA UseHandsOut ==
  ASSUME PInv, UseInv, NEW r \in Requests, Reuse(r) \/ Create(r) \/ Evict(r)
  PROVE  UseInv'
<1> DEFINE q == Candidate
<1>1. Matching(r) /\ conn[q] = None BY DEF Reuse, Create, Evict
<1>2. /\ q \in Requests /\ link \in [Conns -> Link]
      /\ conn \in [Requests -> Conns \cup {None}] /\ pc \in [Tasks -> Stages]
      /\ r \in Tasks /\ Requests \subseteq Tasks
  BY <1>1, MatchContext DEF PInv, TypeOK, Tasks
<1> HIDE DEF q
<1>3. pc[q] \notin Holding BY <1>1, <1>2 DEF UseInv, Sound
<1>4. \A s \in Requests : pc'[s] \in Holding => pc'[s] = pc[s]
  <2>1. pc' = pc \/ pc' = [pc EXCEPT ![r] = "taken"] BY DEF Reuse, Create, Evict, Goto
  <2>2. "taken" \notin Holding BY DEF Holding
  <2>3. QED BY <1>2, <2>1, <2>2
<1>5. PICK c : conn' = [conn EXCEPT ![q] = c]
               /\ (link' = link \/ (c \in Fresh /\ \E v : link' = [link EXCEPT ![c] = v]))
  BY DEF Reuse, Create, Evict, q
<1>6. \A s \in Requests : s # q => conn'[s] = conn[s] BY <1>2, <1>5
<1>7. ASSUME NEW s \in Requests, pc[s] \in Holding
      PROVE  conn'[s] = conn[s] /\ link'[conn[s]] = link[conn[s]]
  <2>1. conn'[s] = conn[s] BY <1>3, <1>6, <1>7
  <2>2. conn[s] \in Conns BY <1>7, HeldConn
  <2>3. c \in Fresh => conn[s] # c BY DEF Fresh
  <2>4. QED BY <1>2, <1>5, <2>1, <2>2, <2>3
<1>8. \A s \in Requests : pc'[s] \in Holding => conn'[s] # None
  BY <1>4, <1>7 DEF UseInv, Sound
<1>9. ASSUME NEW s \in Requests, pc'[s] \in Holding \ {"connect"}
      PROVE  /\ pc'[s] = pc[s] /\ conn'[s] = conn[s]
             /\ link'[conn[s]].proto = link[conn[s]].proto
             /\ link'[conn[s]].inner = link[conn[s]].inner
  BY <1>4, <1>7, <1>9
<1>10. QED BY <1>8, <1>9, UseKept

LEMMA UseInit == Init => UseInv
<1> SUFFICES ASSUME Init PROVE UseInv OBVIOUS
<1>1. \A s \in Requests : pc[s] = "start" BY DEF Init, Tasks
<1>2. QED
  BY <1>1 DEF UseInv, Sound, OneConnector, ExclusiveUse, Exchanging,
              Holding, Sending, Multiplexing

LEMMA UseNext == PInv /\ UseInv /\ [Next]_vars => UseInv'
<1> SUFFICES ASSUME PInv, UseInv, [Next]_vars PROVE UseInv' OBVIOUS
<1>1. ASSUME NEW r \in Requests, Pass(r) PROVE UseInv'
  <2>1. r \in Tasks BY DEF Tasks
  <2>2. QED BY <1>1, <2>1, UseLoops, UseHandsOut, UseOutside DEF Pass
<1>2. ASSUME NEW t \in Tasks, Progress(t) PROVE UseInv'
  <2>1. CASE CloseNext(t) \/ CloseDone(t) BY <2>1, UseCloseNext, UseOutside
  <2>2. CASE t \in Requests /\ ~ (CloseNext(t) \/ CloseDone(t))
    <3>1. \/ Assign(t) \/ Leave(t) \/ Pass(t)
          \/ Acquired(t) \/ ConnectFails(t) \/ NotAvailable(t)
          \/ LockConnect(t) \/ Connected(t) \/ Begin(t)
          \/ InitLock(t) \/ SendInit(t) \/ Admit(t) \/ Headers(t)
          \/ InitFails(t) \/ ExchangeFails(t) \/ CloseResponse(t)
      BY <1>2, <2>2 DEF Progress
    <3>2. CASE Assign(t) \/ Leave(t) BY <2>2, <3>2, UseOutside
    <3>3. CASE Acquired(t) \/ ConnectFails(t) \/ NotAvailable(t)
      BY <2>2, <3>3, UsePlain
    <3>4. CASE InitLock(t) \/ SendInit(t) \/ Admit(t) \/ Headers(t)
      BY <2>2, <3>4, UseSends
    <3>5. CASE InitFails(t) \/ ExchangeFails(t) \/ CloseResponse(t)
      BY <2>2, <3>5, UseEnds
    <3>6. QED
      BY <1>1, <2>2, <3>1, <3>2, <3>3, <3>4, <3>5, UseLockConnect, UseConnected, UseBegin
  <2>3. QED BY <1>2, <2>1, <2>2 DEF Progress
<1>3. ASSUME NEW r \in Requests, Cancel(r) \/ Refused(r) PROVE UseInv'
  BY <1>3, UsePlain, UseEnds DEF Cancel
<1>4. CASE UNCHANGED vars
  BY <1>4 DEF vars, UseInv, Sound, OneConnector, ExclusiveUse, Exchanging
<1>5. ASSUME NEW r \in Requests, NEW o \in Origins, Submit(r, o) PROVE UseInv'
  <2>1. r \in Tasks BY DEF Tasks
  <2>2. QED BY <1>5, <2>1, UseOutside
<1>6. ASSUME NEW k \in Closers, AClose(k) PROVE UseInv'
  <2>1. k \in Tasks BY DEF Tasks
  <2>2. QED BY <1>6, <2>1, UseOutside
<1>7. QED
  BY <1>2, <1>3, <1>4, <1>5, <1>6, UseNetwork DEF Next, Finished

\* No two exchanges run on one HTTP/1.1 connection, whatever the pool hands
\* out: the admission check in the connection suffices, for coroutines and for
\* threads, although the pool of the threads does lend a connection twice.
THEOREM UseIsExclusive == Spec => []ExclusiveUse
<1>1. Init => PInv /\ UseInv BY PInvInit, UseInit
<1>2. (PInv /\ UseInv) /\ [Next]_vars => (PInv /\ UseInv)' BY PInvNext, UseNext
<1>3. PInv /\ UseInv => ExclusiveUse BY DEF UseInv
<1>4. QED BY <1>1, <1>2, <1>3, PTL DEF Spec

-----------------------------------------------------------------------------
(***************************************************************************)
(* Part three, for coroutines: whose turn it is.                           *)
(***************************************************************************)
\* The pass has no await.
RunInv == \A r \in Requests : pc[r] \in Scanning => running = r

\* The requests this pass has left without a connection, and what it would take
\* to serve one to the origin o.
Skipped == {i \in DOMAIN requests : i < scan.next /\ conn[requests[i]] = None}

CannotServe(o) ==
  /\ ~MayCreate
  /\ \A c \in ToSet(scan.avail) : link[c].home # o /\ ~IsIdle(c)

\* Who was left out still could not be served: the pass only ever takes away.
TurnInv ==
  /\ At({"sweep", "trim", "snapshot"}) => scan.next = 1
  /\ At({"match", "taken"}) => \A i \in Skipped : CannotServe(want[requests[i]])
  /\ At({"taken"}) => scan.next \in DOMAIN requests /\ conn[Candidate] # None

FairInv == RunInv /\ TurnInv

-----------------------------------------------------------------------------
\* While a coroutine runs outside the pass nobody is in the pass.
LEMMA NobodyScans ==
  ASSUME RunInv, NEW t, running \in {None, t}, t \in Requests => pc[t] \notin Scanning
  PROVE  \A r \in Requests : pc[r] \notin Scanning
BY PoolAssumption DEF RunInv

\* Outside the pass there is nothing to keep.
LEMMA FairOutside ==
  ASSUME \A r \in Requests : pc'[r] \notin Scanning
  PROVE  FairInv'
BY DEF FairInv, RunInv, TurnInv, At, Scanning

HandsOutNothing == \A q \in Requests : conn'[q] = conn[q] \/ conn'[q] = None

\* A coroutine that goes on outside the pass.
LEMMA FairMoves ==
  ASSUME ~Threads, PInv, FairInv, NEW t \in Tasks, running \in {None, t},
         t \in Requests => pc[t] \notin Scanning, NEW stage \in Stages \ Scanning,
         Goto(t, stage) \/ UNCHANGED pc,
         UNCHANGED conn \/ (t \in Requests /\ conn' = [conn EXCEPT ![t] = None])
  PROVE  FairInv' /\ HandsOutNothing
<1>1. \A r \in Requests : pc[r] \notin Scanning
  BY NobodyScans DEF FairInv
<1>2. pc \in [Tasks -> Stages] /\ Requests \subseteq Tasks
      /\ conn \in [Requests -> Conns \cup {None}]
  BY DEF PInv, TypeOK, Tasks
<1>3. \A r \in Requests : pc'[r] \notin Scanning
  BY <1>1, <1>2 DEF Goto
<1>4. HandsOutNothing
  BY <1>2 DEF HandsOutNothing
<1>5. QED BY <1>3, <1>4, FairOutside

LEMMA FairTasks ==
  ASSUME ~Threads, PInv, FairInv, NEW r \in Requests,
         \/ Acquired(r) \/ WaitFails(r) \/ LockConnect(r) \/ LockCancelled(r)
         \/ Connected(r) \/ ConnectFails(r) \/ Begin(r) \/ NotAvailable(r)
         \/ SendCancelled(r) \/ InitLock(r) \/ SendInit(r) \/ InitFails(r)
         \/ Admit(r) \/ PermitCancelled(r) \/ Headers(r) \/ ExchangeFails(r)
         \/ Refused(r) \/ CloseResponse(r) \/ (\E o \in Origins : Submit(r, o))
  PROVE  FairInv' /\ HandsOutNothing
<1>1. r \in Tasks BY DEF Tasks
<1>2. running \in {None, r} /\ pc[r] \notin Scanning
  BY DEF MayRun, Cancellable, Scanning, Acquired, WaitFails, LockConnect, LockCancelled,
         Connected, ConnectFails, Begin, NotAvailable, SendCancelled, InitLock, SendInit,
         InitFails, Admit, PermitCancelled, Headers, ExchangeFails, Refused, CloseResponse,
         Submit
<1>3. UNCHANGED conn \/ conn' = [conn EXCEPT ![r] = None]
  BY DEF Acquired, WaitFails, LockConnect, LockCancelled,
         Connected, ConnectFails, Begin, NotAvailable, SendCancelled, InitLock, SendInit,
         InitFails, Admit, PermitCancelled, Headers, ExchangeFails, Refused, CloseResponse,
         Submit
<1>4. \E stage \in Stages \ Scanning : Goto(r, stage)
  BY DEF Stages, Scanning, Acquired, WaitFails, LockConnect, LockCancelled,
         Connected, ConnectFails, Begin, NotAvailable, SendCancelled, InitLock, SendInit,
         InitFails, Admit, PermitCancelled, Headers, ExchangeFails, Refused, CloseResponse,
         Submit
<1>5. QED BY <1>1, <1>2, <1>3, <1>4, FairMoves

LEMMA FairRest ==
  ASSUME ~Threads, PInv, FairInv, NEW t \in Tasks,
         CloseNext(t) \/ CloseDone(t) \/ (t \in Closers /\ AClose(t))
  PROVE  FairInv' /\ HandsOutNothing
<1>1. running \in {None, t} /\ pc[t] \notin Scanning /\ UNCHANGED conn
  BY DEF CloseNext, CloseDone, AClose, MayRun, Scanning
<1>2. \E stage \in Stages \ Scanning : Goto(t, stage) \/ UNCHANGED pc
  BY DEF CloseNext, CloseDone, AClose, Stages, Scanning, Resume
<1>3. QED BY <1>1, <1>2, FairMoves

LEMMA FairNetwork ==
  ASSUME ~Threads, PInv, FairInv, NEW c \in Conns, Expire(c) \/ GoAway(c)
  PROVE  FairInv' /\ HandsOutNothing
<1>1. running = None /\ UNCHANGED <<pc, conn>>
  BY DEF Expire, GoAway, MayRun
<1>2. \A r \in Requests : pc[r] \notin Scanning
  BY <1>1, NobodyScans, PoolAssumption DEF FairInv
<1>3. QED BY <1>1, <1>2, FairOutside DEF HandsOutNothing

\* A new pass begins with the first request.
LEMMA FairStart ==
  ASSUME ~Threads, PInv, FairInv, NEW r \in Requests, Assign(r) \/ Leave(r)
  PROVE  FairInv' /\ HandsOutNothing
<1>1. /\ pc \in [Tasks -> Stages] /\ Requests \subseteq Tasks
      /\ conn \in [Requests -> Conns \cup {None}]
  BY DEF PInv, TypeOK, Tasks
<1>2. /\ ~Locked /\ Goto(r, "sweep") /\ scan'.next = 1
      /\ UNCHANGED conn \/ conn' = [conn EXCEPT ![r] = None]
  BY DEF Assign, Leave, StartPass, EmptyScan
<1>3. /\ \A s \in Requests : pc'[s] \in Scanning => s = r
      /\ pc'[r] = "sweep" /\ running' = r
  BY <1>1, <1>2 DEF Locked, Goto, KeepsLoop, Scanning
<1>4. RunInv'
  BY <1>3 DEF RunInv
<1>5. ~At({"match", "taken"})' /\ ~At({"taken"})'
  BY <1>3 DEF At, Scanning
<1>6. TurnInv'
  BY <1>2, <1>5 DEF TurnInv
<1>7. HandsOutNothing
  BY <1>1, <1>2 DEF HandsOutNothing
<1>8. QED BY <1>4, <1>6, <1>7 DEF FairInv

\* The task in the pass, going on in the pass.
LEMMA RunsOn ==
  ASSUME ~Threads, PInv, RunInv, NEW r \in Requests, pc[r] \in Scanning,
         NEW stage \in Scanning,
         Goto(r, stage) \/ (UNCHANGED <<pc, running>> /\ stage = pc[r])
  PROVE  /\ RunInv'
         /\ \A stages \in SUBSET Scanning : At(stages) <=> pc[r] \in stages
         /\ \A stages \in SUBSET Scanning : At(stages)' <=> stage \in stages
<1>1. /\ pc \in [Tasks -> Stages] /\ Requests \subseteq Tasks
      /\ \A s \in Requests : pc[s] \in Scanning => s = r
  BY DEF PInv, PassInv, OneScanner, TypeOK, Tasks
<1>2. /\ \A s \in Requests : pc'[s] \in Scanning => s = r
      /\ pc'[r] = stage /\ running' = r
  BY <1>1 DEF Goto, KeepsLoop, RunInv
<1>3. QED BY <1>1, <1>2 DEF RunInv, At

LEMMA Turns ==
  /\ {"sweep", "trim", "snapshot"} \in SUBSET Scanning
  /\ {"match", "taken"} \in SUBSET Scanning /\ {"taken"} \in SUBSET Scanning
BY DEF Scanning

\* Clean-up hands out nothing and has nobody to look after.
LEMMA FairCleans ==
  ASSUME ~Threads, PInv, FairInv, NEW r \in Requests,
         \/ Sweep(r) \/ SweepDone(r) \/ Trim(r) \/ TrimDone(r)
         \/ Snapshot(r) \/ SnapshotDone(r)
  PROVE  FairInv' /\ HandsOutNothing
<1>1. /\ pc[r] \in {"sweep", "trim", "snapshot"} /\ UNCHANGED conn
      /\ scan \in Scan
  BY DEF Sweep, SweepDone, Trim, TrimDone, Snapshot, SnapshotDone, PInv, TypeOK
<1>2. scan'.next = scan.next
  BY <1>1 DEF Sweep, SweepDone, Trim, TrimDone, Snapshot, SnapshotDone, Scan
<1>3. PICK stage \in Scanning \ {"taken"} :
        Goto(r, stage) \/ (UNCHANGED <<pc, running>> /\ stage = pc[r])
  BY <1>1 DEF Sweep, SweepDone, Trim, TrimDone, Snapshot, SnapshotDone, Scanning
<1>4. /\ RunInv'
      /\ \A stages \in SUBSET Scanning : At(stages) <=> pc[r] \in stages
      /\ \A stages \in SUBSET Scanning : At(stages)' <=> stage \in stages
  BY <1>1, <1>3, RunsOn DEF FairInv, Scanning
<1>5. scan'.next = 1
  BY <1>1, <1>2, <1>4, Turns DEF FairInv, TurnInv
<1>6. Skipped' = {}
  <2>1. requests \in Seq(Requests) /\ requests' = requests
    BY DEF Sweep, SweepDone, Trim, TrimDone, Snapshot, SnapshotDone, PInv, TypeOK
  <2>2. DOMAIN requests = 1 .. Len(requests) /\ Len(requests) \in Nat
    BY <2>1, Elements
  <2>3. QED BY <1>5, <2>1, <2>2 DEF Skipped
<1>7. TurnInv'
  BY <1>3, <1>4, <1>5, <1>6, Turns DEF TurnInv
<1>8. QED BY <1>1, <1>4, <1>7 DEF FairInv, HandsOutNothing

\* While matching, the queue is a list without duplicates; who was left out stays
\* left out as long as the pass gives away and takes away only.
LEMMA StillSkipped ==
  ASSUME PInv, TurnInv, At({"match", "taken"}), requests' = requests, want' = want,
         scan'.budget <= scan.budget, scan'.budget \in Int, scan.budget \in Int,
         ToSet(scan'.avail) \subseteq ToSet(scan.avail),
         \A c \in ToSet(scan.avail) : link'[c] = link[c],
         \A i \in Skipped' : i \in Skipped \/ CannotServe(want[requests[i]])
  PROVE  \A i \in Skipped' : CannotServe(want[requests[i]])'
<1> SUFFICES ASSUME NEW i \in Skipped' PROVE CannotServe(want[requests[i]])'
  OBVIOUS
<1> DEFINE o == want[requests[i]]
<1>1. CannotServe(o)
  BY DEF TurnInv
<1>2. o' = o
  OBVIOUS
<1> HIDE DEF o
<1>3. ~MayCreate'
  BY <1>1 DEF CannotServe, MayCreate
<1>4. \A c \in ToSet(scan'.avail) : link'[c].home # o /\ ~IsIdle(c)'
  BY <1>1 DEF CannotServe, IsIdle
<1>5. QED BY <1>2, <1>3, <1>4 DEF CannotServe, o

\* Passed by: nothing could be done for the candidate.
LEMMA FairSkip ==
  ASSUME ~Threads, PInv, FairInv, NEW r \in Requests, Skip(r)
  PROVE  FairInv' /\ HandsOutNothing
<1>1. /\ Matching(r) /\ scan' = [scan EXCEPT !.next = @ + 1]
      /\ UNCHANGED <<requests, connections, link, pc, running, conn, want, closing>>
      /\ conn[Candidate] # None \/ (Fitting = {} /\ ~MayCreate /\ Evictable = {})
  BY DEF Skip
<1>2. /\ pc[r] = "match" /\ pc[r] \in Scanning /\ scan \in Scan
      /\ scan.avail \in Seq(Conns) /\ scan.budget \in Int /\ scan.next \in Nat \ {0}
  BY <1>1, MatchContext
<1>3. /\ RunInv'
      /\ \A stages \in SUBSET Scanning : At(stages) <=> pc[r] \in stages
      /\ \A stages \in SUBSET Scanning : At(stages)' <=> pc[r] \in stages
  BY <1>1, <1>2, RunsOn DEF FairInv
<1>4. scan'.next = scan.next + 1 /\ scan'.avail = scan.avail /\ scan'.budget = scan.budget
  BY <1>1, <1>2 DEF Scan
<1>5. At({"match", "taken"}) /\ ~At({"taken"})' /\ ~At({"sweep", "trim", "snapshot"})'
  BY <1>2, <1>3, Turns
<1>6. ASSUME NEW i \in Skipped' PROVE i \in Skipped \/ CannotServe(want[requests[i]])
  <2>1. i \in DOMAIN requests /\ i < scan.next + 1 /\ conn[requests[i]] = None
    BY <1>1, <1>4 DEF Skipped
  <2>2. i \in Nat
    BY <2>1, Elements DEF PInv, TypeOK
  <2>3. CASE i < scan.next
    BY <2>1, <2>3 DEF Skipped
  <2>4. CASE i = scan.next
    <3>1. Candidate = requests[i]
      BY <2>4 DEF Candidate
    <3>2. Fitting = {} /\ ~MayCreate /\ Evictable = {}
      BY <1>1, <2>1, <3>1
    <3>3. \A c \in ToSet(scan.avail) : \E k \in DOMAIN scan.avail : scan.avail[k] = c
      BY <1>2, Elements
    <3>4. QED BY <3>1, <3>2, <3>3 DEF CannotServe, Fitting, Evictable
  <2>5. QED BY <1>2, <2>1, <2>2, <2>3, <2>4
<1>7. \A i \in Skipped' : CannotServe(want[requests[i]])'
  BY <1>1, <1>2, <1>4, <1>5, <1>6, StillSkipped DEF FairInv
<1>8. TurnInv'
  BY <1>1, <1>5, <1>7 DEF TurnInv
<1>9. QED BY <1>1, <1>3, <1>8 DEF FairInv, HandsOutNothing

\* What has just been handed out comes off the list, and the turn passes on.
LEMMA FairTaken ==
  ASSUME ~Threads, PInv, FairInv, NEW r \in Requests, Taken(r)
  PROVE  FairInv' /\ HandsOutNothing
<1>1. /\ pc[r] = "taken" /\ Goto(r, "match")
      /\ UNCHANGED <<requests, connections, link, conn, want, closing>>
      /\ scan \in Scan /\ pc[r] \in Scanning /\ "match" \in Scanning
  BY DEF Taken, PInv, TypeOK, Scanning
<1>2. /\ RunInv'
      /\ \A stages \in SUBSET Scanning : At(stages) <=> pc[r] \in stages
      /\ \A stages \in SUBSET Scanning : At(stages)' <=> "match" \in stages
  BY <1>1, RunsOn DEF FairInv
<1>3. /\ At({"match", "taken"}) /\ At({"taken"}) /\ At({"snapshot", "match", "taken"})
      /\ ~At({"taken"})' /\ ~At({"sweep", "trim", "snapshot"})'
  BY <1>1, <1>2, Turns, ControlPoints
<1>4. /\ scan.next \in DOMAIN requests /\ conn[Candidate] # None
      /\ scan.hit \in DOMAIN scan.avail
      /\ scan.avail \in Seq(Conns) /\ scan.budget \in Int /\ scan.next \in Nat \ {0}
  BY <1>1, <1>3 DEF FairInv, TurnInv, PInv, PassInv, OfferInv, Scan
<1>5. /\ scan'.next = scan.next + 1 /\ scan'.budget = scan.budget
      /\ scan'.avail \in {scan.avail, RemoveAt(scan.avail, scan.hit)}
  BY <1>1, <1>4 DEF Taken, Scan
<1>6. ToSet(scan'.avail) \subseteq ToSet(scan.avail)
  BY <1>4, <1>5, RemoveAtList
<1>7. ASSUME NEW i \in Skipped' PROVE i \in Skipped
  <2>1. i \in DOMAIN requests /\ i < scan.next + 1 /\ conn[requests[i]] = None
    BY <1>1, <1>5 DEF Skipped
  <2>2. i \in Nat /\ i # scan.next
    BY <1>4, <2>1, Elements DEF PInv, TypeOK, Candidate
  <2>3. QED BY <1>4, <2>1, <2>2 DEF Skipped
<1>8. \A i \in Skipped' : CannotServe(want[requests[i]])'
  BY <1>1, <1>3, <1>4, <1>5, <1>6, <1>7, StillSkipped DEF FairInv
<1>9. TurnInv'
  BY <1>1, <1>3, <1>8 DEF TurnInv
<1>10. QED BY <1>1, <1>2, <1>9 DEF FairInv, HandsOutNothing

\* A connection is handed out to the candidate, and only if nobody in front of it
\* who wants the same has been left out.
HandsOutInTurn ==
  /\ scan.next \in DOMAIN requests
  /\ \A q \in Requests : conn[q] = None /\ conn'[q] # None => q = Candidate
  /\ \A i \in Skipped : want[requests[i]] # want[Candidate]

\* What can be done for the candidate could be done for the others of its origin.
LEMMA InTurn ==
  ASSUME PInv, TurnInv, NEW r \in Requests, Matching(r),
         Fitting # {} \/ MayCreate \/ Evictable # {}
  PROVE  /\ \A i \in Skipped : want[requests[i]] # want[Candidate]
         /\ MayCreate \/ Evictable # {} => Skipped = {}
<1>1. pc[r] = "match" /\ scan.avail \in Seq(Conns)
  BY MatchContext
<1>2. \A i \in Skipped : CannotServe(want[requests[i]])
  BY <1>1 DEF TurnInv, At
<1>3. \A k \in DOMAIN scan.avail : scan.avail[k] \in ToSet(scan.avail)
  BY <1>1, Elements
<1>4. ASSUME NEW i \in Skipped, MayCreate \/ Evictable # {} PROVE FALSE
  BY <1>2, <1>3, <1>4 DEF CannotServe, Evictable
<1>5. ASSUME NEW i \in Skipped, Fitting # {}, want[requests[i]] = want[Candidate] PROVE FALSE
  BY <1>2, <1>3, <1>5 DEF CannotServe, Fitting
<1>6. QED BY <1>4, <1>5

LEMMA FairHands ==
  ASSUME ~Threads, PInv, FairInv, NEW r \in Requests, Reuse(r) \/ Create(r) \/ Evict(r)
  PROVE  FairInv' /\ HandsOutInTurn
<1> DEFINE q == Candidate
<1>1. /\ Matching(r) /\ conn[q] = None /\ requests' = requests /\ want' = want
      /\ Fitting # {} \/ MayCreate \/ Evictable # {}
  BY DEF Reuse, Create, Evict
<1>2. /\ pc[r] = "match" /\ pc[r] \in Scanning /\ q \in Requests /\ scan \in Scan
      /\ scan.avail \in Seq(Conns) /\ scan.budget \in Int /\ scan.next \in Nat \ {0}
      /\ conn \in [Requests -> Conns \cup {None}] /\ None \notin Conns
      /\ ToSet(scan.avail) \subseteq Pooled
      /\ \A i \in Fitting \cup Evictable : i \in DOMAIN scan.avail
      /\ Fitting \subseteq Nat /\ Evictable \subseteq Nat
  BY <1>1, MatchContext, PoolAssumption
<1>3. scan.next \in DOMAIN requests
  <2>1. requests \in Seq(Requests) /\ ~(scan.next > Len(requests))
    BY <1>1 DEF Matching, MatchOver, PInv, TypeOK
  <2>2. DOMAIN requests = 1 .. Len(requests) /\ Len(requests) \in Nat
    BY <2>1, Elements
  <2>3. QED BY <1>2, <2>1, <2>2
<1>4. PICK c \in Conns : conn' = [conn EXCEPT ![q] = c]
  <2>1. CASE Reuse(r)
    <3>1. First(Fitting) \in DOMAIN scan.avail
      BY <1>2, <2>1, FirstIn DEF Reuse
    <3>2. QED BY <1>2, <2>1, <3>1, Elements DEF Reuse, q
  <2>2. CASE Create(r) \/ Evict(r)
    <3>1. PICK d \in Fresh : conn' = [conn EXCEPT ![q] = d]
      BY <2>2 DEF Create, Evict, q
    <3>2. QED BY <3>1 DEF Fresh
  <2>3. QED BY <2>1, <2>2
<1> HIDE DEF q
<1>5. /\ \A p \in Requests : p # q => conn'[p] = conn[p]
      /\ conn'[q] # None
  BY <1>2, <1>4
<1>6. HandsOutInTurn
  BY <1>1, <1>3, <1>5, InTurn DEF HandsOutInTurn, FairInv, q
<1>7. PICK stage \in {"match", "taken"} :
        /\ Goto(r, stage) \/ (UNCHANGED <<pc, running>> /\ stage = pc[r])
        /\ stage = "taken" <=> Reuse(r)
  <2>1. Reuse(r) => Goto(r, "taken") /\ Fitting # {}
    BY DEF Reuse
  <2>2. Create(r) \/ Evict(r) => UNCHANGED <<pc, running>> /\ Fitting = {}
    BY DEF Create, Evict
  <2>3. QED BY <1>2, <2>1, <2>2
<1>8. /\ RunInv'
      /\ \A stages \in SUBSET Scanning : At(stages) <=> pc[r] \in stages
      /\ \A stages \in SUBSET Scanning : At(stages)' <=> stage \in stages
  BY <1>2, <1>7, RunsOn DEF FairInv, Scanning
<1>9. At({"match", "taken"}) /\ ~At({"sweep", "trim", "snapshot"})'
      /\ (At({"taken"})' <=> Reuse(r))
  BY <1>2, <1>7, <1>8, Turns
<1>10. CASE Reuse(r)
  <2>1. /\ scan'.next = scan.next /\ scan'.budget = scan.budget /\ scan'.avail = scan.avail
        /\ link' = link
    BY <1>2, <1>10 DEF Reuse, Scan
  <2>2. ASSUME NEW i \in Skipped' PROVE i \in Skipped
    <3>1. i \in DOMAIN requests /\ i < scan.next /\ conn'[requests[i]] = None
      BY <1>1, <2>1 DEF Skipped
    <3>2. requests[i] \in Requests
      BY <3>1, Elements DEF PInv, TypeOK
    <3>3. QED BY <1>5, <3>1, <3>2 DEF Skipped
  <2>3. \A i \in Skipped' : CannotServe(want[requests[i]])'
    BY <1>1, <1>2, <1>9, <2>1, <2>2, StillSkipped DEF FairInv
  <2>4. Candidate' = q
    BY <1>1, <2>1 DEF Candidate, q
  <2>5. TurnInv'
    BY <1>1, <1>3, <1>5, <1>9, <2>1, <2>3, <2>4 DEF TurnInv
  <2>6. QED BY <1>6, <1>8, <2>5 DEF FairInv
<1>11. CASE Create(r) \/ Evict(r)
  <2>1. scan'.next = scan.next + 1
    BY <1>2, <1>11 DEF Create, Evict, Scan
  <2>2. ~Reuse(r)
    BY <1>11 DEF Reuse, Create, Evict
  <2>3. Skipped = {}
    BY <1>1, <1>11, InTurn DEF FairInv, Create, Evict
  <2>4. Skipped' = {}
    <3> SUFFICES ASSUME NEW i \in Skipped' PROVE FALSE
      OBVIOUS
    <3>1. i \in DOMAIN requests /\ i < scan.next + 1 /\ conn'[requests[i]] = None
      BY <1>1, <2>1 DEF Skipped
    <3>2. requests[i] \in Requests /\ i \in Nat
      BY <3>1, Elements DEF PInv, TypeOK
    <3>3. requests[i] # q
      BY <1>5, <3>1
    <3>4. i # scan.next
      BY <3>3 DEF Candidate, q
    <3>5. i \in Skipped
      BY <1>2, <1>5, <3>1, <3>2, <3>3, <3>4 DEF Skipped
    <3>6. QED BY <2>3, <3>5
  <2>5. TurnInv'
    BY <1>9, <2>2, <2>4 DEF TurnInv
  <2>6. QED BY <1>6, <1>8, <2>5 DEF FairInv
<1>12. QED BY <1>10, <1>11

\* The pass is over.
LEMMA FairDone ==
  ASSUME ~Threads, PInv, FairInv, NEW r \in Requests, MatchDone(r)
  PROVE  FairInv' /\ HandsOutNothing
<1>1. /\ UNCHANGED conn /\ pc[r] \in Scanning
      /\ pc \in [Tasks -> Stages] /\ Requests \subseteq Tasks
      /\ \A s \in Requests : pc[s] \in Scanning => s = r
  BY DEF MatchDone, Scanning, PInv, PassInv, OneScanner, TypeOK, Tasks
<1>2. \E stage \in Stages \ Scanning : Goto(r, stage)
  BY DEF MatchDone, Resume, Stages, Scanning
<1>3. \A s \in Requests : pc'[s] \notin Scanning
  BY <1>1, <1>2 DEF Goto
<1>4. QED BY <1>1, <1>3, FairOutside DEF HandsOutNothing

LEMMA FairInit == Init => FairInv
<1> SUFFICES ASSUME Init PROVE FairInv OBVIOUS
<1>1. \A r \in Requests : pc[r] = "start" BY DEF Init, Tasks
<1>2. QED BY <1>1 DEF FairInv, RunInv, TurnInv, At, Scanning

LEMMA FairNext ==
  ASSUME ~Threads, PInv, FairInv, [Next]_vars
  PROVE  FairInv' /\ (HandsOutNothing \/ HandsOutInTurn)
<1>1. ASSUME NEW r \in Requests, Pass(r) PROVE FairInv' /\ (HandsOutNothing \/ HandsOutInTurn)
  BY <1>1, FairCleans, FairSkip, FairTaken, FairHands, FairDone DEF Pass
<1>2. ASSUME NEW r \in Requests,
             Cancel(r) \/ Refused(r) \/ (\E o \in Origins : Submit(r, o))
      PROVE  FairInv' /\ HandsOutNothing
  BY <1>2, FairTasks DEF Cancel
<1>3. ASSUME NEW t \in Tasks, Progress(t)
      PROVE  FairInv' /\ (HandsOutNothing \/ HandsOutInTurn)
  <2>1. CASE CloseNext(t) \/ CloseDone(t)
    BY <2>1, FairRest
  <2>2. CASE t \in Requests /\ Pass(t)
    BY <1>1, <2>2
  <2>3. CASE t \in Requests /\ (Assign(t) \/ Leave(t))
    BY <2>3, FairStart
  <2>4. CASE t \in Requests /\ ( \/ Acquired(t)
                                 \/ LockConnect(t) \/ Connected(t) \/ ConnectFails(t)
                                 \/ Begin(t) \/ NotAvailable(t)
                                 \/ InitLock(t) \/ SendInit(t) \/ InitFails(t) \/ Admit(t)
                                 \/ Headers(t) \/ ExchangeFails(t)
                                 \/ CloseResponse(t) )
    BY <2>4, FairTasks
  <2>5. QED BY <1>3, <2>1, <2>2, <2>3, <2>4 DEF Progress
<1>4. ASSUME NEW k \in Closers, AClose(k) PROVE FairInv' /\ HandsOutNothing
  BY <1>4, FairRest DEF Tasks
<1>5. CASE UNCHANGED vars
  BY <1>5 DEF vars, FairInv, RunInv, TurnInv, HandsOutNothing, At, Skipped, CannotServe,
              MayCreate, IsIdle, Candidate
<1>6. QED
  BY <1>2, <1>3, <1>4, <1>5, FairNetwork DEF Next, Finished

\* Coroutines of one origin get their connections in the order in which they came:
\* a pass that can do nothing for a request can do nothing for those behind it.
THEOREM FirstComeIsServed == ~Threads => (Spec => FirstComeFirstServed)
<1> SUFFICES ASSUME ~Threads PROVE Spec => FirstComeFirstServed
  OBVIOUS
<1>1. Init => PInv /\ FairInv
  BY PInvInit, FairInit
<1>2. (PInv /\ FairInv) /\ [Next]_vars => (PInv /\ FairInv)'
  BY PInvNext, FairNext
<1> DEFINE InOrder == \A i, j \in DOMAIN requests :
             LET p == requests[i]
                 q == requests[j]
             IN i < j /\ want[p] = want[q] /\ conn[p] = None
                /\ conn[q] = None /\ conn'[q] # None => conn'[p] # None
<1>3. PInv /\ FairInv /\ [Next]_vars => InOrder
  <2> SUFFICES ASSUME PInv, FairInv, [Next]_vars,
                      NEW i \in DOMAIN requests, NEW j \in DOMAIN requests, i < j,
                      want[requests[i]] = want[requests[j]], conn[requests[i]] = None,
                      conn[requests[j]] = None, conn'[requests[j]] # None
               PROVE  FALSE
    OBVIOUS
  <2>1. requests[j] \in Requests /\ IsInjective(requests)
    BY Elements DEF PInv, TypeOK
  <2>2. HandsOutInTurn
    BY <2>1, FairNext DEF HandsOutNothing
  <2>3. requests[j] = requests[scan.next] /\ scan.next \in DOMAIN requests
    BY <2>1, <2>2 DEF HandsOutInTurn, Candidate
  <2>4. j = scan.next
    BY <2>1, <2>3 DEF IsInjective
  <2>5. i \in Skipped
    BY <2>4 DEF Skipped
  <2>6. QED BY <2>2, <2>3, <2>5 DEF HandsOutInTurn, Candidate
<1>4. QED BY <1>1, <1>2, <1>3, PTL DEF Spec, FirstComeFirstServed, InOrder

-----------------------------------------------------------------------------
(***************************************************************************)
(* Why an HTTP/1.1 pool of coroutines may trust its own list: a connection *)
(* is lent to one request at a time, nothing that is lent is closed, no    *)
(* socket is forgotten, and every step is a step of LeasePool.             *)
(*                                                                         *)
(* OneByOne names the case.  With threads the state of a connection        *)
(* changes under the pass, with HTTP/2 several requests share a            *)
(* connection, and aclose() closes what is lent: there these properties    *)
(* are not the code's.                                                     *)
(*                                                                         *)
(* The last part is about the limits, once it is known who may hold what:  *)
(* such a pool keeps no more idle connections than it may, and lets no     *)
(* request wait while it could serve it.                                   *)
(***************************************************************************)
OneByOne == ~Threads /\ ~Http2 /\ Closers = {}

-----------------------------------------------------------------------------
(***************************************************************************)
(* The invariant.                                                          *)
(***************************************************************************)
\* A coroutine in the pass, or about to begin it, keeps the event loop; one that
\* has connected keeps it, where taking a free lock does not suspend.
LoopInv ==
  \A r \in Requests :
    /\ pc[r] \in Scanning \cup {"assign"} => running = r
    /\ ~Checkpoints /\ pc[r] = "send" => running = r

\* Only HTTP/1.1; what has an open socket is in a state that is closed some day.
LinkOK(l) ==
  /\ l.proto = "h11" /\ l.broken = "no"
  /\ l.open => l.inner \in {"NEW", "ACTIVE", "IDLE"}

SocketInv == \A c \in Conns : LinkOK(link[c])

\* What a request that has a connection may find it in, by its stage.
Fit(stage, l) ==
  /\ stage \in {"active", "body"} => l.inner = "ACTIVE"
  /\ stage = "leaving" => l.inner # "ACTIVE"
  /\ stage = "send" => l.inner \in {"NEW", "IDLE"}
  /\ stage \notin {"active", "body", "leaving", "send"} =>
       l.inner = "IDLE" \/ (l.inner = "none" /\ ~l.failed)

\* A connection is lent to one request, which is in the queue.
LeaseInv ==
  /\ \A r \in Requests : r \notin InFlight => conn[r] = None
  /\ \A r, s \in Requests : conn[r] = conn[s] /\ conn[r] # None => r = s
  /\ \A r \in Requests : conn[r] # None => Fit(pc[r], link[conn[r]])

\* A busy connection is busy with a request.
BusyInv ==
  \A c \in Conns :
    /\ link[c].inner = "ACTIVE" =>
         \E r \in Requests : conn[r] = c /\ pc[r] \in {"active", "body"}
    /\ ~Checkpoints /\ link[c].inner = "NEW" =>
         \E r \in Requests : conn[r] = c /\ pc[r] = "send"

Free(c) == \A r \in Requests : conn[r] # c

\* The connections that are kept: during clean-up those of the lists walked.
Listed == IF At({"sweep", "trim"}) THEN ToSet(scan.todo) \cup ToSet(scan.kept)
                                   ELSE Pooled

Doomed == UNION {ToSet(closing[t]) : t \in Tasks}

\* What is lent and alive is listed, what is open is listed or will be closed,
\* and what will be closed is neither lent nor listed.
PlaceInv ==
  /\ \A r \in Requests : conn[r] # None /\ ~IsClosed(conn[r]) => conn[r] \in Listed
  /\ \A c \in Conns : link[c].open => c \in Listed \cup Doomed
  /\ \A c \in Doomed : Free(c) /\ c \notin Listed
  /\ Listed \subseteq Pooled

\* The pass knows who holds what until it hands out connections itself.
RefsInv ==
  At({"sweep", "trim", "snapshot"}) => scan.refs = {conn[r] : r \in Requests} \ {None}

\* What it offers is idle and free, except the one it has just handed out.
OfferedInv ==
  /\ At({"snapshot", "match", "taken"}) =>
       \A c \in ToSet(scan.avail) : link[c].inner = "IDLE"
  /\ At({"snapshot", "match"}) => \A c \in ToSet(scan.avail) : Free(c)
  /\ At({"taken"}) =>
       \A i \in DOMAIN scan.avail : i # scan.hit => Free(scan.avail[i])

HInv == /\ LoopInv /\ SocketInv /\ LeaseInv /\ BusyInv
        /\ PlaceInv /\ RefsInv /\ OfferedInv

-----------------------------------------------------------------------------
(***************************************************************************)
(* Who runs.                                                               *)
(***************************************************************************)
\* While a task runs outside the pass nobody is in the pass.
LEMMA Alone ==
  ASSUME LoopInv, NEW t, running \in {None, t},
         t \in Requests => pc[t] \notin Scanning \cup {"assign"}
  PROVE  ~Passing /\ \A stages \in SUBSET Scanning : ~At(stages)
<1>1. \A r \in Requests : pc[r] \notin Scanning \cup {"assign"}
  BY PoolAssumption DEF LoopInv
<1>2. QED BY <1>1 DEF Passing, At

\* A step of the task that runs.
LEMMA LoopMoves ==
  ASSUME OneByOne, TypeOK, LoopInv, NEW t \in Tasks, running \in {None, t},
         NEW stage, Goto(t, stage)
  PROVE  LoopInv'
<1>1. \A r \in Requests \ {t} : pc'[r] = pc[r] /\ running # r
  BY PoolAssumption DEF Goto, TypeOK, Tasks
<1>2. \A r \in Requests \ {t} :
        /\ pc[r] \notin Scanning \cup {"assign"}
        /\ ~Checkpoints => pc[r] # "send"
  BY <1>1 DEF LoopInv
<1>3. t \in Requests => pc'[t] = stage
  BY DEF Goto, TypeOK, Tasks
<1>4. stage \in Scanning \cup {"assign"} \/ (~Checkpoints /\ stage = "send") => running' = t
  BY DEF Goto, OneByOne, KeepsLoop
<1>5. QED BY <1>1, <1>2, <1>3, <1>4 DEF LoopInv


\* The control points the invariant names.
LEMMA Points ==
  /\ {"sweep", "trim"} \in SUBSET Scanning
  /\ {"sweep", "trim", "snapshot"} \in SUBSET Scanning
  /\ {"snapshot", "match", "taken"} \in SUBSET Scanning
  /\ {"snapshot", "match"} \in SUBSET Scanning
  /\ {"sweep"} \in SUBSET Scanning /\ {"trim"} \in SUBSET Scanning
  /\ {"snapshot"} \in SUBSET Scanning /\ {"taken"} \in SUBSET Scanning
  /\ {"match", "taken"} \in SUBSET Scanning
BY DEF Scanning

-----------------------------------------------------------------------------
(***************************************************************************)
(* A request at work on its connection.                                    *)
(***************************************************************************)
AtWork == {"waiting", "connect", "connecting", "send", "active", "body", "leaving"}

\* It leaves the pool, the queue and the connections of others alone, and
\* revives nothing.
WorksOnly(r) ==
  /\ UNCHANGED <<requests, connections, conn, closing, scan>>
  /\ ~Passing /\ ~Passing'
  /\ \A c \in Conns : c # conn[r] => link'[c] = link[c]
  /\ \A c \in Conns : IsClosed(c) => IsClosed(c)'

\* It moves on, and only the connection it was lent changes, in a way that
\* suits its new stage.
LEMMA WorkStep ==
  ASSUME OneByOne, TypeOK, TypeOK', HInv, NEW r \in Requests, running \in {None, r},
         pc[r] \in AtWork, NEW stage \in AtWork, Goto(r, stage),
         UNCHANGED <<requests, connections, conn, closing, scan>>,
         NEW l \in Link, link' = [link EXCEPT ![conn[r]] = l],
         conn[r] # None =>
           /\ LinkOK(l) /\ Fit(stage, l)
           /\ l.inner = "ACTIVE" => stage \in {"active", "body"}
           /\ ~Checkpoints /\ l.inner = "NEW" => stage = "send"
           /\ IsClosed(conn[r]) => IsClosed(conn[r])'
  PROVE  HInv' /\ WorksOnly(r)
<1>1. /\ conn \in [Requests -> Conns \cup {None}] /\ link \in [Conns -> Link]
      /\ pc \in [Tasks -> Stages] /\ r \in Tasks /\ None \notin Conns
      /\ Requests \subseteq Tasks
  BY PoolAssumption DEF TypeOK, Tasks
<1>2. \A q \in Requests : pc'[q] = IF q = r THEN stage ELSE pc[q]
  BY <1>1 DEF Goto
<1>3. \A c \in Conns : link'[c] = IF c = conn[r] THEN l ELSE link[c]
  BY <1>1
<1>4. stage \notin Scanning \cup {"assign"} /\ pc[r] \notin Scanning \cup {"assign"}
  BY DEF AtWork, Scanning
<1>5. ~Passing /\ \A stages \in SUBSET Scanning : ~At(stages)
  BY <1>4, Alone DEF HInv
<1>6. ~Passing' /\ \A stages \in SUBSET Scanning : ~At(stages)'
  BY <1>2, <1>4, <1>5 DEF Passing, At
<1>7. Listed = Pooled /\ Listed' = Pooled /\ Doomed' = Doomed
  BY <1>5, <1>6, Points DEF Listed, Pooled, Doomed
<1>8. \A c \in Conns : IsClosed(c) => IsClosed(c)'
  BY <1>1, <1>3 DEF IsClosed
<1>9. LoopInv'
  BY <1>1, LoopMoves DEF HInv
<1>10. SocketInv'
  BY <1>1, <1>3 DEF HInv, SocketInv
<1>11. LeaseInv'
  <2>1. \A q \in Requests : conn[q] # None /\ q # r => conn[q] # conn[r]
    BY DEF HInv, LeaseInv
  <2>2. \A q \in Requests : conn[q] # None => Fit(pc'[q], link'[conn[q]])
    BY <1>1, <1>2, <1>3, <2>1 DEF HInv, LeaseInv
  <2>3. QED BY <2>2 DEF HInv, LeaseInv, InFlight
<1>12. BusyInv'
  <2> SUFFICES ASSUME NEW c \in Conns
               PROVE  /\ link'[c].inner = "ACTIVE" =>
                           \E q \in Requests : conn'[q] = c /\ pc'[q] \in {"active", "body"}
                      /\ ~Checkpoints /\ link'[c].inner = "NEW" =>
                           \E q \in Requests : conn'[q] = c /\ pc'[q] = "send"
    BY DEF BusyInv
  <2>1. CASE c = conn[r]
    <3>1. /\ link'[c].inner = "ACTIVE" => stage \in {"active", "body"}
          /\ ~Checkpoints /\ link'[c].inner = "NEW" => stage = "send"
      BY <1>1, <1>3, <2>1
    <3>2. conn'[r] = c /\ pc'[r] = stage
      BY <1>2, <2>1
    <3>3. QED BY <3>1, <3>2
  <2>2. CASE c # conn[r]
    <3>1. link'[c] = link[c] /\ (\A q \in Requests : conn[q] = c => pc'[q] = pc[q])
      BY <1>2, <1>3, <2>2
    <3>2. QED BY <3>1 DEF HInv, BusyInv
  <2>3. QED BY <2>1, <2>2
<1>13. PlaceInv'
  <2>1. \A c : Free(c)' = Free(c) BY DEF Free
  <2>2. \A q \in Requests : conn[q] # None /\ ~IsClosed(conn[q])' => conn[q] \in Listed'
    BY <1>1, <1>7, <1>8 DEF HInv, PlaceInv
  <2>3. ASSUME NEW c \in Conns, link'[c].open PROVE c \in Listed' \cup Doomed'
    <3>1. CASE c # conn[r] BY <1>3, <1>7, <2>3, <3>1 DEF HInv, PlaceInv
    <3>2. CASE c = conn[r]
      <4>1. ~IsClosed(c)'
        BY <1>1, <1>3, <1>10, <2>3 DEF IsClosed, SocketInv, LinkOK
      <4>2. QED BY <1>1, <2>2, <3>2, <4>1
    <3>3. QED BY <3>1, <3>2
  <2>4. \A c \in Doomed' : Free(c)' /\ c \notin Listed'
    BY <1>7, <2>1 DEF HInv, PlaceInv
  <2>5. Listed' \subseteq Pooled' BY <1>7 DEF Pooled
  <2>6. QED BY <2>2, <2>3, <2>4, <2>5 DEF PlaceInv
<1>14. RefsInv' /\ OfferedInv'
  BY <1>6, Points DEF RefsInv, OfferedInv
<1>15. QED
  BY <1>3, <1>5, <1>6, <1>8, <1>9, <1>10, <1>11, <1>12, <1>13, <1>14
  DEF HInv, WorksOnly

\* What the stage of a request says of its connection.
LEMMA LentLink ==
  ASSUME IInv, HInv, NEW r \in Requests, pc[r] \in Holding
  PROVE  /\ conn[r] \in Conns /\ link[conn[r]] \in Link /\ LinkOK(link[conn[r]])
         /\ Fit(pc[r], link[conn[r]])
         /\ pc[r] = "connecting" => link[conn[r]].inner = "none"
<1>1. conn[r] \in Conns /\ conn[r] # None /\ link[conn[r]] \in Link
  BY PoolAssumption DEF IInv, PInv, TypeOK, UseInv, Sound
<1>2. LinkOK(link[conn[r]]) /\ Fit(pc[r], link[conn[r]])
  BY <1>1 DEF HInv, SocketInv, LeaseInv
<1>3. pc[r] = "connecting" => link[conn[r]].inner = "none"
  BY DEF IInv, UseInv, Sound
<1>4. QED BY <1>1, <1>2, <1>3

\* Steps that leave the connection as it is.
LEMMA IdleSteps ==
  ASSUME OneByOne, IInv, TypeOK', HInv, NEW r \in Requests,
         \/ Acquired(r) \/ WaitFails(r) \/ LockConnect(r) \/ SendCancelled(r) \/ Headers(r)
  PROVE  HInv' /\ WorksOnly(r)
<1>1. /\ link \in [Conns -> Link] /\ conn \in [Requests -> Conns \cup {None}] /\ TypeOK
      /\ None \notin Conns
  BY PoolAssumption DEF IInv, PInv, TypeOK
<1>2. link' = link /\ UNCHANGED <<requests, connections, conn, closing, scan>>
  BY DEF Acquired, WaitFails, LockConnect, SendCancelled, Headers
<1>3. running \in {None, r} /\ pc[r] \in AtWork
  BY DEF Acquired, WaitFails, LockConnect, SendCancelled, Headers, MayRun, Cancellable,
         OneByOne, AtWork
<1>4. PICK stage \in AtWork :
        /\ Goto(r, stage)
        /\ conn[r] # None => Fit(stage, link[conn[r]])
        /\ conn[r] # None /\ link[conn[r]].inner = "ACTIVE" => stage \in {"active", "body"}
        /\ conn[r] # None /\ ~Checkpoints /\ link[conn[r]].inner = "NEW" => stage = "send"
  <2>1. conn[r] # None => Fit(pc[r], link[conn[r]])
    BY DEF HInv, LeaseInv
  <2>2. CASE Acquired(r)
    BY <2>1, <2>2 DEF Acquired, AtWork, Fit
  <2>3. CASE WaitFails(r)
    BY <2>1, <2>3 DEF WaitFails, AtWork, Fit
  <2>4. CASE LockConnect(r)
    BY <2>1, <2>4 DEF LockConnect, AtWork, Fit
  <2>5. CASE SendCancelled(r)
    <3>1. Checkpoints
      BY <2>5, PoolAssumption DEF SendCancelled, Cancellable, HInv, LoopInv
    <3>2. QED BY <2>1, <2>5, <3>1 DEF SendCancelled, AtWork, Fit
  <2>6. CASE Headers(r)
    BY <2>1, <2>6 DEF Headers, AtWork, Fit
  <2>7. QED BY <2>2, <2>3, <2>4, <2>5, <2>6
<1>5. conn[r] # None => conn[r] \in Conns /\ LinkOK(link[conn[r]])
  BY <1>1 DEF HInv, SocketInv
<1>6. PICK l \in Link : /\ link' = [link EXCEPT ![conn[r]] = l]
                        /\ conn[r] # None => l = link[conn[r]]
  <2>1. CASE conn[r] # None
    <3>1. link' = [link EXCEPT ![conn[r]] = link[conn[r]]] /\ link[conn[r]] \in Link
      BY <1>1, <1>2, <1>5, <2>1
    <3>2. QED BY <3>1
  <2>2. CASE conn[r] = None
    <3>1. PICK l : l \in Link
      BY NewLinkType
    <3>2. link' = [link EXCEPT ![conn[r]] = l]
      BY <1>1, <1>2, <2>2
    <3>3. QED BY <2>2, <3>1, <3>2
  <2>3. QED BY <2>1, <2>2
<1>7. conn[r] # None =>
        /\ LinkOK(l) /\ Fit(stage, l)
        /\ l.inner = "ACTIVE" => stage \in {"active", "body"}
        /\ ~Checkpoints /\ l.inner = "NEW" => stage = "send"
        /\ IsClosed(conn[r]) => IsClosed(conn[r])'
  <2>1. IsClosed(conn[r]) => IsClosed(conn[r])'
    BY <1>2 DEF IsClosed
  <2>2. QED BY <1>4, <1>5, <1>6, <2>1
<1>8. TypeOK /\ Goto(r, stage) /\ stage \in AtWork
  BY <1>1, <1>4
<1>9. QED BY <1>2, <1>3, <1>6, <1>7, <1>8, WorkStep

\* The end of an HTTP/1.1 exchange: idle or closed.
LEMMA ExchangeEnds ==
  ASSUME NEW r, NEW l \in Link, LinkOK(l), l.inner = "ACTIVE", NEW b \in BOOLEAN
  PROVE  /\ ResponseClosed(r, l, b) \in Link /\ LinkOK(ResponseClosed(r, l, b))
         /\ ResponseClosed(r, l, b).inner \in {"IDLE", "CLOSED"}
<1>1. ResponseClosed(r, l, b) = Closed11(l, b)
  BY DEF ResponseClosed, LinkOK
<1>2. CASE b
  <2>1. Closed11(l, b) = [l EXCEPT !.inner = "IDLE", !.expired = ~l.open]
    BY <1>2 DEF Closed11
  <2>2. QED BY <1>1, <2>1, ZenonT(60) DEF LinkOK, Link
<1>3. CASE ~b
  <2>1. Closed11(l, b) = [l EXCEPT !.inner = "CLOSED", !.open = FALSE]
    BY <1>3 DEF Closed11, Shut
  <2>2. QED BY <1>1, <2>1, ZenonT(60) DEF LinkOK, Link
<1>4. QED BY <1>2, <1>3

\* Connecting, and giving it up.
LEMMA ConnectSteps ==
  ASSUME OneByOne, IInv, TypeOK', HInv, NEW r \in Requests,
         LockCancelled(r) \/ Connected(r) \/ ConnectFails(r)
  PROVE  HInv' /\ WorksOnly(r)
<1>1. /\ pc[r] \in Holding /\ pc[r] \in AtWork /\ running \in {None, r} /\ TypeOK
      /\ UNCHANGED <<requests, connections, conn, closing, scan>>
      /\ link \in [Conns -> Link]
  BY DEF LockCancelled, Connected, ConnectFails, MayRun, Cancellable, OneByOne, Holding,
         AtWork, IInv, PInv, TypeOK
<1> DEFINE old == link[conn[r]]
<1>2. /\ conn[r] \in Conns /\ old \in Link /\ LinkOK(old) /\ Fit(pc[r], old)
      /\ pc[r] = "connecting" => old.inner = "none"
  BY <1>1, LentLink
<1>3. CASE LockCancelled(r) \/ ConnectFails(r)
  <2> DEFINE l == [old EXCEPT !.failed = TRUE]
  <2>1. l \in Link /\ LinkOK(l) /\ l.inner = old.inner /\ l.failed
    BY <1>2 DEF Link, LinkOK
  <2>2. link' = [link EXCEPT ![conn[r]] = l] /\ Goto(r, "leaving") /\ "leaving" \in AtWork
    BY <1>3 DEF LockCancelled, ConnectFails, AtWork
  <2>3. old.inner \in {"none", "IDLE"}
    BY <1>2, <1>3 DEF LockCancelled, ConnectFails, Fit
  <2> HIDE DEF l
  <2>4. Fit("leaving", l) /\ l.inner \notin {"ACTIVE", "NEW"}
    BY <2>1, <2>3 DEF Fit
  <2>5. IsClosed(conn[r]) => IsClosed(conn[r])'
    BY <1>1, <1>2, <2>1, <2>2 DEF IsClosed
  <2>6. QED BY <1>1, <2>1, <2>2, <2>4, <2>5, WorkStep
<1>4. CASE Connected(r)
  <2> DEFINE l == [old EXCEPT !.proto = "h11", !.open = TRUE, !.inner = "NEW"]
  <2>1. /\ l \in Link /\ l.inner = "NEW" /\ l.proto = "h11" /\ l.broken = old.broken
    BY <1>2 DEF Link
  <2>2. link' = [link EXCEPT ![conn[r]] = l] /\ Goto(r, "send") /\ "send" \in AtWork
    BY <1>4 DEF Connected, AtWork, OneByOne
  <2>3. ~IsClosed(conn[r])
    BY <1>2, <1>4 DEF Connected, Fit, IsClosed
  <2> HIDE DEF l
  <2>4. LinkOK(l) /\ Fit("send", l)
    BY <1>2, <2>1 DEF Fit, LinkOK
  <2>5. QED BY <1>1, <2>1, <2>2, <2>3, <2>4, WorkStep
<1>5. QED BY <1>3, <1>4

\* The exchange.
LEMMA ExchangeSteps ==
  ASSUME OneByOne, IInv, TypeOK', HInv, NEW r \in Requests,
         Begin(r) \/ ExchangeFails(r) \/ CloseResponse(r)
  PROVE  HInv' /\ WorksOnly(r)
<1>1. /\ pc[r] \in Holding /\ pc[r] \in AtWork /\ running \in {None, r} /\ TypeOK
      /\ UNCHANGED <<requests, connections, conn, closing, scan>>
      /\ link \in [Conns -> Link]
  BY DEF Begin, ExchangeFails, CloseResponse, MayRun, OneByOne, Holding, AtWork,
         IInv, PInv, TypeOK
<1> DEFINE old == link[conn[r]]
<1>2. /\ conn[r] \in Conns /\ old \in Link /\ LinkOK(old) /\ Fit(pc[r], old)
  BY <1>1, LentLink
<1>3. CASE Begin(r)
  <2> DEFINE l == [old EXCEPT !.inner = "ACTIVE", !.expired = FALSE]
  <2>1. l \in Link /\ LinkOK(l) /\ l.inner = "ACTIVE"
    BY <1>2 DEF Link, LinkOK
  <2>2. link' = [link EXCEPT ![conn[r]] = l] /\ Goto(r, "active") /\ "active" \in AtWork
    BY <1>2, <1>3 DEF Begin, AtWork, LinkOK
  <2>3. ~IsClosed(conn[r])
    BY <1>2, <1>3 DEF Begin, Fit, IsClosed
  <2> HIDE DEF l
  <2>4. Fit("active", l)
    BY <2>1 DEF Fit
  <2>5. QED BY <1>1, <2>1, <2>2, <2>3, <2>4, WorkStep
<1>4. CASE ExchangeFails(r) \/ CloseResponse(r)
  <2>1. old.inner = "ACTIVE"
    BY <1>2, <1>4 DEF ExchangeFails, CloseResponse, Fit
  <2>2. PICK b \in BOOLEAN : link' = [link EXCEPT ![conn[r]] = ResponseClosed(r, old, b)]
    <3>1. [old EXCEPT !.broken = old.broken] = old
      BY <1>2 DEF Link
    <3>2. Faults(old) = {old.broken}
      BY <1>2 DEF Faults, LinkOK
    <3>3. CASE ExchangeFails(r)
      <4>1. link' = [link EXCEPT ![conn[r]] = ResponseClosed(r, old, FALSE)]
        BY <1>1, <1>2, <3>1, <3>2, <3>3 DEF ExchangeFails
      <4>2. QED BY <4>1
    <3>4. CASE CloseResponse(r)
      <4>1. \/ link' = [link EXCEPT ![conn[r]] = ResponseClosed(r, old, TRUE)]
            \/ link' = [link EXCEPT ![conn[r]] = ResponseClosed(r, old, FALSE)]
        BY <1>1, <1>2, <3>1, <3>2, <3>4 DEF CloseResponse
      <4>2. QED BY <4>1
    <3>5. QED BY <1>4, <3>3, <3>4
  <2> DEFINE l == ResponseClosed(r, old, b)
  <2>3. l \in Link /\ LinkOK(l) /\ l.inner \in {"IDLE", "CLOSED"}
    BY <1>2, <2>1, ExchangeEnds
  <2>4. Goto(r, "leaving") /\ "leaving" \in AtWork
    BY <1>4 DEF ExchangeFails, CloseResponse, AtWork
  <2>5. ~IsClosed(conn[r])
    BY <2>1 DEF IsClosed
  <2>6. link' = [link EXCEPT ![conn[r]] = l]
    BY <2>2
  <2> HIDE DEF l
  <2>7. Fit("leaving", l)
    BY <2>3 DEF Fit
  <2>8. QED BY <1>1, <2>3, <2>4, <2>5, <2>6, <2>7, WorkStep
<1>5. QED BY <1>3, <1>4

-----------------------------------------------------------------------------
(***************************************************************************)
(* A request enters and leaves the queue.                                  *)
(***************************************************************************)
\* The stages that ask nothing of the connection but that it is not in use.
Quiet == Scanning \cup {"start", "assign", "closing", "waiting", "connect", "done"}

\* A move between such stages.
LEMMA QuietKeeps ==
  ASSUME TypeOK, HInv, NEW r \in Requests, pc[r] \in Quiet, NEW stage \in Quiet,
         pc' = [pc EXCEPT ![r] = stage],
         UNCHANGED <<link, conn>>, InFlight \subseteq InFlight'
  PROVE  SocketInv' /\ LeaseInv' /\ BusyInv'
<1>1. \A q \in Requests : pc'[q] = IF q = r THEN stage ELSE pc[q]
  BY DEF TypeOK, Tasks
<1>2. /\ pc[r] \notin {"active", "body", "leaving", "send"}
      /\ stage \notin {"active", "body", "leaving", "send"}
  BY DEF Quiet, Scanning
<1>3. SocketInv'
  BY DEF HInv, SocketInv
<1>4. \A q \in Requests : conn[q] # None => Fit(pc'[q], link[conn[q]])
  BY <1>1, <1>2 DEF HInv, LeaseInv, Fit
<1>5. LeaseInv'
  BY <1>4 DEF HInv, LeaseInv
<1>6. BusyInv'
  <2>1. \A q \in Requests : /\ pc[q] \in {"active", "body"} => pc'[q] = pc[q]
                            /\ pc[q] = "send" => pc'[q] = pc[q]
    BY <1>1, <1>2
  <2>2. QED BY <2>1 DEF HInv, BusyInv
<1>7. QED BY <1>3, <1>5, <1>6

\* What the tasks are going to close are connections.
LEMMA DoomedConns ==
  ASSUME TypeOK
  PROVE  Doomed \subseteq Conns
<1>1. \A t \in Tasks : closing[t] \in Seq(Conns) BY DEF TypeOK
<1>2. \A t \in Tasks : ToSet(closing[t]) \subseteq Conns BY <1>1, Elements
<1>3. QED BY <1>2 DEF Doomed

\* What leaves the lists is free or dead; an open one is going to be closed.
LEMMA PlaceKeeps ==
  ASSUME TypeOK, PlaceInv,
         \A q \in Requests : conn'[q] \in {None, conn[q]},
         UNCHANGED link, Listed' \subseteq Listed, Listed' \subseteq Pooled',
         \A c \in Listed \ Listed' :
           /\ Free(c) \/ IsClosed(c)
           /\ link[c].open => c \in Doomed',
         Doomed \subseteq Doomed',
         \A c \in Doomed' \ Doomed : Free(c) /\ c \in Conns /\ c \notin Listed'
  PROVE  PlaceInv'
<1>1. \A c \in Conns : Free(c) => Free(c)'
  BY PoolAssumption DEF Free
<1>2. ASSUME NEW q \in Requests, conn'[q] # None, ~IsClosed(conn[q])'
      PROVE  conn'[q] \in Listed'
  <2>1. conn'[q] = conn[q] /\ ~IsClosed(conn[q])
    BY <1>2 DEF IsClosed
  <2>2. conn[q] \in Listed
    BY <1>2, <2>1 DEF PlaceInv
  <2>3. ~Free(conn[q])
    BY DEF Free
  <2>4. QED BY <2>1, <2>2, <2>3
<1>3. \A c \in Conns : link'[c].open => c \in Listed' \cup Doomed'
  BY DEF PlaceInv
<1>4. \A c \in Doomed' : Free(c)' /\ c \notin Listed'
  BY <1>1, DoomedConns DEF PlaceInv
<1>5. QED BY <1>2, <1>3, <1>4 DEF PlaceInv

\* Nobody is in the pass while its lock is free.
LEMMA Unlocked ==
  ASSUME ~Locked
  PROVE  /\ Listed = Pooled
         /\ \A stages \in SUBSET Scanning : ~At(stages)
<1>1. \A stages \in SUBSET Scanning : ~At(stages)
  BY DEF Locked, At
<1>2. QED BY <1>1, Points DEF Listed

\* A task goes on to a stage outside the pass; nobody is in the pass then.
LEMMA GoesOutside ==
  ASSUME TypeOK, NEW t \in Tasks, NEW stage, stage \notin Scanning,
         pc' = [pc EXCEPT ![t] = stage],
         \A q \in Requests \ {t} : pc[q] \notin Scanning
  PROVE  /\ Listed' = Pooled' /\ RefsInv' /\ OfferedInv'
         /\ \A stages \in SUBSET Scanning : ~At(stages)'
<1>1. \A q \in Requests : pc'[q] \notin Scanning
  BY DEF TypeOK, Tasks
<1>2. \A stages \in SUBSET Scanning : ~At(stages)'
  BY <1>1 DEF At
<1>3. QED BY <1>2, Points DEF Listed, RefsInv, OfferedInv

LEMMA SubmitKeeps ==
  ASSUME OneByOne, IInv, TypeOK', HInv, NEW r \in Requests, NEW o \in Origins, Submit(r, o)
  PROVE  HInv'
<1>1. /\ pc[r] = "start" /\ ~Locked /\ running \in {None, r}
      /\ Goto(r, "assign") /\ requests' = Append(requests, r)
      /\ UNCHANGED <<connections, link, conn, closing, scan>>
  BY DEF Submit, MayRun, OneByOne
<1>2. /\ pc' = [pc EXCEPT ![r] = "assign"] /\ TypeOK /\ r \in Tasks
      /\ "start" \in Quiet /\ "assign" \in Quiet /\ "assign" \notin Scanning
  BY <1>1 DEF Goto, IInv, PInv, Tasks, Quiet, Scanning
<1>3. InFlight \subseteq InFlight'
  BY <1>1, <1>2, AppendList DEF TypeOK, InFlight
<1>4. SocketInv' /\ LeaseInv' /\ BusyInv'
  BY <1>1, <1>2, <1>3, QuietKeeps
<1>5. LoopInv'
  BY <1>1, <1>2, LoopMoves DEF HInv
<1>6. Listed = Pooled /\ Listed' = Pooled' /\ RefsInv' /\ OfferedInv'
  BY <1>1, <1>2, Unlocked, GoesOutside DEF Locked
<1>7. PlaceInv'
  <2>1. Pooled' = Pooled /\ Doomed' = Doomed
    BY <1>1 DEF Pooled, Doomed
  <2>2. QED BY <1>1, <1>2, <1>6, <2>1, PlaceKeeps DEF HInv
<1>8. QED BY <1>4, <1>5, <1>6, <1>7 DEF HInv

\* What the locals of a new pass are.
LEMMA NewPass ==
  ASSUME TypeOK, NEW r \in Requests, ~Locked, NEW q, NEW a, StartPass(r, q, a),
         UNCHANGED connections
  PROVE  /\ pc' = [pc EXCEPT ![r] = "sweep"] /\ Goto(r, "sweep")
         /\ scan'.refs = {a[p] : p \in ToSet(q)} \ {None}
         /\ scan'.todo = connections /\ scan'.kept = << >> /\ scan'.avail = << >>
         /\ Listed' = Pooled /\ Pooled' = Pooled
         /\ OfferedInv'
<1>1. pc' = [pc EXCEPT ![r] = "sweep"] /\ Goto(r, "sweep")
  BY DEF StartPass, Goto
<1>2. /\ scan'.refs = {a[p] : p \in ToSet(q)} \ {None}
      /\ scan'.todo = connections /\ scan'.kept = << >> /\ scan'.avail = << >>
  BY DEF StartPass, EmptyScan
<1>3. ToSet(<< >>) = {}
  BY EmptyList
<1>4. \A s \in Requests : pc'[s] = IF s = r THEN "sweep" ELSE pc[s]
  BY <1>1 DEF TypeOK, Tasks
<1>5. /\ At({"sweep", "trim"})' /\ ~At({"snapshot", "match", "taken"})'
      /\ ~At({"snapshot", "match"})' /\ ~At({"taken"})'
  BY <1>4 DEF At, Locked, Scanning
<1>6. Listed' = Pooled /\ Pooled' = Pooled
  BY <1>2, <1>3, <1>5 DEF Listed, Pooled
<1>7. OfferedInv'
  BY <1>5 DEF OfferedInv
<1>8. QED BY <1>1, <1>2, <1>6, <1>7

LEMMA AssignKeeps ==
  ASSUME OneByOne, IInv, TypeOK', HInv, NEW r \in Requests, Assign(r)
  PROVE  HInv'
<1>1. /\ pc[r] = "assign" /\ ~Locked /\ running \in {None, r}
      /\ StartPass(r, requests, conn)
      /\ UNCHANGED <<requests, connections, link, conn, closing>>
  BY DEF Assign, MayRun, OneByOne
<1>2. TypeOK /\ r \in Tasks /\ "assign" \in Quiet /\ "sweep" \in Quiet
  BY DEF IInv, PInv, Tasks, Quiet, Scanning
<1>3. /\ pc' = [pc EXCEPT ![r] = "sweep"] /\ Goto(r, "sweep")
      /\ scan'.refs = {conn[p] : p \in ToSet(requests)} \ {None}
      /\ Listed' = Pooled /\ Pooled' = Pooled /\ OfferedInv'
  BY <1>1, <1>2, NewPass
<1>4. SocketInv' /\ LeaseInv' /\ BusyInv'
  BY <1>1, <1>2, <1>3, QuietKeeps DEF InFlight
<1>5. LoopInv'
  BY <1>1, <1>2, <1>3, LoopMoves DEF HInv
<1>6. RefsInv'
  <2>1. \A p \in Requests : p \in ToSet(requests) \/ conn[p] = None
    BY DEF HInv, LeaseInv, InFlight
  <2>2. ToSet(requests) \subseteq Requests
    BY <1>2, Elements DEF TypeOK
  <2>3. {conn[p] : p \in ToSet(requests)} \ {None} = {conn[p] : p \in Requests} \ {None}
    BY <2>1, <2>2
  <2>4. QED BY <1>1, <1>3, <2>3 DEF RefsInv
<1>7. PlaceInv'
  <2>1. Doomed' = Doomed /\ Listed = Pooled
    BY <1>1, Unlocked DEF Doomed
  <2>2. QED BY <1>1, <1>2, <1>3, <2>1, PlaceKeeps DEF HInv
<1>8. QED BY <1>3, <1>4, <1>5, <1>6, <1>7 DEF HInv

LEMMA LeaveKeeps ==
  ASSUME OneByOne, IInv, TypeOK', HInv, NEW r \in Requests, Leave(r)
  PROVE  HInv'
<1> DEFINE q == Without(requests, r)
<1>1. /\ pc[r] = "leaving" /\ ~Locked /\ running \in {None, r}
      /\ requests' = q /\ conn' = [conn EXCEPT ![r] = None]
      /\ StartPass(r, q, conn)
      /\ UNCHANGED <<connections, link, closing>>
  BY DEF Leave, MayRun, OneByOne
<1>2. TypeOK /\ r \in Tasks /\ "leaving" \in Queued /\ r \in InFlight
  BY <1>1 DEF IInv, PInv, Tasks, Queued, QueueInv
<1>3. ToSet(q) = InFlight \ {r} /\ InFlight \subseteq Requests
  BY <1>2, WithoutList, Elements DEF TypeOK, InFlight
<1> HIDE DEF q
<1>4. /\ pc' = [pc EXCEPT ![r] = "sweep"] /\ Goto(r, "sweep")
      /\ scan'.refs = {conn[p] : p \in ToSet(q)} \ {None}
      /\ Listed' = Pooled /\ Pooled' = Pooled /\ OfferedInv'
  BY <1>1, <1>2, NewPass
<1>5. /\ \A s \in Requests : pc'[s] = IF s = r THEN "sweep" ELSE pc[s]
      /\ \A s \in Requests : conn'[s] = IF s = r THEN None ELSE conn[s]
  BY <1>1, <1>4 DEF TypeOK, Tasks
<1>6. LoopInv'
  BY <1>1, <1>2, <1>4, LoopMoves DEF HInv
<1>7. SocketInv'
  BY <1>1 DEF HInv, SocketInv
<1>8. LeaseInv'
  <2>1. InFlight' = InFlight \ {r}
    BY <1>1, <1>3 DEF InFlight
  <2>2. QED BY <1>1, <1>5, <2>1 DEF HInv, LeaseInv
<1>9. BusyInv'
  <2>1. \A c \in Conns : link[c].inner = "ACTIVE" => conn[r] # c
    BY <1>1, PoolAssumption DEF HInv, LeaseInv, Fit
  <2>2. ASSUME NEW c \in Conns, link[c].inner = "ACTIVE"
        PROVE  \E s \in Requests : conn'[s] = c /\ pc'[s] \in {"active", "body"}
    BY <1>1, <1>5, <2>1, <2>2 DEF HInv, BusyInv
  <2>3. ASSUME NEW c \in Conns, ~Checkpoints, link[c].inner = "NEW"
        PROVE  \E s \in Requests : conn'[s] = c /\ pc'[s] = "send"
    BY <1>1, <1>5, <2>3 DEF HInv, BusyInv
  <2>4. QED BY <1>1, <2>2, <2>3 DEF BusyInv
<1>10. RefsInv'
  <2>1. \A p \in Requests \ ToSet(q) : conn'[p] = None
    BY <1>3, <1>5 DEF HInv, LeaseInv
  <2>2. \A p \in ToSet(q) : p \in Requests /\ conn'[p] = conn[p]
    BY <1>3, <1>5
  <2>3. {conn[p] : p \in ToSet(q)} \ {None} = {conn'[p] : p \in Requests} \ {None}
    BY <2>1, <2>2
  <2>4. QED BY <1>4, <2>3 DEF RefsInv
<1>11. PlaceInv'
  <2>1. Doomed' = Doomed /\ Listed = Pooled
    BY <1>1, Unlocked DEF Doomed
  <2>2. \A s \in Requests : conn'[s] \in {None, conn[s]}
    BY <1>5
  <2>3. QED BY <1>1, <1>2, <1>4, <2>1, <2>2, PlaceKeeps DEF HInv
<1>12. QED BY <1>4, <1>6, <1>7, <1>8, <1>9, <1>10, <1>11 DEF HInv

-----------------------------------------------------------------------------
(***************************************************************************)
(* Closing, and what the network does.                                     *)
(***************************************************************************)
\* A closing list is walked: its head is shut, the rest stays doomed.
LEMMA CloseNextKeeps ==
  ASSUME OneByOne, IInv, TypeOK', HInv, NEW t \in Tasks, CloseNext(t)
  PROVE  HInv' /\ \A c \in Conns : IsClosed(c) => IsClosed(c)'
<1> DEFINE d == Head(closing[t])
<1>1. /\ pc[t] = "closing" /\ closing[t] # << >> /\ running \in {None, t}
      /\ link' = [link EXCEPT ![d] = Shut(link[d])]
      /\ closing' = [closing EXCEPT ![t] = Tail(closing[t])]
      /\ UNCHANGED <<requests, connections, pc, running, conn, want, scan>>
  BY DEF CloseNext, MayRun, OneByOne
<1>2. /\ TypeOK /\ closing[t] \in Seq(Conns) /\ link \in [Conns -> Link]
      /\ closing \in [Tasks -> Seq(Conns)]
  BY DEF IInv, PInv, TypeOK
<1>3. /\ d \in Conns /\ d \in ToSet(closing[t])
      /\ ToSet(closing[t]) = {d} \cup ToSet(Tail(closing[t]))
  BY <1>1, <1>2, TailList, HeadOrTail
<1> HIDE DEF d
<1>4. Free(d) /\ d \notin Listed
  BY <1>3 DEF HInv, PlaceInv, Doomed
<1>5. \A u \in Tasks : closing'[u] = IF u = t THEN Tail(closing[t]) ELSE closing[u]
  BY <1>1, <1>2
<1>6. Doomed' \subseteq Doomed /\ Doomed \subseteq Doomed' \cup {d}
  BY <1>3, <1>5 DEF Doomed
<1>7. \A c \in Conns : link'[c] = IF c = d THEN Shut(link[c]) ELSE link[c]
  BY <1>1, <1>2
<1>8. Shut(link[d]) \in Link /\ LinkOK(link[d]) /\ link[d] \in Link
  BY <1>2, <1>3, LinkTypes DEF HInv, SocketInv
<1>9. /\ LinkOK(Shut(link[d])) /\ ~Shut(link[d]).open
      /\ Shut(link[d]).inner \in {"none", "CLOSED"}
      /\ Shut(link[d]).inner = "none" => Shut(link[d]) = link[d]
      /\ link[d].inner = "CLOSED" => Shut(link[d]).inner = "CLOSED"
      /\ link[d].inner = "none" => Shut(link[d]) = link[d]
  BY <1>8 DEF Shut, LinkOK, Link
<1>10. ~Passing /\ \A stages \in SUBSET Scanning : ~At(stages)
  BY <1>1, Alone DEF HInv, Scanning
<1>11. \A stages \in SUBSET Scanning : ~At(stages)'
  BY <1>1, <1>10 DEF At
<1>12. LoopInv'
  BY <1>1 DEF HInv, LoopInv
<1>13. SocketInv'
  BY <1>7, <1>9 DEF HInv, SocketInv
<1>14. LeaseInv'
  <2>1. \A q \in Requests : conn[q] # None => link'[conn[q]] = link[conn[q]]
    BY <1>2, <1>4, <1>7 DEF Free, TypeOK
  <2>2. QED BY <1>1, <2>1 DEF HInv, LeaseInv, InFlight
<1>15. BusyInv'
  <2>1. \A c \in Conns : link'[c].inner \in {"ACTIVE", "NEW"} => link'[c] = link[c]
    BY <1>7, <1>9
  <2>2. QED BY <1>1, <2>1 DEF HInv, BusyInv
<1>16. \A c \in Conns : IsClosed(c) => IsClosed(c)'
  BY <1>7, <1>8, <1>9 DEF IsClosed
<1>17. PlaceInv'
  <2>1. Listed' = Listed /\ Pooled' = Pooled
    BY <1>1 DEF Listed, At, Pooled
  <2>2. \A c : Free(c)' = Free(c)
    BY <1>1 DEF Free
  <2>3. \A q \in Requests : conn[q] # None => conn[q] \in Conns
    BY <1>2 DEF TypeOK
  <2>4. ASSUME NEW q \in Requests, conn'[q] # None, ~IsClosed(conn[q])'
        PROVE  conn'[q] \in Listed'
    <3>1. ~IsClosed(conn[q])
      BY <1>1, <1>16, <2>3, <2>4
    <3>2. QED BY <1>1, <2>1, <2>4, <3>1 DEF HInv, PlaceInv
  <2>5. \A c \in Conns : link'[c].open => c \in Listed' \cup Doomed'
    BY <1>6, <1>7, <1>9, <2>1 DEF HInv, PlaceInv
  <2>6. QED BY <1>6, <2>1, <2>2, <2>4, <2>5 DEF HInv, PlaceInv
<1>18. RefsInv' /\ OfferedInv'
  BY <1>11, Points DEF RefsInv, OfferedInv
<1>19. QED BY <1>12, <1>13, <1>14, <1>15, <1>16, <1>17, <1>18 DEF HInv

\* Where a request goes on after a pass.
LEMMA ResumeStage ==
  ASSUME NEW r
  PROVE  Resume(r) \in {"done", "waiting", "connect"}
BY DEF Resume

\* The task leaves the pass, or has closed what it had to.
LEMMA DoneKeeps ==
  ASSUME OneByOne, IInv, TypeOK', HInv, NEW r \in Requests,
         MatchDone(r) \/ CloseDone(r)
  PROVE  HInv'
<1>1. PICK stage \in {"done", "waiting", "connect", "closing"} : Goto(r, stage)
  <2>1. r \notin Closers
    BY PoolAssumption
  <2>2. QED BY <2>1, ResumeStage DEF MatchDone, CloseDone
<1>2. /\ pc[r] \in {"match", "closing"} /\ TypeOK /\ r \in Tasks
      /\ UNCHANGED <<requests, connections, link, conn, closing>>
      /\ running \in {None, r}
  <2>1. pc[r] = "match" => running = r
    BY DEF HInv, LoopInv, Scanning
  <2>2. QED BY <2>1 DEF MatchDone, CloseDone, MayRun, OneByOne, IInv, PInv, Tasks
<1>3. pc' = [pc EXCEPT ![r] = stage]
  BY <1>1 DEF Goto
<1>4. pc[r] \in Quiet /\ stage \in Quiet /\ stage \notin Scanning
  BY <1>2 DEF Quiet, Scanning
<1>5. SocketInv' /\ LeaseInv' /\ BusyInv'
  BY <1>2, <1>3, <1>4, QuietKeeps DEF InFlight
<1>6. LoopInv'
  BY <1>1, <1>2, LoopMoves DEF HInv
<1>7. \A q \in Requests \ {r} : pc[q] \notin Scanning
  BY <1>2, PoolAssumption DEF HInv, LoopInv
<1>8. Listed' = Pooled' /\ RefsInv' /\ OfferedInv'
  BY <1>2, <1>3, <1>4, <1>7, GoesOutside
<1>9. PlaceInv'
  <2>1. ~At({"sweep", "trim"})
    BY <1>2, <1>7 DEF At, Scanning
  <2>2. Listed = Pooled /\ Pooled' = Pooled /\ Doomed' = Doomed
    BY <1>2, <2>1 DEF Listed, Pooled, Doomed
  <2>3. QED BY <1>2, <1>8, <2>2, PlaceKeeps DEF HInv
<1>10. QED BY <1>5, <1>6, <1>8, <1>9 DEF HInv

LEMMA ExpireKeeps ==
  ASSUME OneByOne, IInv, TypeOK', HInv, NEW c \in Conns, Expire(c)
  PROVE  HInv' /\ \A d \in Conns : IsClosed(d) => IsClosed(d)'
<1>1. /\ running = None
      /\ link' = [link EXCEPT ![c] = [link[c] EXCEPT !.expired = TRUE]]
      /\ UNCHANGED <<requests, connections, pc, running, conn, want, closing, scan>>
  BY DEF Expire, MayRun, OneByOne
<1>2. TypeOK /\ link \in [Conns -> Link] /\ link[c] \in Link
  BY DEF IInv, PInv, TypeOK
<1>3. \A d \in Conns : /\ link'[d].inner = link[d].inner /\ link'[d].failed = link[d].failed
                       /\ link'[d].open = link[d].open /\ link'[d].proto = link[d].proto
                       /\ link'[d].broken = link[d].broken
  BY <1>1, <1>2 DEF Link
<1>4. \A stages \in SUBSET Scanning : ~At(stages)
  BY <1>1, PoolAssumption DEF HInv, LoopInv, At
<1>5. \A stages \in SUBSET Scanning : ~At(stages)'
  BY <1>1, <1>4 DEF At
<1>6. LoopInv'
  BY <1>1 DEF HInv, LoopInv
<1>7. SocketInv'
  BY <1>3 DEF HInv, SocketInv, LinkOK
<1>8. LeaseInv'
  <2>1. \A q \in Requests : conn[q] # None => conn[q] \in Conns
    BY <1>2 DEF TypeOK
  <2>2. \A q \in Requests : conn[q] # None => Fit(pc[q], link'[conn[q]])
    BY <1>3, <2>1 DEF HInv, LeaseInv, Fit
  <2>3. QED BY <1>1, <2>2 DEF HInv, LeaseInv, InFlight
<1>9. BusyInv'
  BY <1>1, <1>3 DEF HInv, BusyInv
<1>10. \A d \in Conns : IsClosed(d)' = IsClosed(d)
  BY <1>3 DEF IsClosed
<1>11. PlaceInv'
  <2>1. Listed' = Listed /\ Pooled' = Pooled /\ Doomed' = Doomed
    BY <1>1 DEF Listed, At, Pooled, Doomed
  <2>2. \A d : Free(d)' = Free(d)
    BY <1>1 DEF Free
  <2>3. \A q \in Requests : conn[q] # None => IsClosed(conn[q])' = IsClosed(conn[q])
    BY <1>1, <1>2, <1>10 DEF TypeOK
  <2>4. QED BY <1>1, <1>3, <2>1, <2>2, <2>3 DEF HInv, PlaceInv
<1>12. RefsInv' /\ OfferedInv'
  BY <1>5, Points DEF RefsInv, OfferedInv
<1>13. QED BY <1>6, <1>7, <1>8, <1>9, <1>10, <1>11, <1>12 DEF HInv

\* What belongs to HTTP/2, to aclose() or to a refusal does not happen.
LEMMA Impossible ==
  ASSUME OneByOne, IInv, HInv
  PROVE  /\ \A r \in Requests :
              /\ ~NotAvailable(r) /\ ~Refused(r)
              /\ ~InitLock(r) /\ ~SendInit(r) /\ ~InitFails(r)
              /\ ~Admit(r) /\ ~PermitCancelled(r)
         /\ \A k \in Closers : ~AClose(k)
         /\ \A c \in Conns : ~GoAway(c)
<1>1. ASSUME NEW r \in Requests
      PROVE  /\ pc[r] \notin Multiplexing
             /\ pc[r] = "send" => Accepts(link[conn[r]])
             /\ pc[r] = "active" => link[conn[r]].broken = "no"
  <2>1. CASE pc[r] \in Holding
    <3>1. LinkOK(link[conn[r]]) /\ Fit(pc[r], link[conn[r]])
      BY <2>1, LentLink
    <3>2. pc[r] \in Multiplexing => link[conn[r]].proto = "h2"
      BY DEF IInv, UseInv, Sound
    <3>3. QED BY <3>1, <3>2 DEF LinkOK, Fit, Accepts
  <2>2. CASE pc[r] \notin Holding
    BY <2>2 DEF Holding, Multiplexing
  <2>3. QED BY <2>1, <2>2
<1>2. \A r \in Requests :
        /\ ~NotAvailable(r) /\ ~Refused(r)
        /\ ~InitLock(r) /\ ~SendInit(r) /\ ~InitFails(r)
        /\ ~Admit(r) /\ ~PermitCancelled(r)
  BY <1>1 DEF NotAvailable, Refused, InitLock, SendInit, InitFails, Admit,
              PermitCancelled, Multiplexing
<1>3. \A c \in Conns : ~GoAway(c)
  BY DEF GoAway, HInv, SocketInv, LinkOK
<1>4. QED BY <1>2, <1>3 DEF OneByOne

-----------------------------------------------------------------------------
(***************************************************************************)
(* The loops of the pass.                                                  *)
(***************************************************************************)
\* A step of the pass that hands out nothing: what is to be shown of it.
LEMMA LoopStep ==
  ASSUME OneByOne, IInv, TypeOK', HInv, NEW r \in Requests,
         pc[r] \in Scanning, NEW stage \in Scanning,
         \/ stage = pc[r] /\ UNCHANGED <<pc, running>>
         \/ Goto(r, stage),
         UNCHANGED <<requests, link, conn>>
  PROVE  /\ LoopInv' /\ SocketInv' /\ LeaseInv' /\ BusyInv'
         /\ \A stages \in SUBSET Scanning : At(stages) <=> pc[r] \in stages
         /\ \A stages \in SUBSET Scanning : At(stages)' <=> stage \in stages
         /\ \A c : Free(c)' = Free(c)
<1>1. /\ TypeOK /\ r \in Tasks /\ pc \in [Tasks -> Stages]
      /\ pc' = [pc EXCEPT ![r] = stage] /\ running = r
  BY DEF IInv, PInv, TypeOK, Tasks, Goto, HInv, LoopInv
<1>2. SocketInv' /\ LeaseInv' /\ BusyInv'
  <2>1. pc[r] \in Quiet /\ stage \in Quiet /\ UNCHANGED <<link, conn>>
    BY DEF Quiet
  <2>2. InFlight \subseteq InFlight'
    BY DEF InFlight
  <2>3. QED BY <1>1, <2>1, <2>2, QuietKeeps
<1>3. LoopInv'
  <2>1. CASE UNCHANGED <<pc, running>>
    BY <2>1 DEF HInv, LoopInv
  <2>2. CASE Goto(r, stage)
    <3>1. LoopInv /\ running \in {None, r}
      BY <1>1 DEF HInv
    <3>2. QED BY <1>1, <2>2, <3>1, LoopMoves
  <2>3. QED BY <2>1, <2>2
<1>4. \A s \in Requests \ {r} : pc[s] \notin Scanning
  BY <1>1, PoolAssumption DEF HInv, LoopInv
<1>5. \A s \in Requests : pc'[s] = IF s = r THEN stage ELSE pc[s]
  BY <1>1 DEF Tasks
<1>6. /\ \A stages \in SUBSET Scanning : At(stages) <=> pc[r] \in stages
      /\ \A stages \in SUBSET Scanning : At(stages)' <=> stage \in stages
  BY <1>4, <1>5 DEF At
<1>7. \A c : Free(c)' = Free(c)
  BY DEF Free
<1>8. QED BY <1>2, <1>3, <1>6, <1>7

\* What is not connected, or closed, has no open socket.
LEMMA NotOpen ==
  ASSUME HInv, NEW c \in Conns, IsClosed(c) \/ ~IsConnected(c)
  PROVE  ~link[c].open
BY DEF HInv, SocketInv, LinkOK, IsClosed, IsConnected

\* One iteration of the clean-up and of the trimming: the head of the list is
\* kept, dropped, or moved to the closing list.
LEMMA CleanKeeps ==
  ASSUME OneByOne, IInv, TypeOK', HInv, NEW r \in Requests, Sweep(r) \/ Trim(r)
  PROVE  HInv'
<1> DEFINE c == Head(scan.todo)
<1>1. /\ pc[r] \in {"sweep", "trim"} /\ pc[r] \in Scanning /\ scan.todo # << >>
      /\ UNCHANGED <<requests, connections, link, pc, running, conn, want>>
      /\ scan \in Scan /\ closing \in [Tasks -> Seq(Conns)] /\ r \in Tasks /\ TypeOK
      /\ scan.todo \in Seq(Conns) /\ scan.kept \in Seq(Conns)
  BY DEF Sweep, Trim, IInv, PInv, TypeOK, Tasks, Scanning, Scan
<1>2. /\ LoopInv' /\ SocketInv' /\ LeaseInv' /\ BusyInv'
      /\ \A stages \in SUBSET Scanning : At(stages) <=> pc[r] \in stages
      /\ \A stages \in SUBSET Scanning : At(stages)' <=> pc[r] \in stages
      /\ \A d : Free(d)' = Free(d)
  BY <1>1, LoopStep
<1>3. /\ At({"sweep", "trim"}) /\ At({"sweep", "trim", "snapshot"}) /\ At({"sweep", "trim"})'
      /\ ~At({"snapshot", "match", "taken"})' /\ ~At({"snapshot", "match"})'
      /\ ~At({"taken"})'
  BY <1>1, <1>2, Points
<1>4. Splits(scan.kept, scan.todo)
  BY <1>3 DEF IInv, PInv, PassInv, CleanInv
<1>5. scan.refs = {conn[q] : q \in Requests} \ {None}
  BY <1>3 DEF HInv, RefsInv
<1>6. /\ c \in Conns /\ c \in ToSet(scan.todo) /\ c \notin ToSet(Tail(scan.todo))
      /\ c \notin ToSet(scan.kept) /\ ToSet(scan.todo) = {c} \cup ToSet(Tail(scan.todo))
  BY <1>1, <1>4, TailList, HeadOrTail DEF Splits
<1>7. ToSet(Append(scan.kept, c)) = ToSet(scan.kept) \cup {c}
  BY <1>1, <1>6, AppendList
<1>8. ToSet(Append(closing[r], c)) = ToSet(closing[r]) \cup {c}
  BY <1>1, <1>6, AppendList
<1>9. ~Reserved(c) => Free(c)
  BY <1>5, <1>6, PoolAssumption DEF Reserved, Free
<1>10. /\ scan'.todo = Tail(scan.todo) /\ scan'.refs = scan.refs
       /\ \/ scan'.kept = Append(scan.kept, c) /\ closing' = closing
          \/ /\ scan'.kept = scan.kept /\ closing' = closing
             /\ Free(c) \/ IsClosed(c)
             /\ ~link[c].open
          \/ /\ scan'.kept = scan.kept
             /\ closing' = [closing EXCEPT ![r] = Append(closing[r], c)]
             /\ Free(c)
  <2>1. CASE Sweep(r)
    <3>1. /\ scan' = [scan EXCEPT !.todo = Tail(@),
                        !.kept = IF Drops(c) \/ Expires(c) THEN @ ELSE Append(@, c)]
          /\ closing' = IF Expires(c) THEN [closing EXCEPT ![r] = Append(closing[r], c)]
                                      ELSE closing
      BY <2>1 DEF Sweep
    <3>2. CASE Expires(c)
      <4>1. ~Reserved(c) BY <3>2 DEF Expires
      <4>2. QED BY <1>1, <1>9, <3>1, <3>2, <4>1 DEF Scan
    <3>3. CASE Drops(c) /\ ~Expires(c)
      <4>1. /\ Free(c) \/ IsClosed(c)
            /\ IsClosed(c) \/ ~IsConnected(c)
        BY <1>9, <3>3 DEF Drops
      <4>2. ~link[c].open
        BY <1>6, <4>1, NotOpen
      <4>3. QED BY <1>1, <3>1, <3>3, <4>1, <4>2 DEF Scan
    <3>4. CASE ~Drops(c) /\ ~Expires(c)
      BY <1>1, <3>1, <3>4 DEF Scan
    <3>5. QED BY <3>2, <3>3, <3>4
  <2>2. CASE Trim(r)
    <3> DEFINE close == scan.surplus > 0 /\ Surplus(c)
    <3>1. /\ scan' = [scan EXCEPT !.todo = Tail(@),
                        !.kept = IF close THEN @ ELSE Append(@, c),
                        !.surplus = IF close THEN @ - 1 ELSE @]
          /\ closing' = IF close THEN [closing EXCEPT ![r] = Append(closing[r], c)]
                                 ELSE closing
      BY <2>2 DEF Trim
    <3>2. close => Free(c)
      BY <1>9 DEF Surplus
    <3> HIDE DEF close
    <3>3. CASE close
      BY <1>1, <3>1, <3>2, <3>3 DEF Scan
    <3>4. CASE ~close
      BY <1>1, <3>1, <3>4 DEF Scan
    <3>5. QED BY <3>3, <3>4
  <2>3. QED BY <2>1, <2>2
<1> HIDE DEF c
<1>11. Listed = ToSet(scan.todo) \cup ToSet(scan.kept)
  BY <1>3 DEF Listed
<1>12. Listed' = ToSet(scan'.todo) \cup ToSet(scan'.kept)
  BY <1>3 DEF Listed
<1>13. Pooled' = Pooled /\ Listed \subseteq Pooled
  BY <1>1 DEF Pooled, HInv, PlaceInv
<1>14. PlaceInv'
  <2>1. \A q \in Requests : conn'[q] \in {None, conn[q]}
    BY <1>1
  <2>2. CASE scan'.kept = Append(scan.kept, c) /\ closing' = closing
    <3>1. Listed' = Listed /\ Doomed' = Doomed
      BY <1>6, <1>7, <1>10, <1>11, <1>12, <2>2 DEF Doomed
    <3>2. QED BY <1>1, <1>13, <2>1, <3>1, PlaceKeeps DEF HInv
  <2>3. CASE /\ scan'.kept = scan.kept /\ closing' = closing
             /\ Free(c) \/ IsClosed(c)
             /\ ~link[c].open
    <3>1. Listed' = Listed \ {c} /\ Doomed' = Doomed
      BY <1>6, <1>10, <1>11, <1>12, <2>3 DEF Doomed
    <3>2. \A d \in Listed \ Listed' : d = c
      BY <3>1
    <3>3. QED BY <1>1, <1>13, <2>1, <2>3, <3>1, <3>2, PlaceKeeps DEF HInv
  <2>4. CASE /\ scan'.kept = scan.kept
             /\ closing' = [closing EXCEPT ![r] = Append(closing[r], c)]
             /\ Free(c)
    <3>1. Listed' = Listed \ {c}
      BY <1>6, <1>10, <1>11, <1>12, <2>4
    <3>2. \A t \in Tasks : ToSet(closing'[t]) =
            IF t = r THEN ToSet(closing[r]) \cup {c} ELSE ToSet(closing[t])
      BY <1>1, <1>8, <2>4
    <3>3. Doomed' = Doomed \cup {c}
      BY <1>1, <3>2 DEF Doomed
    <3>4. \A d \in Listed \ Listed' : d = c
      BY <3>1
    <3>5. QED BY <1>1, <1>6, <1>13, <2>1, <2>4, <3>1, <3>3, <3>4, PlaceKeeps DEF HInv
  <2>5. QED BY <1>10, <2>2, <2>3, <2>4
<1>15. RefsInv'
  BY <1>1, <1>5, <1>10 DEF RefsInv
<1>16. OfferedInv'
  BY <1>3 DEF OfferedInv
<1>17. QED BY <1>2, <1>14, <1>15, <1>16 DEF HInv

\* Between the loops the lists change places.
LEMMA CleanDoneKeeps ==
  ASSUME OneByOne, IInv, TypeOK', HInv, NEW r \in Requests, SweepDone(r) \/ TrimDone(r)
  PROVE  HInv'
<1> DEFINE stage == IF pc[r] = "sweep" THEN "trim" ELSE "snapshot"
<1>1. /\ pc[r] \in {"sweep", "trim"} /\ pc[r] \in Scanning /\ stage \in Scanning
      /\ scan.todo = << >> /\ Goto(r, stage)
      /\ UNCHANGED <<requests, link, conn, closing>>
      /\ scan \in Scan /\ TypeOK /\ stage \in {"trim", "snapshot"}
  BY DEF SweepDone, TrimDone, IInv, PInv, TypeOK, Scanning
<1>2. /\ scan'.todo = scan.kept /\ scan'.kept = << >>
      /\ scan'.refs = scan.refs /\ scan'.avail = scan.avail
      /\ stage = "trim" => connections' = connections
      /\ stage = "snapshot" => connections' = scan.kept
  BY <1>1 DEF SweepDone, TrimDone, Scan
<1> HIDE DEF stage
<1>3. /\ LoopInv' /\ SocketInv' /\ LeaseInv' /\ BusyInv'
      /\ \A stages \in SUBSET Scanning : At(stages) <=> pc[r] \in stages
      /\ \A stages \in SUBSET Scanning : At(stages)' <=> stage \in stages
      /\ \A d : Free(d)' = Free(d)
  BY <1>1, LoopStep
<1>4. At({"sweep", "trim"}) /\ At({"sweep", "trim", "snapshot"})
  BY <1>1, <1>3, Points
<1>5. ToSet(<< >>) = {}
  BY EmptyList
<1>6. Listed = ToSet(scan.kept)
  BY <1>1, <1>4, <1>5 DEF Listed
<1>7. Listed' = ToSet(scan.kept) /\ Listed' \subseteq Pooled'
  <2>1. CASE stage = "trim"
    <3>1. At({"sweep", "trim"})'
      BY <1>3, <2>1, Points
    <3>2. QED BY <1>2, <1>5, <1>6, <2>1, <3>1 DEF Listed, Pooled, HInv, PlaceInv
  <2>2. CASE stage = "snapshot"
    <3>1. ~At({"sweep", "trim"})'
      BY <1>3, <2>2, Points
    <3>2. QED BY <1>2, <2>2, <3>1 DEF Listed, Pooled
  <2>3. QED BY <1>1, <2>1, <2>2
<1>8. PlaceInv'
  <2>1. Doomed' = Doomed
    BY <1>1 DEF Doomed
  <2>2. \A q \in Requests : conn'[q] \in {None, conn[q]}
    BY <1>1
  <2>3. QED BY <1>1, <1>6, <1>7, <2>1, <2>2, PlaceKeeps DEF HInv
<1>9. RefsInv'
  BY <1>1, <1>2, <1>4 DEF HInv, RefsInv
<1>10. OfferedInv'
  <2>1. scan'.avail = << >>
    BY <1>2, <1>4 DEF IInv, PInv, PassInv, CleanInv
  <2>2. ~At({"taken"})'
    BY <1>1, <1>3, Points
  <2>3. QED BY <1>5, <2>1, <2>2 DEF OfferedInv
<1>11. QED BY <1>3, <1>8, <1>9, <1>10 DEF HInv

\* A connection is listed as available if it is idle and nobody holds it.
LEMMA OfferMeans ==
  ASSUME OneByOne, TypeOK, HInv, At({"sweep", "trim", "snapshot"}),
         NEW c \in Conns, Offers(c)
  PROVE  link[c].inner = "IDLE" /\ Free(c)
<1>1. scan.refs = {conn[q] : q \in Requests} \ {None}
  BY DEF HInv, RefsInv
<1>2. link[c].proto = "h11"
  BY DEF HInv, SocketInv, LinkOK
<1>3. link[c].inner = "IDLE"
  BY <1>2 DEF Offers, IsAvailable, OneByOne, Available11
<1>4. ~Reserved(c)
  BY <1>2, <1>3 DEF Offers, IsIdle, CanMultiplex
<1>5. QED BY <1>1, <1>3, <1>4, PoolAssumption DEF Reserved, Free

LEMMA SnapshotKeeps ==
  ASSUME OneByOne, IInv, TypeOK', HInv, NEW r \in Requests, Snapshot(r) \/ SnapshotDone(r)
  PROVE  HInv'
<1> DEFINE stage == IF Snapshot(r) THEN "snapshot" ELSE "match"
<1>1. /\ pc[r] = "snapshot" /\ pc[r] \in Scanning /\ stage \in Scanning
      /\ stage \in {"snapshot", "match"}
      /\ UNCHANGED <<requests, connections, link, conn, closing>>
      /\ scan \in Scan /\ TypeOK /\ scan.avail \in Seq(Conns) /\ scan.todo \in Seq(Conns)
      /\ (stage = pc[r] /\ UNCHANGED <<pc, running>>) \/ Goto(r, stage)
  BY DEF Snapshot, SnapshotDone, IInv, PInv, TypeOK, Scanning, Scan
<1> HIDE DEF stage
<1>2. /\ LoopInv' /\ SocketInv' /\ LeaseInv' /\ BusyInv'
      /\ \A stages \in SUBSET Scanning : At(stages) <=> pc[r] \in stages
      /\ \A stages \in SUBSET Scanning : At(stages)' <=> stage \in stages
      /\ \A d : Free(d)' = Free(d)
  BY <1>1, LoopStep
<1>3. /\ At({"sweep", "trim", "snapshot"}) /\ At({"snapshot", "match", "taken"})
      /\ At({"snapshot", "match"})
      /\ ~At({"sweep", "trim"}) /\ ~At({"sweep", "trim"})' /\ ~At({"taken"})'
  BY <1>1, <1>2, Points
<1>4. scan'.refs = scan.refs /\ \A c \in ToSet(scan'.avail) :
        c \in ToSet(scan.avail) \/ (link[c].inner = "IDLE" /\ Free(c))
  <2>1. CASE Snapshot(r)
    <3> DEFINE c == Head(scan.todo)
    <3>1. /\ scan' = [scan EXCEPT !.todo = Tail(@),
                        !.avail = IF Offers(c) THEN Append(@, c) ELSE @]
          /\ scan.todo # << >>
      BY <2>1 DEF Snapshot
    <3>2. c \in Conns
      BY <1>1, <3>1, TailList
    <3>3. ToSet(Append(scan.avail, c)) = ToSet(scan.avail) \cup {c}
      BY <1>1, <3>2, AppendList
    <3>4. Offers(c) => link[c].inner = "IDLE" /\ Free(c)
      BY <1>1, <1>3, <3>2, OfferMeans
    <3> HIDE DEF c
    <3>5. scan'.avail = (IF Offers(c) THEN Append(scan.avail, c) ELSE scan.avail)
          /\ scan'.refs = scan.refs
      BY <1>1, <3>1 DEF Scan
    <3>6. QED BY <3>3, <3>4, <3>5
  <2>2. CASE SnapshotDone(r)
    BY <2>2 DEF SnapshotDone
  <2>3. QED BY <2>1, <2>2
<1>5. OfferedInv'
  BY <1>1, <1>2, <1>3, <1>4 DEF HInv, OfferedInv
<1>6. RefsInv'
  BY <1>1, <1>3, <1>4 DEF HInv, RefsInv
<1>7. PlaceInv'
  <2>1. Listed = Pooled /\ Listed' = Pooled' /\ Pooled' = Pooled /\ Doomed' = Doomed
    BY <1>1, <1>3 DEF Listed, Pooled, Doomed
  <2>2. \A q \in Requests : conn'[q] \in {None, conn[q]}
    BY <1>1
  <2>3. QED BY <1>1, <2>1, <2>2, PlaceKeeps DEF HInv
<1>8. QED BY <1>2, <1>5, <1>6, <1>7 DEF HInv

\* The connection handed out leaves the list of those available.
LEMMA TakenKeeps ==
  ASSUME OneByOne, IInv, TypeOK', HInv, NEW r \in Requests, Taken(r) \/ Skip(r)
  PROVE  HInv'
<1>1. /\ pc[r] \in {"taken", "match"} /\ pc[r] \in Scanning /\ "match" \in Scanning
      /\ UNCHANGED <<requests, connections, link, conn, closing>>
      /\ scan \in Scan /\ TypeOK /\ scan.avail \in Seq(Conns)
      /\ ("match" = pc[r] /\ UNCHANGED <<pc, running>>) \/ Goto(r, "match")
  BY DEF Taken, Skip, Matching, IInv, PInv, TypeOK, Scanning, Scan
<1>2. /\ LoopInv' /\ SocketInv' /\ LeaseInv' /\ BusyInv'
      /\ \A stages \in SUBSET Scanning : At(stages) <=> pc[r] \in stages
      /\ \A stages \in SUBSET Scanning : At(stages)' <=> "match" \in stages
      /\ \A d : Free(d)' = Free(d)
  BY <1>1, LoopStep
<1>3. /\ ~At({"sweep", "trim", "snapshot"})' /\ At({"snapshot", "match", "taken"})
      /\ ~At({"sweep", "trim"}) /\ ~At({"sweep", "trim"})' /\ ~At({"taken"})'
      /\ pc[r] = "taken" => At({"taken"})
      /\ pc[r] = "match" => At({"snapshot", "match"})
  BY <1>1, <1>2, Points
<1>4. \A c \in ToSet(scan'.avail) : c \in ToSet(scan.avail) /\ Free(c)
  <2>1. CASE Taken(r)
    <3>1. At({"taken"})
      BY <1>3, <2>1 DEF Taken
    <3>2. /\ scan.hit \in DOMAIN scan.avail /\ IsInjective(scan.avail)
          /\ ToSet(scan.avail) \subseteq Pooled
      BY <1>3, <3>1 DEF IInv, PInv, PassInv, OfferInv
    <3> DEFINE c == scan.avail[scan.hit]
               t == RemoveAt(scan.avail, scan.hit)
    <3>3. c \in ToSet(scan.avail) /\ c \in Conns /\ link[c].inner = "IDLE"
      BY <1>1, <1>3, <3>2, Elements DEF HInv, OfferedInv
    <3>4. IsIdle(c) /\ ~CanMultiplex(c)
      BY <3>3 DEF IsIdle, CanMultiplex, HInv, SocketInv, LinkOK
    <3>5. scan'.avail = t
      BY <1>1, <2>1, <3>4 DEF Taken, Scan
    <3>6. t \in Seq(Conns) /\ ToSet(t) \subseteq ToSet(scan.avail) /\ c \notin ToSet(t)
      BY <1>1, <3>2, RemoveAtList
    <3>7. \A d \in ToSet(scan.avail) : d # c => Free(d)
      <4>1. \A i \in DOMAIN scan.avail : i # scan.hit => Free(scan.avail[i])
        BY <3>1 DEF HInv, OfferedInv
      <4>2. \A d \in ToSet(scan.avail) : \E i \in DOMAIN scan.avail : scan.avail[i] = d
        BY <1>1, Elements
      <4>3. QED BY <4>1, <4>2
    <3> HIDE DEF c, t
    <3>8. QED BY <3>5, <3>6, <3>7
  <2>2. CASE Skip(r)
    <3>1. scan'.avail = scan.avail /\ At({"snapshot", "match"})
      BY <1>1, <1>3, <2>2 DEF Skip, Matching, Scan
    <3>2. QED BY <3>1 DEF HInv, OfferedInv
  <2>3. QED BY <2>1, <2>2
<1>5. OfferedInv'
  BY <1>1, <1>2, <1>3, <1>4 DEF HInv, OfferedInv
<1>6. RefsInv'
  BY <1>3 DEF RefsInv
<1>7. PlaceInv'
  <2>1. Listed = Pooled /\ Listed' = Pooled' /\ Pooled' = Pooled /\ Doomed' = Doomed
    BY <1>1, <1>3 DEF Listed, Pooled, Doomed
  <2>2. \A q \in Requests : conn'[q] \in {None, conn[q]}
    BY <1>1
  <2>3. QED BY <1>1, <2>1, <2>2, PlaceKeeps DEF HInv
<1>8. QED BY <1>2, <1>5, <1>6, <1>7 DEF HInv

-----------------------------------------------------------------------------
(***************************************************************************)
(* Connections are handed out.                                             *)
(***************************************************************************)
\* What the assignment loop knows of its candidate and of what it offers.
LEMMA LoanContext ==
  ASSUME OneByOne, IInv, HInv, NEW r \in Requests, Matching(r), conn[Candidate] = None
  PROVE  /\ Candidate \in InFlight /\ Candidate \in Requests
         /\ pc[Candidate] \notin {"active", "body", "send", "connecting"}
         /\ \A stages \in SUBSET Scanning : At(stages) <=> "match" \in stages
         /\ Listed = Pooled /\ running = r
         /\ \A c \in ToSet(scan.avail) :
              c \in Conns /\ c \in Pooled /\ link[c].inner = "IDLE" /\ Free(c)
<1>1. /\ pc[r] = "match" /\ Candidate \in Requests /\ scan.avail \in Seq(Conns)
      /\ pc[r] \in Scanning /\ ToSet(scan.avail) \subseteq Pooled
  BY MatchContext DEF IInv
<1>2. Candidate \in InFlight
  <2>1. requests \in Seq(Requests) /\ scan.next \in Nat \ {0} /\ Len(requests) \in Nat
    BY Elements DEF IInv, PInv, TypeOK, Scan
  <2>2. ~(scan.next > Len(requests))
    BY DEF Matching, MatchOver
  <2>3. scan.next \in 1 .. Len(requests)
    BY <2>1, <2>2
  <2>4. QED BY <2>1, <2>3, Elements DEF Candidate, InFlight
<1>3. pc[Candidate] \notin {"active", "body", "send", "connecting"}
  BY <1>1 DEF IInv, UseInv, Sound, Holding
<1>4. running = r
  BY <1>1 DEF HInv, LoopInv
<1>5. \A stages \in SUBSET Scanning : At(stages) <=> "match" \in stages
  BY <1>1, ScannerAt DEF IInv, PInv, PassInv
<1>6. Listed = Pooled
  BY <1>5, Points DEF Listed
<1>7. \A c \in ToSet(scan.avail) : link[c].inner = "IDLE" /\ Free(c)
  <2>1. At({"snapshot", "match", "taken"}) /\ At({"snapshot", "match"})
    BY <1>5, Points
  <2>2. QED BY <2>1 DEF HInv, OfferedInv
<1>8. QED BY <1>1, <1>2, <1>3, <1>4, <1>5, <1>6, <1>7, Elements

\* An idle connection of the pool goes to the candidate.
LEMMA ReuseKeeps ==
  ASSUME OneByOne, IInv, TypeOK', HInv, NEW r \in Requests, Reuse(r)
  PROVE  /\ HInv'
         /\ \E c \in Pooled : /\ Free(c) /\ link[c].inner = "IDLE" /\ c \in Conns
                              /\ conn' = [conn EXCEPT ![Candidate] = c]
<1> DEFINE i == First(Fitting)
           c == scan.avail[i]
           k == Candidate
<1>1. /\ Matching(r) /\ conn[k] = None /\ Fitting # {}
      /\ conn' = [conn EXCEPT ![k] = c] /\ scan' = [scan EXCEPT !.hit = i]
      /\ Goto(r, "taken") /\ "taken" \in Scanning
      /\ UNCHANGED <<requests, connections, link, closing>>
  BY DEF Reuse, Scanning
<1>2. /\ pc[r] = "match" /\ pc[r] \in Scanning /\ scan.avail \in Seq(Conns)
      /\ conn \in [Requests -> Conns \cup {None}] /\ IsInjective(scan.avail)
      /\ Fitting \subseteq Nat /\ Fitting \subseteq DOMAIN scan.avail
      /\ TypeOK /\ r \in Tasks /\ scan \in Scan
  BY <1>1, MatchContext DEF IInv, PInv, Tasks
<1>3. /\ k \in InFlight /\ k \in Requests
      /\ pc[k] \notin {"active", "body", "send", "connecting"}
      /\ Listed = Pooled /\ running = r
      /\ \A d \in ToSet(scan.avail) :
           d \in Conns /\ d \in Pooled /\ link[d].inner = "IDLE" /\ Free(d)
  BY <1>1, LoanContext
<1>4. i \in DOMAIN scan.avail
  BY <1>1, <1>2, FirstIn
<1>5. scan'.hit = i /\ scan'.avail = scan.avail
  BY <1>1, <1>2 DEF Scan
<1> HIDE DEF i, k
<1>6. c \in ToSet(scan.avail)
  BY <1>2, <1>4, Elements
<1>7. /\ c \in Conns /\ c \in Pooled /\ link[c].inner = "IDLE" /\ Free(c) /\ c # None
  BY <1>3, <1>6, PoolAssumption
<1>8. \A j \in DOMAIN scan.avail : j # i => scan.avail[j] # c
  BY <1>2, <1>4 DEF IsInjective
<1> HIDE DEF c
<1>9. \A q \in Requests : conn'[q] = IF q = k THEN c ELSE conn[q]
  BY <1>1, <1>2
<1>10. \A q \in Requests : pc'[q] = IF q = r THEN "taken" ELSE pc[q]
  BY <1>1, <1>2 DEF Goto, TypeOK, Tasks
<1>11. LoopInv'
  BY <1>1, <1>2, <1>3, LoopMoves DEF HInv
<1>12. SocketInv'
  BY <1>1 DEF HInv, SocketInv
<1>13. LeaseInv'
  <2>1. InFlight' = InFlight BY <1>1 DEF InFlight
  <2>2. \A p, q \in Requests : conn'[p] = conn'[q] /\ conn'[p] # None => p = q
    BY <1>7, <1>9 DEF HInv, LeaseInv, Free
  <2>3. ASSUME NEW q \in Requests, conn'[q] # None PROVE Fit(pc'[q], link[conn'[q]])
    <3>1. CASE q = k
      BY <1>3, <1>7, <1>9, <1>10, <3>1 DEF Fit
    <3>2. CASE q # k
      <4>1. conn'[q] = conn[q] /\ Fit(pc[q], link[conn[q]])
        BY <1>9, <2>3, <3>2 DEF HInv, LeaseInv
      <4>2. CASE q = r BY <1>2, <1>10, <4>1, <4>2 DEF Fit
      <4>3. CASE q # r BY <1>10, <4>1, <4>3
      <4>4. QED BY <4>2, <4>3
    <3>3. QED BY <3>1, <3>2
  <2>4. QED BY <1>1, <1>3, <1>9, <2>1, <2>2, <2>3 DEF HInv, LeaseInv
<1>14. BusyInv'
  <2> SUFFICES ASSUME NEW d \in Conns
               PROVE  /\ link[d].inner = "ACTIVE" =>
                           \E q \in Requests : conn'[q] = d /\ pc'[q] \in {"active", "body"}
                      /\ ~Checkpoints /\ link[d].inner = "NEW" =>
                           \E q \in Requests : conn'[q] = d /\ pc'[q] = "send"
    BY <1>1 DEF BusyInv
  <2>1. \A q \in Requests : pc[q] \in {"active", "body", "send"} =>
                              pc'[q] = pc[q] /\ conn'[q] = conn[q]
    BY <1>2, <1>3, <1>9, <1>10
  <2>2. QED BY <2>1 DEF HInv, BusyInv
<1>15. \A stages \in SUBSET Scanning : At(stages)' <=> "taken" \in stages
  BY <1>1, <1>2, ScannerMoves DEF IInv, PInv, PassInv, Goto
<1>16. PlaceInv'
  <2>1. Listed' = Pooled /\ Pooled' = Pooled /\ Doomed' = Doomed
    BY <1>1, <1>15, Points DEF Listed, Pooled, Doomed
  <2>2. \A d : IsClosed(d)' = IsClosed(d)
    BY <1>1 DEF IsClosed
  <2>3. ASSUME NEW q \in Requests, conn'[q] # None, ~IsClosed(conn[q])'
        PROVE  conn'[q] \in Pooled
    <3>1. CASE q = k BY <1>7, <1>9, <3>1
    <3>2. CASE q # k
      <4>1. conn'[q] = conn[q] /\ ~IsClosed(conn[q])
        BY <1>1, <1>9, <2>3, <3>2 DEF IsClosed
      <4>2. QED BY <1>3, <2>3, <4>1 DEF HInv, PlaceInv
    <3>3. QED BY <3>1, <3>2
  <2>4. \A d \in Doomed : Free(d)' /\ d \notin Pooled
    BY <1>3, <1>7, <1>9 DEF HInv, PlaceInv, Free
  <2>5. \A d \in Conns : link'[d].open => d \in Pooled \cup Doomed
    BY <1>1, <1>3 DEF HInv, PlaceInv
  <2>6. QED BY <2>1, <2>3, <2>4, <2>5 DEF PlaceInv
<1>17. RefsInv'
  BY <1>15, Points DEF RefsInv
<1>18. OfferedInv'
  <2>1. ~At({"snapshot", "match"})'
    BY <1>15, Points
  <2>2. \A j \in DOMAIN scan.avail : j # i => Free(scan.avail[j])'
    <3>1. \A j \in DOMAIN scan.avail : scan.avail[j] \in ToSet(scan.avail)
      BY <1>2, Elements
    <3>2. \A j \in DOMAIN scan.avail : j # i => \A q \in Requests : conn'[q] # scan.avail[j]
      BY <1>3, <1>8, <1>9, <3>1 DEF Free
    <3>3. QED BY <1>5, <3>2 DEF Free
  <2>3. QED BY <1>1, <1>3, <1>5, <2>1, <2>2 DEF OfferedInv
<1>19. HInv'
  BY <1>11, <1>12, <1>13, <1>14, <1>16, <1>17, <1>18 DEF HInv
<1>20. QED BY <1>1, <1>7, <1>19 DEF k

\* A new connection goes to the candidate, in place of those that are gone.
LEMMA LendsNew ==
  ASSUME OneByOne, IInv, TypeOK', HInv, NEW r \in Requests, Matching(r),
         conn[Candidate] = None, NEW c \in Fresh, NEW gone \in SUBSET Pooled,
         \A d \in gone : Free(d),
         link' = [link EXCEPT ![c] = NewLink(want[Candidate])],
         conn' = [conn EXCEPT ![Candidate] = c],
         Pooled' = (Pooled \ gone) \cup {c}, Doomed' = Doomed \cup gone,
         ToSet(scan'.avail) \subseteq ToSet(scan.avail),
         UNCHANGED <<requests, pc, running>>
  PROVE  HInv'
<1> DEFINE k == Candidate
           l == NewLink(want[Candidate])
<1>1. /\ TypeOK /\ pc[r] = "match" /\ pc[r] \in Scanning
      /\ conn \in [Requests -> Conns \cup {None}] /\ link \in [Conns -> Link]
  BY MatchContext DEF IInv, PInv
<1>2. /\ k \in InFlight /\ k \in Requests
      /\ pc[k] \notin {"active", "body", "send", "connecting"}
      /\ \A stages \in SUBSET Scanning : At(stages) <=> "match" \in stages
      /\ Listed = Pooled /\ running = r
      /\ \A d \in ToSet(scan.avail) :
           d \in Conns /\ d \in Pooled /\ link[d].inner = "IDLE" /\ Free(d)
  BY LoanContext
<1>3. /\ l.inner = "none" /\ ~l.failed /\ ~l.open /\ l.proto = "h11" /\ l.broken = "no"
  BY DEF NewLink
<1>4. /\ c \in Conns /\ c \notin Pooled /\ Free(c) /\ c \notin Doomed /\ c # None
  BY PoolAssumption DEF Fresh, Pooled, Free, Doomed
<1> HIDE DEF l, k
<1>5. \A d \in Conns : link'[d] = IF d = c THEN l ELSE link[d]
  BY <1>1 DEF l
<1>6. \A q \in Requests : conn'[q] = IF q = k THEN c ELSE conn[q]
  BY <1>1 DEF k
<1>7. conn[k] = None
  BY DEF k
<1>8. LoopInv'
  BY DEF HInv, LoopInv
<1>9. SocketInv'
  BY <1>3, <1>5 DEF HInv, SocketInv, LinkOK
<1>10. \A q \in Requests : conn[q] # None => conn[q] \in Conns /\ conn[q] # c
  BY <1>1, <1>4 DEF Free
<1>11. LeaseInv'
  <2>1. InFlight' = InFlight BY DEF InFlight
  <2>2. \A p, q \in Requests : conn'[p] = conn'[q] /\ conn'[p] # None => p = q
    BY <1>4, <1>6 DEF HInv, LeaseInv, Free
  <2>3. ASSUME NEW q \in Requests, conn'[q] # None PROVE Fit(pc[q], link'[conn'[q]])
    <3>1. CASE q = k
      BY <1>2, <1>3, <1>4, <1>5, <1>6, <3>1 DEF Fit
    <3>2. CASE q # k
      BY <1>5, <1>6, <1>10, <2>3, <3>2 DEF HInv, LeaseInv
    <3>3. QED BY <3>1, <3>2
  <2>4. QED BY <1>2, <1>6, <2>1, <2>2, <2>3 DEF HInv, LeaseInv
<1>12. BusyInv'
  <2> SUFFICES ASSUME NEW d \in Conns
               PROVE  /\ link'[d].inner = "ACTIVE" =>
                           \E q \in Requests : conn'[q] = d /\ pc[q] \in {"active", "body"}
                      /\ ~Checkpoints /\ link'[d].inner = "NEW" =>
                           \E q \in Requests : conn'[q] = d /\ pc[q] = "send"
    BY DEF BusyInv
  <2>1. \A q \in Requests : pc[q] \in {"active", "body", "send"} => conn'[q] = conn[q]
    BY <1>2, <1>6
  <2>2. CASE d = c BY <1>3, <1>5, <2>2
  <2>3. CASE d # c BY <1>5, <2>1, <2>3 DEF HInv, BusyInv
  <2>4. QED BY <2>2, <2>3
<1>13. \A stages \in SUBSET Scanning : At(stages)' <=> "match" \in stages
  BY <1>2 DEF At
<1>14. \A d \in Conns : d # c /\ Free(d) => Free(d)'
  BY <1>6 DEF Free
<1>15. PlaceInv'
  <2>1. Listed' = Pooled'
    BY <1>13, Points DEF Listed
  <2>2. ASSUME NEW q \in Requests, conn'[q] # None, ~IsClosed(conn[q])'
        PROVE  conn'[q] \in Pooled'
    <3>1. CASE q = k BY <1>6, <3>1
    <3>2. CASE q # k
      <4>1. conn'[q] = conn[q] /\ conn[q] \in Conns /\ conn[q] # c
        BY <1>6, <1>10, <2>2, <3>2
      <4>2. ~IsClosed(conn[q])
        BY <1>5, <2>2, <4>1 DEF IsClosed
      <4>3. conn[q] \in Pooled
        BY <1>2, <2>2, <4>1, <4>2 DEF HInv, PlaceInv
      <4>4. conn[q] \notin gone
        BY DEF Free
      <4>5. QED BY <4>1, <4>3, <4>4
    <3>3. QED BY <3>1, <3>2
  <2>3. \A d \in Conns : link'[d].open => d \in Pooled' \cup Doomed'
    BY <1>2, <1>3, <1>5 DEF HInv, PlaceInv
  <2>4. \A d \in Doomed' : Free(d)' /\ d \notin Pooled'
    <3>1. \A d \in Doomed : d \in Conns /\ d # c /\ Free(d) /\ d \notin Pooled
      BY <1>1, <1>2, <1>4, DoomedConns DEF HInv, PlaceInv
    <3>2. Pooled \subseteq Conns
      BY <1>1, Elements DEF TypeOK, Pooled
    <3>3. \A d \in gone : d \in Conns /\ d # c /\ Free(d) /\ d \in Pooled
      BY <1>4, <3>2
    <3>4. QED BY <1>14, <3>1, <3>3
  <2>5. QED BY <2>1, <2>2, <2>3, <2>4 DEF PlaceInv
<1>16. RefsInv'
  BY <1>13, Points DEF RefsInv
<1>17. OfferedInv'
  <2>1. ~At({"taken"})'
    BY <1>13, Points
  <2>2. \A d \in ToSet(scan'.avail) : link'[d].inner = "IDLE" /\ Free(d)'
    BY <1>2, <1>4, <1>5, <1>14
  <2>3. QED BY <2>1, <2>2 DEF OfferedInv
<1>18. QED BY <1>8, <1>9, <1>11, <1>12, <1>15, <1>16, <1>17 DEF HInv

\* A step of LeasePool that lends a new connection, as the pool takes it.
Renewed(k, c, gone) ==
  /\ conn[k] = None /\ conn' = [conn EXCEPT ![k] = c]
  /\ c \in Conns /\ c \notin Pooled /\ Free(c)
  /\ gone \subseteq Pooled /\ \A d \in gone : Free(d)
  /\ Pooled' = (Pooled \ gone) \cup {c}
  /\ \E o \in Origins \cup {None} : link' = [link EXCEPT ![c] = NewLink(o)]

LEMMA CreateKeeps ==
  ASSUME OneByOne, IInv, TypeOK', HInv, NEW r \in Requests, Create(r)
  PROVE  HInv' /\ \E k \in Requests, c \in Conns : Renewed(k, c, {})
<1>1. PICK c \in Fresh :
        /\ link' = [link EXCEPT ![c] = NewLink(want[Candidate])]
        /\ connections' = Append(connections, c)
        /\ conn' = [conn EXCEPT ![Candidate] = c]
  BY DEF Create
<1>2. /\ Matching(r) /\ conn[Candidate] = None
      /\ scan' = [scan EXCEPT !.next = @ + 1, !.budget = @ - 1]
      /\ UNCHANGED <<requests, pc, running, want, closing>>
  BY DEF Create
<1>3. /\ scan \in Scan /\ connections \in Seq(Conns) /\ Candidate \in Requests
      /\ want[Candidate] \in Origins \cup {None}
  BY <1>2, MatchContext DEF IInv
<1>4. /\ c \in Conns /\ c \notin Pooled /\ Free(c)
  BY <1>1, PoolAssumption DEF Fresh, Pooled, Free
<1>5. Pooled' = (Pooled \ {}) \cup {c}
  BY <1>1, <1>3, <1>4, AppendList DEF Pooled
<1>6. Doomed' = Doomed \cup {} /\ scan'.avail = scan.avail
  BY <1>2, <1>3 DEF Doomed, Scan
<1>7. HInv'
  <2>1. {} \in SUBSET Pooled /\ (\A d \in {} : Free(d))
        /\ ToSet(scan'.avail) \subseteq ToSet(scan.avail)
    BY <1>6
  <2>2. UNCHANGED <<requests, pc, running>>
    BY <1>2
  <2>3. QED BY <1>1, <1>2, <1>5, <1>6, <2>1, <2>2, LendsNew, Zenon
<1>8. Renewed(Candidate, c, {})
  BY <1>1, <1>2, <1>3, <1>4, <1>5 DEF Renewed
<1>9. QED BY <1>3, <1>4, <1>7, <1>8

LEMMA EvictKeeps ==
  ASSUME OneByOne, IInv, TypeOK', HInv, NEW r \in Requests, Evict(r)
  PROVE  HInv' /\ \E k \in Requests, c \in Conns, old \in Pooled : Renewed(k, c, {old})
<1> DEFINE i == First(Evictable)
           old == scan.avail[i]
           rest == Without(connections, old)
<1>1. PICK c \in Fresh :
        /\ link' = [link EXCEPT ![c] = NewLink(want[Candidate])]
        /\ connections' = Append(rest, c)
        /\ conn' = [conn EXCEPT ![Candidate] = c]
  BY DEF Evict
<1>2. /\ Matching(r) /\ conn[Candidate] = None /\ Evictable # {}
      /\ scan' = [scan EXCEPT !.next = @ + 1, !.avail = RemoveAt(@, i)]
      /\ closing' = [closing EXCEPT ![r] = Append(closing[r], old)]
      /\ UNCHANGED <<requests, pc, running, want>>
  BY DEF Evict
<1>3. /\ scan \in Scan /\ connections \in Seq(Conns) /\ Candidate \in Requests
      /\ want[Candidate] \in Origins \cup {None} /\ scan.avail \in Seq(Conns)
      /\ closing \in [Tasks -> Seq(Conns)] /\ r \in Tasks /\ IsInjective(connections)
      /\ Evictable \subseteq Nat /\ Evictable \subseteq DOMAIN scan.avail
  BY <1>2, MatchContext DEF IInv, Tasks
<1>4. i \in DOMAIN scan.avail
  BY <1>2, <1>3, FirstIn
<1> HIDE DEF i
<1>5. old \in ToSet(scan.avail) /\ ToSet(RemoveAt(scan.avail, i)) \subseteq ToSet(scan.avail)
  BY <1>3, <1>4, Elements, RemoveAtList
<1>6. old \in Conns /\ old \in Pooled /\ Free(old)
  BY <1>2, <1>5, LoanContext
<1> HIDE DEF old
<1>7. rest \in Seq(Conns) /\ ToSet(rest) = Pooled \ {old}
  BY <1>3, <1>6, WithoutList DEF Pooled
<1> HIDE DEF rest
<1>8. /\ c \in Conns /\ c \notin Pooled /\ Free(c)
  BY <1>1, PoolAssumption DEF Fresh, Pooled, Free
<1>9. Pooled' = (Pooled \ {old}) \cup {c}
  BY <1>1, <1>7, <1>8, AppendList DEF Pooled
<1>10. Doomed' = Doomed \cup {old}
  <2>1. ToSet(Append(closing[r], old)) = ToSet(closing[r]) \cup {old}
    BY <1>3, <1>6, AppendList
  <2>2. \A t \in Tasks : ToSet(closing'[t]) =
          IF t = r THEN ToSet(closing[r]) \cup {old} ELSE ToSet(closing[t])
    BY <1>2, <1>3, <2>1
  <2>3. QED BY <1>3, <2>2 DEF Doomed
<1>11. ToSet(scan'.avail) \subseteq ToSet(scan.avail)
  BY <1>2, <1>3, <1>5 DEF Scan
<1>12. HInv'
  <2>1. {old} \in SUBSET Pooled /\ \A d \in {old} : Free(d)
    BY <1>6
  <2>2. UNCHANGED <<requests, pc, running>>
    BY <1>2
  <2>3. QED BY <1>1, <1>2, <1>9, <1>10, <1>11, <2>1, <2>2, LendsNew, Zenon
<1>13. Renewed(Candidate, c, {old})
  BY <1>1, <1>2, <1>3, <1>6, <1>8, <1>9 DEF Renewed
<1>14. QED BY <1>3, <1>6, <1>8, <1>12, <1>13

-----------------------------------------------------------------------------
(***************************************************************************)
(* Every step preserves the invariant and is a step of the lease pool.     *)
(***************************************************************************)
\* Connections change, but those that are closed stay closed.
Wears ==
  /\ UNCHANGED <<connections, conn>>
  /\ \A c \in Conns : IsClosed(c) => IsClosed(c)'

Lends ==
  \E k \in Requests, c \in Pooled :
    /\ conn[k] = None /\ conn' = [conn EXCEPT ![k] = c]
    /\ Free(c) /\ link[c].inner = "IDLE" /\ c \in Conns
    /\ UNCHANGED <<connections, link>>

Renews ==
  \E k \in Requests, c \in Conns :
    Renewed(k, c, {}) \/ \E old \in Pooled : Renewed(k, c, {old})

Returns ==
  \E r \in Requests : /\ conn' = [conn EXCEPT ![r] = None]
                      /\ UNCHANGED <<connections, link>>

Thins == Pooled' \subseteq Pooled /\ UNCHANGED <<conn, link>>

LEMMA UnchangedWears ==
  ASSUME UNCHANGED <<connections, conn, link>>
  PROVE  Wears
BY DEF Wears, IsClosed

LEMMA HInvNext ==
  ASSUME OneByOne, IInv, TypeOK', HInv, [Next]_vars
  PROVE  HInv' /\ (Wears \/ Lends \/ Renews \/ Returns \/ Thins)
<1> DEFINE Goal == HInv' /\ (Wears \/ Lends \/ Renews \/ Returns \/ Thins)
<1>1. ASSUME NEW r \in Requests, Pass(r) PROVE Goal
  <2>1. CASE Sweep(r) \/ Trim(r)
    <3>1. UNCHANGED <<connections, conn, link>>
      BY <2>1 DEF Sweep, Trim
    <3>2. QED BY <2>1, <3>1, CleanKeeps, UnchangedWears
  <2>2. CASE SweepDone(r) \/ TrimDone(r)
    <3>1. HInv'
      BY <2>2, CleanDoneKeeps
    <3>2. CASE SweepDone(r)
      BY <3>1, <3>2, UnchangedWears DEF SweepDone
    <3>3. CASE TrimDone(r)
      <4>1. At({"sweep", "trim"}) /\ connections' = scan.kept /\ UNCHANGED <<conn, link>>
        BY <3>3 DEF TrimDone, At
      <4>2. ToSet(scan.kept) \subseteq Pooled
        BY <4>1 DEF HInv, PlaceInv, Listed
      <4>3. Thins
        BY <4>1, <4>2 DEF Thins, Pooled
      <4>4. QED BY <3>1, <4>3
    <3>4. QED BY <2>2, <3>2, <3>3
  <2>3. CASE Snapshot(r) \/ SnapshotDone(r)
    <3>1. UNCHANGED <<connections, conn, link>>
      BY <2>3 DEF Snapshot, SnapshotDone
    <3>2. QED BY <2>3, <3>1, SnapshotKeeps, UnchangedWears
  <2>4. CASE Taken(r) \/ Skip(r)
    <3>1. UNCHANGED <<connections, conn, link>>
      BY <2>4 DEF Taken, Skip
    <3>2. QED BY <2>4, <3>1, TakenKeeps, UnchangedWears
  <2>5. CASE Reuse(r)
    <3>1. Matching(r) /\ conn[Candidate] = None /\ UNCHANGED <<connections, link>>
      BY <2>5 DEF Reuse
    <3>2. Candidate \in Requests
      BY <3>1, MatchContext DEF IInv
    <3>3. QED BY <2>5, <3>1, <3>2, ReuseKeeps DEF Lends
  <2>6. CASE Create(r) \/ Evict(r)
    BY <2>6, CreateKeeps, EvictKeeps DEF Renews
  <2>7. CASE MatchDone(r)
    <3>1. UNCHANGED <<connections, conn, link>>
      BY <2>7 DEF MatchDone
    <3>2. QED BY <2>7, <3>1, DoneKeeps, UnchangedWears
  <2>8. QED BY <1>1, <2>1, <2>2, <2>3, <2>4, <2>5, <2>6, <2>7 DEF Pass
<1>2. ASSUME NEW r \in Requests,
             \/ Acquired(r) \/ WaitFails(r) \/ LockConnect(r) \/ SendCancelled(r)
             \/ Headers(r) \/ LockCancelled(r) \/ Connected(r) \/ ConnectFails(r)
             \/ Begin(r) \/ ExchangeFails(r) \/ CloseResponse(r)
      PROVE  Goal
  <2>1. HInv' /\ WorksOnly(r)
    BY <1>2, IdleSteps, ConnectSteps, ExchangeSteps
  <2>2. QED BY <2>1 DEF WorksOnly, Wears
<1>3. ASSUME NEW r \in Requests, Assign(r) \/ Leave(r) PROVE Goal
  <2>1. CASE Assign(r)
    BY <2>1, AssignKeeps, UnchangedWears DEF Assign
  <2>2. CASE Leave(r)
    <3>1. Returns
      BY <2>2 DEF Leave, Returns
    <3>2. QED BY <2>2, <3>1, LeaveKeeps
  <2>3. QED BY <1>3, <2>1, <2>2
<1>4. ASSUME NEW t \in Tasks, CloseNext(t) \/ CloseDone(t) PROVE Goal
  <2>1. CASE CloseNext(t)
    <3>1. UNCHANGED <<connections, conn>>
      BY <2>1 DEF CloseNext
    <3>2. QED BY <2>1, <3>1, CloseNextKeeps DEF Wears
  <2>2. CASE CloseDone(t)
    <3>1. t \in Requests /\ UNCHANGED <<connections, conn, link>>
      BY <2>2 DEF CloseDone, Tasks, OneByOne
    <3>2. QED BY <2>2, <3>1, DoneKeeps, UnchangedWears
  <2>3. QED BY <1>4, <2>1, <2>2
<1>5. ASSUME NEW t \in Tasks, Progress(t) PROVE Goal
  BY <1>1, <1>2, <1>3, <1>4, <1>5, Impossible DEF Progress
<1>6. ASSUME NEW r \in Requests, NEW o \in Origins, Submit(r, o) PROVE Goal
  BY <1>6, SubmitKeeps, UnchangedWears DEF Submit
<1>7. ASSUME NEW r \in Requests, Cancel(r) \/ Refused(r) PROVE Goal
  BY <1>2, <1>7, Impossible DEF Cancel
<1>8. ASSUME NEW c \in Conns, Expire(c) \/ GoAway(c) PROVE Goal
  <2>1. Expire(c)
    BY <1>8, Impossible
  <2>2. UNCHANGED <<connections, conn>>
    BY <2>1 DEF Expire
  <2>3. QED BY <2>1, <2>2, ExpireKeeps DEF Wears
<1>9. CASE UNCHANGED vars
  <2>1. HInv'
    BY <1>9 DEF vars, HInv, LoopInv, SocketInv, LeaseInv, BusyInv, PlaceInv, RefsInv,
                OfferedInv, At, Listed, Doomed, Free, InFlight, Pooled, IsClosed
  <2>2. QED BY <1>9, <2>1, UnchangedWears DEF vars
<1>10. Goal
  <2>1. \A k \in Closers : ~AClose(k)
    BY Impossible
  <2>2. CASE Next
    BY <1>5, <1>6, <1>7, <1>8, <1>9, <2>1, <2>2, Zenon DEF Next, Finished
  <2>3. QED BY <1>9, <2>2
<1>11. QED BY <1>10 DEF Goal

LEMMA HInvInit ==
  ASSUME Init
  PROVE  HInv
<1>1. \A r \in Requests : pc[r] = "start" /\ conn[r] = None
  BY DEF Init, Tasks
<1>2. \A c \in Conns : link[c] = NewLink(None)
  BY DEF Init
<1>3. \A stages \in SUBSET Scanning : ~At(stages)
  BY <1>1 DEF At, Scanning
<1>4. LoopInv
  BY <1>1 DEF LoopInv, Scanning
<1>5. SocketInv /\ BusyInv
  BY <1>2 DEF SocketInv, BusyInv, LinkOK, NewLink
<1>6. LeaseInv
  BY <1>1 DEF LeaseInv
<1>7. RefsInv /\ OfferedInv
  BY <1>3, Points DEF RefsInv, OfferedInv
<1>8. PlaceInv
  <2>1. Listed = Pooled
    BY <1>3, Points DEF Listed
  <2>2. ToSet(<< >>) = {}
    BY EmptyList
  <2>3. \A t \in Tasks : ToSet(closing[t]) = {}
    BY <2>2 DEF Init
  <2>4. Doomed = {}
    BY <2>3 DEF Doomed
  <2>5. QED BY <1>1, <1>2, <2>1, <2>4 DEF PlaceInv, NewLink
<1>9. QED BY <1>4, <1>5, <1>6, <1>7, <1>8 DEF HInv

LEMMA IInvInit == Init => IInv
BY PInvInit, UseInit DEF IInv

LEMMA IInvNext == IInv /\ [Next]_vars => IInv'
BY PInvNext, UseNext DEF IInv

\* A list without duplicates is as long as its set of elements.
LEMMA ListSize ==
  ASSUME NEW S, NEW s \in Seq(S)
  PROVE  IsFiniteSet(ToSet(s)) /\ Cardinality(ToSet(s)) <= Len(s)
<1>1. Len(s) \in Nat /\ DOMAIN s = 1 .. Len(s)
  BY Elements
<1>2. IsFiniteSet(1 .. Len(s)) /\ Cardinality(1 .. Len(s)) = Len(s)
  <2>1. 1 \in Int /\ Len(s) \in Int
    BY <1>1
  <2>2. QED BY <1>1, <2>1, FS_Interval
<1>3. ToSet(s) = {s[i] : i \in 1 .. Len(s)}
  BY <1>1 DEF ToSet
<1>4. s \in Surjection(1 .. Len(s), ToSet(s))
  <2>1. s \in [1 .. Len(s) -> ToSet(s)]
    BY <1>1, <1>3, LenProperties
  <2>2. QED BY <1>3, <2>1 DEF Surjection
<1>5. IsFiniteSet(ToSet(s)) /\ Cardinality(ToSet(s)) <= Cardinality(1 .. Len(s))
  BY <1>2, <1>4, FS_Surjection
<1>6. QED BY <1>2, <1>5

LEMMA LeaseInit ==
  ASSUME Init
  PROVE  Leases!Init
<1>1. Pooled = {}
  BY EmptyList DEF Init, Pooled
<1>2. {c \in Conns : IsClosed(c)} \in SUBSET Conns
  OBVIOUS
<1>3. conn = [r \in Requests |-> None]
  BY DEF Init
<1>4. QED BY <1>1, <1>2, <1>3 DEF Leases!Init

LEMMA LeaseStep ==
  ASSUME OneByOne, IInv, IInv', HInv, HInv',
         Wears \/ Lends \/ Renews \/ Returns \/ Thins
  PROVE  [Leases!Next]_(Leases!vars)
<1> DEFINE dead == {c \in Conns : IsClosed(c)}
<1>1. /\ conn \in [Requests -> Conns \cup {None}] /\ link \in [Conns -> Link]
      /\ connections' \in Seq(Conns) /\ Len(connections') <= MaxConnections
      /\ None \notin Conns /\ MaxConnections \in Nat
  BY PoolAssumption DEF IInv, PInv, TypeOK, PassInv, PoolBounded
<1>2. \A c \in Conns : Free(c) <=> c \notin Leases!Leased
  BY <1>1 DEF Free, Leases!Leased
<1>3. CASE Wears
  <2>1. dead \subseteq dead' /\ UNCHANGED <<Pooled, conn>>
    BY <1>3 DEF Wears, Pooled
  <2>2. Leases!Die
    BY <2>1 DEF Leases!Die
  <2>3. QED BY <2>2 DEF Leases!Next
<1>4. CASE Lends
  <2>1. PICK k \in Requests, c \in Pooled :
          /\ conn[k] = None /\ conn' = [conn EXCEPT ![k] = c]
          /\ Free(c) /\ link[c].inner = "IDLE" /\ c \in Conns
          /\ UNCHANGED <<connections, link>>
    BY <1>4 DEF Lends
  <2>2. c \notin dead /\ c \notin Leases!Leased
    BY <1>2, <2>1 DEF IsClosed
  <2>3. UNCHANGED <<Pooled, dead>>
    BY <2>1 DEF Pooled, IsClosed
  <2>4. Leases!Lend(k, c)
    BY <2>1, <2>2, <2>3 DEF Leases!Lend, Leases!Take
  <2>5. QED BY <2>1, <2>4 DEF Leases!Next
<1>5. ASSUME NEW k \in Requests, NEW c \in Conns, NEW gone \in SUBSET Pooled,
             Renewed(k, c, gone)
      PROVE  Leases!LendNew(k, c, gone)
  <2>1. /\ conn[k] = None /\ conn' = [conn EXCEPT ![k] = c]
        /\ c \notin Pooled /\ Free(c) /\ \A d \in gone : Free(d)
        /\ Pooled' = (Pooled \ gone) \cup {c}
    BY <1>5 DEF Renewed
  <2>2. PICK o \in Origins \cup {None} : link' = [link EXCEPT ![c] = NewLink(o)]
    BY <1>5 DEF Renewed
  <2>3. Pooled \subseteq Conns
    BY Elements DEF Pooled, IInv, PInv, TypeOK
  <2>4. c \notin Pooled \cup Leases!Leased /\ gone \subseteq Pooled \ Leases!Leased
    BY <1>2, <2>1, <2>3
  <2>5. Cardinality(Pooled') <= MaxConnections
    <3>1. /\ Cardinality(ToSet(connections')) <= Len(connections')
          /\ Cardinality(ToSet(connections')) \in Nat /\ Len(connections') \in Nat
      BY <1>1, ListSize, FS_CardinalityType, Elements
    <3>2. QED BY <1>1, <3>1 DEF Pooled
  <2>6. dead' = dead \ {c}
    <3>1. \A d \in Conns : link'[d] = IF d = c THEN NewLink(o) ELSE link[d]
      BY <1>1, <2>2
    <3>2. ~IsClosed(c)'
      BY <3>1 DEF IsClosed, NewLink
    <3>3. \A d \in Conns : d # c => IsClosed(d)' = IsClosed(d)
      BY <3>1 DEF IsClosed
    <3>4. QED BY <3>2, <3>3
  <2>7. Leases!Take(k, c)
    BY <2>1 DEF Leases!Take
  <2>8. Leases!Cardinality(Pooled') = Cardinality(Pooled')
    BY DEF Leases!Cardinality, Cardinality
  <2>9. QED BY <2>1, <2>4, <2>5, <2>6, <2>7, <2>8 DEF Leases!LendNew
<1>6. CASE Renews
  <2>1. PICK k \in Requests, c \in Conns :
          Renewed(k, c, {}) \/ \E old \in Pooled : Renewed(k, c, {old})
    BY <1>6 DEF Renews
  <2>2. Leases!LendNew(k, c, {}) \/ \E old \in Pooled : Leases!LendNew(k, c, {old})
    BY <1>5, <2>1
  <2>3. QED BY <2>2 DEF Leases!Next
<1>7. CASE Returns
  <2>1. PICK r \in Requests : /\ conn' = [conn EXCEPT ![r] = None]
                              /\ UNCHANGED <<connections, link>>
    BY <1>7 DEF Returns
  <2>2. UNCHANGED <<Pooled, dead>>
    BY <2>1 DEF Pooled, IsClosed
  <2>3. CASE conn[r] # None
    <3>1. Leases!Return(r)
      BY <2>1, <2>2, <2>3 DEF Leases!Return
    <3>2. QED BY <3>1 DEF Leases!Next
  <2>4. CASE conn[r] = None
    <3>1. conn' = conn
      BY <1>1, <2>1, <2>4
    <3>2. QED BY <2>2, <3>1 DEF Leases!vars
  <2>5. QED BY <2>3, <2>4
<1>8. CASE Thins
  <2>1. Pooled' \subseteq Pooled /\ UNCHANGED <<conn, link>>
    BY <1>8 DEF Thins
  <2>2. UNCHANGED dead
    BY <2>1 DEF IsClosed
  <2>3. \A r \in Requests : conn[r] # None /\ conn[r] \notin Pooled' => conn[r] \in dead
    <3>1. \A r \in Requests : conn'[r] # None /\ ~IsClosed(conn[r])' => conn'[r] \in Pooled'
      BY DEF HInv, PlaceInv
    <3>2. \A r \in Requests : conn[r] # None => IsClosed(conn[r])' = IsClosed(conn[r])
      BY <2>1 DEF IsClosed
    <3>3. QED BY <1>1, <2>1, <3>1, <3>2
  <2>4. (Pooled \ Pooled') \cap Leases!Leased \subseteq dead
    BY <2>3 DEF Leases!Leased
  <2>5. Leases!Discard
    BY <2>1, <2>2, <2>4 DEF Leases!Discard
  <2>6. QED BY <2>5 DEF Leases!Next
<1>9. QED BY <1>3, <1>4, <1>6, <1>7, <1>8

-----------------------------------------------------------------------------
LEMMA LeaseInvariant == OneByOne => (Spec => [](IInv /\ HInv))
<1> SUFFICES ASSUME OneByOne PROVE Spec => [](IInv /\ HInv)
  OBVIOUS
<1>1. Init => IInv /\ HInv
  BY IInvInit, HInvInit
<1>2. (IInv /\ HInv) /\ [Next]_vars => (IInv /\ HInv)'
  <2> SUFFICES ASSUME IInv, HInv, [Next]_vars PROVE IInv' /\ HInv'
    OBVIOUS
  <2>1. IInv' /\ TypeOK'
    BY IInvNext DEF IInv, PInv
  <2>2. QED BY <2>1, HInvNext
<1>3. QED BY <1>1, <1>2, PTL DEF Spec

\* The pool closes no connection that is lent to a request: what a pass or an
\* eviction puts on a closing list was free then, and nobody can borrow it
\* while the list is worked off, since it has left the pool.
THEOREM NothingLentIsClosed == OneByOne => (Spec => []NoCloseUnderRequest)
<1> SUFFICES ASSUME OneByOne PROVE Spec => []NoCloseUnderRequest
  OBVIOUS
<1>1. IInv /\ HInv => NoCloseUnderRequest
  <2> SUFFICES ASSUME IInv, HInv, NEW t \in Tasks, NEW c \in ToSet(closing[t])
               PROVE  Unreferenced(c)
    BY DEF NoCloseUnderRequest
  <2>1. Free(c)
    BY DEF HInv, PlaceInv, Doomed
  <2>2. InFlight \subseteq Requests
    BY Elements DEF IInv, PInv, TypeOK, InFlight
  <2>3. QED BY <2>1, <2>2 DEF Free, Unreferenced
<1>2. QED BY <1>1, LeaseInvariant, PTL

\* No socket is forgotten: whatever fails, is cancelled or expires, a connection
\* with an open socket is in the pool, on a closing list, or lent.
THEOREM NoSocketIsForgotten == OneByOne => (Spec => []NoOrphanSocket)
<1> SUFFICES ASSUME OneByOne PROVE Spec => []NoOrphanSocket
  OBVIOUS
<1>1. IInv /\ HInv => NoOrphanSocket
  <2> SUFFICES ASSUME HInv, NEW c \in Conns, link[c].open
               PROVE  \/ c \in Pooled \/ c \in ToSet(scan.todo) \cup ToSet(scan.kept)
                      \/ \E t \in Tasks : c \in ToSet(closing[t])
    BY DEF NoOrphanSocket
  <2>1. c \in Listed \/ c \in Doomed
    BY DEF HInv, PlaceInv
  <2>2. QED BY <2>1 DEF HInv, PlaceInv, Doomed
<1>2. QED BY <1>1, LeaseInvariant, PTL

\* The pool is a pool of leases: a request holds one connection, a connection is
\* lent to one request, and what leaves the pool's list is free or dead.
THEOREM RefinesLeasePool == OneByOne => (Spec => ImplementsLeasePool)
<1> SUFFICES ASSUME OneByOne PROVE Spec => ImplementsLeasePool
  OBVIOUS
<1>1. Init => Leases!Init
  BY LeaseInit
<1>2. (IInv /\ HInv) /\ (IInv /\ HInv)' /\ [Next]_vars => [Leases!Next]_(Leases!vars)
  <2> SUFFICES ASSUME IInv, HInv, IInv', HInv', [Next]_vars
               PROVE  [Leases!Next]_(Leases!vars)
    OBVIOUS
  <2>1. Wears \/ Lends \/ Renews \/ Returns \/ Thins
    BY HInvNext DEF IInv, PInv
  <2>2. QED BY <2>1, LeaseStep
<1>3. QED
  BY <1>1, <1>2, LeaseInvariant, PTL DEF Spec, ImplementsLeasePool, Leases!Spec

-----------------------------------------------------------------------------
(***************************************************************************)
(* The limits: what the pass keeps, and the slots it gives out.            *)
(***************************************************************************)
\* The idle connections of S that nobody holds.
Spare(S) == {c \in S : IsIdle(c) /\ Free(c)}

\* The pass counts the surplus when clean-up ends, and trims it from the left:
\* as long as something is left to trim, nothing spare has been kept.
KeepInv ==
  /\ ~Passing \/ At({"snapshot", "match", "taken"}) =>
       Cardinality(Spare(Pooled)) <= MaxKeepalive
  /\ At({"trim"}) /\ scan.surplus > 0 =>
       /\ Spare(ToSet(scan.kept)) = {}
       /\ Cardinality(Spare(ToSet(scan.todo))) <= MaxKeepalive + scan.surplus
  /\ At({"trim"}) /\ scan.surplus <= 0 =>
       Cardinality(Spare(ToSet(scan.todo) \cup ToSet(scan.kept))) <= MaxKeepalive

\* A connection that survives a pass: it works, or somebody is at work on it.
Vital(c) == IsConnected(c) \/ ~Free(c)

\* What the pass has looked at is vital, then offered or lent; the requests it
\* has passed by have a connection.
SlotInv ==
  /\ At({"sweep"}) => \A c \in ToSet(scan.kept) : Vital(c)
  /\ At({"trim"}) => \A c \in ToSet(scan.kept) \cup ToSet(scan.todo) : Vital(c)
  /\ At({"snapshot"}) =>
       \A c \in Pooled : /\ Vital(c)
                         /\ Free(c) => c \in ToSet(scan.todo) \cup ToSet(scan.avail)
  /\ At({"match", "taken"}) =>
       /\ \A c \in Pooled : Free(c) => c \in ToSet(scan.avail)
       /\ \A i \in DOMAIN requests : i < scan.next => conn[requests[i]] # None
  /\ At({"taken"}) =>
       scan.next \in DOMAIN requests /\ conn[Candidate] = scan.avail[scan.hit]
  /\ At({"sweep", "trim", "snapshot"}) => scan.next = 1
  /\ NoLostSlot

\* Where taking a free lock suspends, a connection that is made but not used
\* yet can be left behind; elsewhere no slot is lost.
CapInv == KeepInv /\ (~Checkpoints => SlotInv)

-----------------------------------------------------------------------------
LEMMA MaxKeepaliveType == MaxKeepalive \in Nat
BY PoolAssumption DEF MaxKeepalive

\* Fewer spare connections are within the limit, too.
LEMMA FewerSpare ==
  ASSUME NEW S, IsFiniteSet(S), NEW T \in SUBSET S, NEW n \in Int,
         Cardinality(S) <= n
  PROVE  IsFiniteSet(T) /\ Cardinality(T) <= n
<1>1. IsFiniteSet(T) /\ Cardinality(T) <= Cardinality(S)
  BY FS_Subset
<1>2. Cardinality(S) \in Nat /\ Cardinality(T) \in Nat
  BY <1>1, FS_CardinalityType
<1>3. QED BY <1>1, <1>2

LEMMA SpareFinite ==
  ASSUME NEW S, IsFiniteSet(S)
  PROVE  IsFiniteSet(Spare(S)) /\ Cardinality(Spare(S)) \in Nat
<1>1. Spare(S) \subseteq S
  BY DEF Spare
<1>2. QED BY <1>1, FS_Subset, FS_CardinalityType

LEMMA PooledFinite ==
  ASSUME TypeOK
  PROVE  IsFiniteSet(Pooled) /\ Pooled \subseteq Conns
BY ListSize, Elements DEF TypeOK, Pooled

\* The pool lists no new spare connection.
LEMMA SpareKept ==
  ASSUME TypeOK, Cardinality(Spare(Pooled)) <= MaxKeepalive,
         Spare(Pooled)' \subseteq Spare(Pooled)
  PROVE  (Cardinality(Spare(Pooled)) <= MaxKeepalive)'
<1>1. IsFiniteSet(Spare(Pooled)) /\ MaxKeepalive \in Int
  BY PooledFinite, SpareFinite, MaxKeepaliveType
<1>2. Cardinality(Spare(Pooled)') <= MaxKeepalive
  BY <1>1, FewerSpare
<1>3. QED BY <1>2 DEF MaxKeepalive

\* Lent is referenced.
LEMMA LentIsReferenced ==
  ASSUME TypeOK, LeaseInv, NEW c \in Conns
  PROVE  Unreferenced(c) <=> Free(c)
<1>1. InFlight \subseteq Requests
  BY Elements DEF TypeOK, InFlight
<1>2. QED BY <1>1, PoolAssumption DEF Unreferenced, Free, LeaseInv

-----------------------------------------------------------------------------
(***************************************************************************)
(* Outside the pass.                                                       *)
(***************************************************************************)
\* A step that has nothing to do with the pool's lists.
Besides ==
  /\ UNCHANGED <<requests, connections, conn>>
  /\ ~Passing /\ ~Passing'
  /\ \A c \in Pooled : Free(c) /\ IsIdle(c)' => IsIdle(c)

LEMMA NotPassing ==
  ASSUME ~Passing
  PROVE  \A stages \in SUBSET Scanning : ~At(stages)
BY DEF Passing, At

LEMMA BesidesKeeps ==
  ASSUME IInv, TypeOK', HInv, HInv', CapInv, Besides
  PROVE  CapInv'
<1>1. /\ \A stages \in SUBSET Scanning : ~At(stages)
      /\ \A stages \in SUBSET Scanning : ~At(stages)'
      /\ TypeOK /\ Pooled' = Pooled /\ Pooled \subseteq Conns
      /\ \A c : Free(c)' = Free(c)
  BY NotPassing, PooledFinite DEF Besides, Passing, At, IInv, PInv, Pooled, Free
<1>2. KeepInv'
  <2>1. Spare(Pooled)' \subseteq Spare(Pooled)
    BY <1>1 DEF Besides, Spare
  <2>2. Cardinality(Spare(Pooled)) <= MaxKeepalive
    BY DEF Besides, CapInv, KeepInv
  <2>3. (Cardinality(Spare(Pooled)) <= MaxKeepalive)'
    BY <1>1, <2>1, <2>2, SpareKept
  <2>4. QED BY <1>1, <2>3, Points DEF KeepInv
<1>3. ASSUME ~Checkpoints PROVE SlotInv'
  <2>1. NoLostSlot
    BY <1>3 DEF CapInv, SlotInv
  <2>2. \A c : Unreferenced(c)' = Unreferenced(c)
    BY DEF Besides, Unreferenced, InFlight
  <2>3. NoLostSlot'
    BY <1>1, <2>1, <2>2 DEF Besides, NoLostSlot, InFlight
  <2>4. QED BY <1>1, <2>3, Points DEF SlotInv
<1>4. QED BY <1>2, <1>3 DEF CapInv

\* A request at work changes only what it holds.
LEMMA WorkIsBesides ==
  ASSUME TypeOK, TypeOK', NEW r \in Requests, WorksOnly(r)
  PROVE  Besides
<1>1. \A c \in Conns : Free(c) => link'[c] = link[c]
  BY DEF WorksOnly, Free
<1>2. QED BY <1>1, PooledFinite DEF WorksOnly, Besides, IsIdle

LEMMA CloseIsBesides ==
  ASSUME OneByOne, IInv, TypeOK', HInv, NEW t \in Tasks, CloseNext(t) \/ CloseDone(t)
  PROVE  Besides
<1>1. /\ pc[t] = "closing" /\ running \in {None, t}
      /\ UNCHANGED <<requests, connections, conn>> /\ TypeOK
  BY DEF CloseNext, CloseDone, MayRun, OneByOne, IInv, PInv
<1>2. ~Passing /\ \A stages \in SUBSET Scanning : ~At(stages)
  BY <1>1, Alone DEF HInv, Scanning
<1>3. CASE CloseNext(t)
  <2> DEFINE d == Head(closing[t])
  <2>1. pc' = pc /\ link' = [link EXCEPT ![d] = Shut(link[d])] /\ closing[t] # << >>
    BY <1>3 DEF CloseNext
  <2>2. closing[t] \in Seq(Conns) /\ link \in [Conns -> Link]
    BY <1>1 DEF TypeOK
  <2>3. d \in ToSet(closing[t]) /\ d \in Conns
    BY <2>1, <2>2, TailList
  <2>4. d \notin Listed
    BY <2>3 DEF HInv, PlaceInv, Doomed
  <2>5. Listed = Pooled
    BY <1>2, Points DEF Listed
  <2> HIDE DEF d
  <2>6. \A c \in Pooled : link'[c] = link[c]
    BY <1>1, <2>1, <2>2, <2>3, <2>4, <2>5, PooledFinite
  <2>7. QED BY <1>1, <1>2, <2>1, <2>6 DEF Besides, Passing, IsIdle
<1>4. CASE CloseDone(t)
  <2>1. t \in Requests /\ link' = link
    BY <1>4 DEF CloseDone, Tasks, OneByOne
  <2>2. pc' = [pc EXCEPT ![t] = Resume(t)]
    BY <1>4, <2>1 DEF CloseDone, OneByOne, Goto
  <2>3. Resume(t) \notin Scanning \cup {"assign"}
    BY ResumeStage DEF Scanning
  <2>4. ~Passing'
    BY <1>1, <1>2, <2>2, <2>3 DEF Passing, TypeOK, Tasks
  <2>5. QED BY <1>1, <1>2, <2>1, <2>4 DEF Besides, IsIdle
<1>5. QED BY <1>3, <1>4

LEMMA ExpireIsBesides ==
  ASSUME OneByOne, IInv, TypeOK', HInv, NEW c \in Conns, Expire(c)
  PROVE  Besides
<1>1. /\ running = None
      /\ link' = [link EXCEPT ![c] = [link[c] EXCEPT !.expired = TRUE]]
      /\ UNCHANGED <<requests, connections, pc, conn>>
  BY DEF Expire, MayRun, OneByOne
<1>2. link \in [Conns -> Link] /\ TypeOK
  BY DEF IInv, PInv, TypeOK
<1>3. \A d \in Conns : link'[d].inner = link[d].inner /\ link'[d].failed = link[d].failed
  BY <1>1, <1>2 DEF Link
<1>4. \A r \in Requests : pc[r] \notin Scanning \cup {"assign"}
  BY <1>1, PoolAssumption DEF HInv, LoopInv
<1>5. QED BY <1>1, <1>2, <1>3, <1>4, PooledFinite DEF Besides, Passing, IsIdle

\* A request enters the queue, and a pass begins.
LEMMA EntryCap ==
  ASSUME OneByOne, IInv, TypeOK', HInv, HInv', CapInv, NEW r \in Requests,
         (\E o \in Origins : Submit(r, o)) \/ Assign(r) \/ Leave(r)
  PROVE  CapInv'
<1>1. PICK stage \in {"assign", "sweep"} :
        /\ pc' = [pc EXCEPT ![r] = stage]
        /\ stage = "sweep" => scan'.kept = << >> /\ scan'.next = 1
  BY DEF Submit, Assign, Leave, StartPass, Goto, EmptyScan
<1>2. ~Locked /\ TypeOK /\ r \in Tasks
  BY DEF Submit, Assign, Leave, IInv, PInv, Tasks
<1>3. \A s \in Requests : pc'[s] = IF s = r THEN stage ELSE pc[s]
  BY <1>1, <1>2 DEF TypeOK
<1>4. /\ \A stages \in SUBSET Scanning : At(stages)' => stage = "sweep" /\ "sweep" \in stages
      /\ Passing'
  <2>1. \A s \in Requests : pc[s] \notin Scanning
    BY <1>2 DEF Locked
  <2>2. "assign" \notin Scanning /\ "sweep" \in Scanning
    BY DEF Scanning
  <2>3. QED BY <1>1, <1>3, <2>1, <2>2 DEF At, Passing
<1>5. /\ ~At({"snapshot", "match", "taken"})' /\ ~At({"trim"})' /\ ~At({"snapshot"})'
      /\ ~At({"match", "taken"})' /\ ~At({"taken"})'
  BY <1>4, Points
<1>6. KeepInv'
  BY <1>4, <1>5 DEF KeepInv
<1>7. SlotInv'
  <2>1. At({"sweep"})' => scan'.kept = << >>
    BY <1>1, <1>4, Points
  <2>2. At({"sweep", "trim", "snapshot"})' => scan'.next = 1
    BY <1>1, <1>4, Points
  <2>3. NoLostSlot'
    BY <1>4 DEF NoLostSlot
  <2>4. ToSet(<< >>) = {}
    BY EmptyList
  <2>5. QED BY <1>5, <2>1, <2>2, <2>3, <2>4 DEF SlotInv
<1>8. QED BY <1>6, <1>7 DEF CapInv

-----------------------------------------------------------------------------
(***************************************************************************)
(* The loops of the pass.                                                  *)
(***************************************************************************)
\* What clean-up keeps is vital.
LEMMA SweepCap ==
  ASSUME OneByOne, IInv, TypeOK', HInv, HInv', CapInv, NEW r \in Requests, Sweep(r)
  PROVE  CapInv'
<1> DEFINE c == Head(scan.todo)
<1>1. /\ pc[r] = "sweep" /\ pc[r] \in Scanning /\ scan.todo # << >>
      /\ UNCHANGED <<requests, connections, link, pc, running, conn, want>>
      /\ scan \in Scan /\ TypeOK /\ scan.todo \in Seq(Conns) /\ scan.kept \in Seq(Conns)
      /\ r \in Tasks
  BY DEF Sweep, IInv, PInv, TypeOK, Scanning, Scan, Tasks
<1>2. /\ \A stages \in SUBSET Scanning : At(stages) <=> "sweep" \in stages
      /\ \A stages \in SUBSET Scanning : At(stages)' <=> "sweep" \in stages
      /\ \A d : Free(d)' = Free(d)
  BY <1>1, LoopStep
<1>3. /\ At({"sweep"}) /\ At({"sweep", "trim", "snapshot"}) /\ Passing'
      /\ ~At({"snapshot", "match", "taken"})' /\ ~At({"trim"})' /\ ~At({"snapshot"})'
      /\ ~At({"match", "taken"})' /\ ~At({"taken"})'
  BY <1>1, <1>2, Points DEF Passing
<1>4. KeepInv'
  BY <1>3 DEF KeepInv
<1>5. c \in Conns
  BY <1>1, TailList
<1>6. /\ scan'.next = scan.next
      /\ scan'.kept \in {scan.kept, Append(scan.kept, c)}
      /\ scan'.kept = scan.kept \/ ~Drops(c)
  <2>1. scan' = [scan EXCEPT !.todo = Tail(@),
                   !.kept = IF Drops(c) \/ Expires(c) THEN @ ELSE Append(@, c)]
    BY DEF Sweep
  <2>2. CASE Drops(c) \/ Expires(c)
    BY <1>1, <2>1, <2>2 DEF Scan
  <2>3. CASE ~(Drops(c) \/ Expires(c))
    BY <1>1, <2>1, <2>3 DEF Scan
  <2>4. QED BY <2>2, <2>3
<1> HIDE DEF c
<1>7. ~Drops(c) => Vital(c)
  <2>1. scan.refs = {conn[q] : q \in Requests} \ {None}
    BY <1>3 DEF HInv, RefsInv
  <2>2. Reserved(c) => ~Free(c)
    BY <2>1 DEF Reserved, Free
  <2>3. QED BY <2>2 DEF Drops, Vital
<1>8. ASSUME ~Checkpoints PROVE SlotInv'
  <2>1. \A d \in ToSet(scan.kept) : Vital(d)
    BY <1>3, <1>8 DEF CapInv, SlotInv
  <2>2. ToSet(Append(scan.kept, c)) = ToSet(scan.kept) \cup {c}
    BY <1>1, <1>5, AppendList
  <2>3. \A d \in ToSet(scan'.kept) : Vital(d)
    BY <1>6, <1>7, <2>1, <2>2
  <2>4. \A d : Vital(d)' = Vital(d)
    BY <1>1 DEF Vital, IsConnected, Free
  <2>5. scan'.next = 1
    BY <1>3, <1>6, <1>8 DEF CapInv, SlotInv
  <2>6. QED BY <1>3, <2>3, <2>4, <2>5 DEF SlotInv, NoLostSlot
<1>9. QED BY <1>4, <1>8 DEF CapInv

\* Where nobody is in the pass to hand out connections, surplus is spare.
LEMMA SurplusIsSpare ==
  ASSUME TypeOK, HInv, At({"sweep", "trim", "snapshot"}), NEW c \in Conns
  PROVE  Surplus(c) <=> IsIdle(c) /\ Free(c)
<1>1. scan.refs = {conn[q] : q \in Requests} \ {None}
  BY DEF HInv, RefsInv
<1>2. Reserved(c) <=> ~Free(c)
  BY <1>1, PoolAssumption DEF Reserved, Free
<1>3. QED BY <1>2 DEF Surplus

\* The count of the surplus is the number of spare connections.
LEMMA CountsSpare ==
  ASSUME TypeOK, HInv, At({"sweep", "trim", "snapshot"})
  PROVE  /\ CountIdle \in Nat /\ IsFiniteSet(Spare(ToSet(scan.kept)))
         /\ Cardinality(Spare(ToSet(scan.kept))) <= CountIdle
<1> DEFINE s == scan.kept
           I == {i \in DOMAIN s : Surplus(s[i])}
           T == Spare(ToSet(s))
           f == [i \in I |-> s[i]]
<1>1. s \in Seq(Conns) /\ Len(s) \in Nat /\ DOMAIN s = 1 .. Len(s)
  BY Elements DEF TypeOK, Scan
<1>2. IsFiniteSet(1 .. Len(s))
  <2>1. 1 \in Int /\ Len(s) \in Int BY <1>1
  <2>2. QED BY <2>1, FS_Interval
<1>3. I \subseteq 1 .. Len(s)
  BY <1>1
<1>4. IsFiniteSet(I) /\ Cardinality(I) \in Nat
  BY <1>2, <1>3, FS_Subset, FS_CardinalityType
<1>5. f \in Surjection(I, T)
  <2>1. \A i \in I : s[i] \in T
    BY <1>1, Elements, SurplusIsSpare DEF Spare
  <2>2. \A c \in T : \E i \in I : s[i] = c
    <3>1. \A c \in ToSet(s) : c \in Conns /\ \E i \in DOMAIN s : s[i] = c
      BY <1>1, Elements
    <3>2. QED BY <3>1, SurplusIsSpare DEF Spare
  <2> HIDE DEF I, T
  <2>3. QED BY <2>1, <2>2 DEF Surjection
<1>6. IsFiniteSet(T) /\ Cardinality(T) <= Cardinality(I)
  BY <1>4, <1>5, FS_Surjection
<1>7. CountIdle = Cardinality(I)
  BY DEF CountIdle
<1>8. QED BY <1>4, <1>6, <1>7

LEMMA SweepDoneCap ==
  ASSUME OneByOne, IInv, TypeOK', HInv, HInv', CapInv, NEW r \in Requests, SweepDone(r)
  PROVE  CapInv'
<1>1. /\ pc[r] = "sweep" /\ pc[r] \in Scanning /\ "trim" \in Scanning
      /\ Goto(r, "trim") /\ scan.todo = << >>
      /\ UNCHANGED <<requests, connections, link, conn, want, closing>>
      /\ scan \in Scan /\ TypeOK /\ r \in Tasks
  BY DEF SweepDone, IInv, PInv, TypeOK, Scanning, Tasks
<1>2. /\ scan'.todo = scan.kept /\ scan'.kept = << >> /\ scan'.surplus = IdleSurplus
      /\ scan'.next = scan.next
  BY <1>1 DEF SweepDone, Scan
<1>3. /\ \A stages \in SUBSET Scanning : At(stages) <=> "sweep" \in stages
      /\ \A stages \in SUBSET Scanning : At(stages)' <=> "trim" \in stages
      /\ \A d : Free(d)' = Free(d)
  BY <1>1, LoopStep
<1>4. /\ At({"sweep"}) /\ At({"sweep", "trim", "snapshot"})
      /\ ~At({"snapshot", "match", "taken"})' /\ ~At({"sweep"})' /\ ~At({"snapshot"})'
      /\ ~At({"match", "taken"})' /\ ~At({"taken"})' /\ At({"trim"})'
  BY <1>1, <1>3, Points
<1>5. Passing'
  BY <1>4 DEF At, Passing, Scanning
<1>6. ToSet(<< >>) = {}
  BY EmptyList
<1>8. KeepInv'
  <2> DEFINE n == CountIdle
             m == Cardinality(Spare(ToSet(scan.kept)))
  <2>1. n \in Nat /\ m <= n /\ IsFiniteSet(Spare(ToSet(scan.kept)))
    BY <1>1, <1>4, CountsSpare
  <2>2. m \in Nat /\ MaxKeepalive \in Nat
    BY <2>1, FS_CardinalityType, MaxKeepaliveType
  <2>3. scan'.surplus = n - MaxKeepalive
    BY <1>2 DEF IdleSurplus
  <2>4. Spare(ToSet(scan.todo))' = Spare(ToSet(scan.kept))
    BY <1>1, <1>2, <1>3 DEF Spare, IsIdle
  <2>5. Spare(ToSet(scan.kept))' = {}
    BY <1>2, <1>6 DEF Spare
  <2>6. Spare(ToSet(scan.todo) \cup ToSet(scan.kept))' = Spare(ToSet(scan.kept))
    BY <1>1, <1>2, <1>3, <1>6 DEF Spare, IsIdle
  <2> HIDE DEF n, m
  <2>7. m <= MaxKeepalive + scan'.surplus
    BY <2>1, <2>2, <2>3
  <2>8. scan'.surplus <= 0 => m <= MaxKeepalive
    BY <2>1, <2>2, <2>3
  <2>9. QED BY <1>4, <1>5, <2>4, <2>5, <2>6, <2>7, <2>8 DEF KeepInv, MaxKeepalive, m
<1>9. ASSUME ~Checkpoints PROVE SlotInv'
  <2>1. (\A d \in ToSet(scan.kept) : Vital(d)) /\ scan.next = 1
    BY <1>4, <1>9 DEF CapInv, SlotInv
  <2>2. \A d : Vital(d)' = Vital(d)
    BY <1>1 DEF Vital, IsConnected, Free
  <2>3. \A d \in ToSet(scan'.kept) \cup ToSet(scan'.todo) : Vital(d)
    BY <1>2, <1>6, <2>1
  <2>4. QED BY <1>2, <1>4, <1>5, <2>1, <2>2, <2>3 DEF SlotInv, NoLostSlot
<1>10. QED BY <1>8, <1>9 DEF CapInv

\* Trimming: a spare connection goes as long as the surplus is positive.
LEMMA TrimKeep ==
  ASSUME OneByOne, IInv, TypeOK', HInv, KeepInv, NEW r \in Requests, Trim(r)
  PROVE  KeepInv'
<1> DEFINE c == Head(scan.todo)
           rest == Tail(scan.todo)
           close == scan.surplus > 0 /\ Surplus(c)
<1>1. /\ pc[r] = "trim" /\ pc[r] \in Scanning /\ scan.todo # << >>
      /\ UNCHANGED <<requests, connections, link, pc, running, conn, want>>
      /\ scan \in Scan /\ TypeOK /\ scan.todo \in Seq(Conns) /\ scan.kept \in Seq(Conns)
      /\ r \in Tasks /\ scan.surplus \in Int
  BY DEF Trim, IInv, PInv, TypeOK, Scanning, Scan, Tasks
<1>2. /\ \A stages \in SUBSET Scanning : At(stages) <=> "trim" \in stages
      /\ \A stages \in SUBSET Scanning : At(stages)' <=> "trim" \in stages
      /\ \A d : Free(d)' = Free(d)
  BY <1>1, LoopStep
<1>3. /\ At({"trim"}) /\ At({"trim"})' /\ At({"sweep", "trim", "snapshot"}) /\ Passing'
      /\ ~At({"snapshot", "match", "taken"})'
  BY <1>1, <1>2, Points DEF Passing
<1>4. /\ c \in Conns /\ ToSet(scan.todo) = {c} \cup ToSet(rest) /\ c \notin ToSet(rest)
      /\ ToSet(Append(scan.kept, c)) = ToSet(scan.kept) \cup {c}
      /\ rest \in Seq(Conns)
  <2>1. Splits(scan.kept, scan.todo)
    <3>1. At({"sweep", "trim"})
      BY <1>2, Points
    <3>2. QED BY <3>1 DEF IInv, PInv, PassInv, CleanInv
  <2>2. c \in Conns
    BY <1>1, TailList
  <2>3. QED BY <1>1, <2>1, <2>2, TailList, HeadOrTail, AppendList DEF Splits
<1>5. scan' = [scan EXCEPT !.todo = rest,
                 !.kept = IF close THEN @ ELSE Append(@, c),
                 !.surplus = IF close THEN @ - 1 ELSE @]
  BY DEF Trim
<1>6. Surplus(c) <=> IsIdle(c) /\ Free(c)
  BY <1>1, <1>3, <1>4, SurplusIsSpare
<1> HIDE DEF c, rest
<1>7. \A S : {d \in S : IsIdle(d)' /\ Free(d)'} = Spare(S)
  BY <1>1, <1>2 DEF Spare, IsIdle
<1>8. /\ IsFiniteSet(Spare(ToSet(scan.todo))) /\ IsFiniteSet(Spare(ToSet(rest)))
      /\ Cardinality(Spare(ToSet(scan.todo))) \in Nat
      /\ Cardinality(Spare(ToSet(rest))) \in Nat /\ MaxKeepalive \in Nat
  BY <1>1, <1>4, ListSize, SpareFinite, MaxKeepaliveType
<1> DEFINE m == Cardinality(Spare(ToSet(scan.todo)))
           n == Cardinality(Spare(ToSet(rest)))
<1>9. CASE close
  <2>1. /\ scan'.todo = rest /\ scan'.kept = scan.kept /\ scan'.surplus = scan.surplus - 1
    BY <1>1, <1>5, <1>9 DEF Scan
  <2>2. /\ scan.surplus > 0 /\ c \in Spare(ToSet(scan.todo))
        /\ Spare(ToSet(rest)) = Spare(ToSet(scan.todo)) \ {c}
        /\ Spare(ToSet(scan.kept)) = {} /\ m <= MaxKeepalive + scan.surplus
    BY <1>3, <1>4, <1>6, <1>9 DEF Spare, KeepInv
  <2>3. n + 1 = m
    <3>1. n = m - 1
      BY <1>8, <2>2, FS_RemoveElement
    <3>2. QED BY <1>8, <3>1
  <2>4. /\ Spare(ToSet(scan.todo))' = Spare(ToSet(rest))
        /\ Spare(ToSet(scan.kept))' = {}
        /\ Spare(ToSet(scan.todo) \cup ToSet(scan.kept))' = Spare(ToSet(rest))
    <3>1. /\ Spare(ToSet(scan.todo))' = Spare(ToSet(rest))
          /\ Spare(ToSet(scan.kept))' = Spare(ToSet(scan.kept))
          /\ Spare(ToSet(scan.todo) \cup ToSet(scan.kept))'
               = Spare(ToSet(rest) \cup ToSet(scan.kept))
      BY <1>7, <2>1 DEF Spare
    <3>2. Spare(ToSet(rest) \cup ToSet(scan.kept)) = Spare(ToSet(rest))
      BY <2>2 DEF Spare
    <3>3. QED BY <2>2, <3>1, <3>2
  <2> HIDE DEF m, n
  <2>5. n <= MaxKeepalive + scan'.surplus
    BY <1>1, <1>8, <2>1, <2>2, <2>3 DEF m, n
  <2>6. scan'.surplus <= 0 => n <= MaxKeepalive
    BY <1>1, <1>8, <2>1, <2>2, <2>3 DEF m, n
  <2>7. QED BY <1>3, <2>4, <2>5, <2>6 DEF KeepInv, MaxKeepalive, n
<1>10. CASE ~close
  <2>1. /\ scan'.todo = rest /\ scan'.kept = Append(scan.kept, c)
        /\ scan'.surplus = scan.surplus
    BY <1>1, <1>5, <1>10 DEF Scan
  <2>2. Spare(ToSet(scan.todo) \cup ToSet(scan.kept))'
          = Spare(ToSet(scan.todo) \cup ToSet(scan.kept))
    <3>1. Spare(ToSet(scan.todo) \cup ToSet(scan.kept))'
            = Spare(ToSet(rest) \cup (ToSet(scan.kept) \cup {c}))
      BY <1>4, <1>7, <2>1 DEF Spare
    <3>2. ToSet(rest) \cup (ToSet(scan.kept) \cup {c}) = ToSet(scan.todo) \cup ToSet(scan.kept)
      BY <1>4
    <3>3. QED BY <3>1, <3>2
  <2>3. CASE scan.surplus > 0
    <3>1. c \notin Spare(ToSet(scan.todo)) /\ ~(IsIdle(c) /\ Free(c))
      BY <1>6, <1>10, <2>3 DEF Spare
    <3>2. Spare(ToSet(scan.kept)) = {} /\ m <= MaxKeepalive + scan.surplus
      BY <1>3, <2>3 DEF KeepInv
    <3>3. Spare(ToSet(scan.todo))' = Spare(ToSet(scan.todo))
      <4>1. Spare(ToSet(scan.todo))' = Spare(ToSet(rest))
        BY <1>7, <2>1 DEF Spare
      <4>2. Spare(ToSet(rest)) = Spare(ToSet(scan.todo))
        BY <1>4, <3>1 DEF Spare
      <4>3. QED BY <4>1, <4>2
    <3>4. Spare(ToSet(scan.kept))' = {}
      <4>1. Spare(ToSet(scan.kept))' = Spare(ToSet(scan.kept) \cup {c})
        BY <1>4, <1>7, <2>1 DEF Spare
      <4>2. Spare(ToSet(scan.kept) \cup {c}) = {}
        BY <3>1, <3>2 DEF Spare
      <4>3. QED BY <4>1, <4>2
    <3>5. ~(scan'.surplus <= 0)
      BY <1>1, <2>1, <2>3
    <3> HIDE DEF m
    <3>6. QED BY <1>3, <2>1, <3>2, <3>3, <3>4, <3>5 DEF KeepInv, MaxKeepalive, m
  <2>4. CASE ~(scan.surplus > 0)
    <3>1. scan.surplus <= 0 /\ ~(scan'.surplus > 0)
      BY <1>1, <2>1, <2>4
    <3>2. Cardinality(Spare(ToSet(scan.todo) \cup ToSet(scan.kept))) <= MaxKeepalive
      BY <1>3, <3>1 DEF KeepInv
    <3>3. QED BY <1>3, <2>2, <3>1, <3>2 DEF KeepInv, MaxKeepalive
  <2>5. QED BY <2>3, <2>4
<1>11. QED BY <1>9, <1>10

LEMMA TrimCap ==
  ASSUME OneByOne, IInv, TypeOK', HInv, HInv', CapInv, NEW r \in Requests, Trim(r)
  PROVE  CapInv'
<1> DEFINE c == Head(scan.todo)
<1>1. /\ pc[r] = "trim" /\ pc[r] \in Scanning /\ scan.todo # << >>
      /\ UNCHANGED <<requests, connections, link, pc, running, conn, want>>
      /\ scan \in Scan /\ TypeOK /\ scan.todo \in Seq(Conns) /\ scan.kept \in Seq(Conns)
      /\ r \in Tasks
  BY DEF Trim, IInv, PInv, TypeOK, Scanning, Scan, Tasks
<1>2. /\ \A stages \in SUBSET Scanning : At(stages) <=> "trim" \in stages
      /\ \A stages \in SUBSET Scanning : At(stages)' <=> "trim" \in stages
      /\ \A d : Free(d)' = Free(d)
  BY <1>1, LoopStep
<1>3. /\ At({"trim"}) /\ At({"sweep", "trim", "snapshot"}) /\ Passing'
      /\ ~At({"sweep"})' /\ ~At({"snapshot"})' /\ ~At({"match", "taken"})' /\ ~At({"taken"})'
  BY <1>1, <1>2, Points DEF Passing
<1>4. KeepInv'
  BY TrimKeep DEF CapInv
<1>5. ASSUME ~Checkpoints PROVE SlotInv'
  <2>1. /\ \A d \in ToSet(scan.kept) \cup ToSet(scan.todo) : Vital(d)
        /\ scan.next = 1
    BY <1>3, <1>5 DEF CapInv, SlotInv
  <2>2. /\ scan'.next = scan.next /\ scan'.todo = Tail(scan.todo)
        /\ scan'.kept \in {scan.kept, Append(scan.kept, c)}
    <3> DEFINE close == scan.surplus > 0 /\ Surplus(c)
    <3>1. scan' = [scan EXCEPT !.todo = Tail(@),
                     !.kept = IF close THEN @ ELSE Append(@, c),
                     !.surplus = IF close THEN @ - 1 ELSE @]
      BY DEF Trim
    <3> HIDE DEF close, c
    <3>2. CASE close BY <1>1, <3>1, <3>2 DEF Scan
    <3>3. CASE ~close BY <1>1, <3>1, <3>3 DEF Scan
    <3>4. QED BY <3>2, <3>3
  <2>3. c \in ToSet(scan.todo) /\ ToSet(Tail(scan.todo)) \subseteq ToSet(scan.todo)
        /\ ToSet(Append(scan.kept, c)) = ToSet(scan.kept) \cup {c}
    <3>1. c \in Conns
      BY <1>1, TailList
    <3>2. QED BY <1>1, <3>1, TailList, AppendList
  <2> HIDE DEF c
  <2>4. \A d \in ToSet(scan'.kept) \cup ToSet(scan'.todo) : Vital(d)
    BY <2>1, <2>2, <2>3
  <2>5. \A d : Vital(d)' = Vital(d)
    BY <1>1 DEF Vital, IsConnected, Free
  <2>6. QED BY <1>3, <2>1, <2>2, <2>4, <2>5 DEF SlotInv, NoLostSlot
<1>6. QED BY <1>4, <1>5 DEF CapInv

\* What is left is the pool.
LEMMA TrimDoneCap ==
  ASSUME OneByOne, IInv, TypeOK', HInv, HInv', CapInv, NEW r \in Requests, TrimDone(r)
  PROVE  CapInv'
<1>1. /\ pc[r] = "trim" /\ pc[r] \in Scanning /\ "snapshot" \in Scanning
      /\ Goto(r, "snapshot") /\ scan.todo = << >> /\ connections' = scan.kept
      /\ UNCHANGED <<requests, link, conn, want, closing>>
      /\ scan \in Scan /\ TypeOK /\ r \in Tasks /\ scan.surplus \in Int
  BY DEF TrimDone, IInv, PInv, TypeOK, Scanning, Tasks, Scan
<1>2. scan'.todo = scan.kept /\ scan'.next = scan.next /\ scan'.avail = scan.avail
  BY <1>1 DEF TrimDone, Scan
<1>3. /\ \A stages \in SUBSET Scanning : At(stages) <=> "trim" \in stages
      /\ \A stages \in SUBSET Scanning : At(stages)' <=> "snapshot" \in stages
      /\ \A d : Free(d)' = Free(d)
  BY <1>1, LoopStep
<1>4. /\ At({"trim"}) /\ At({"sweep", "trim", "snapshot"})
      /\ At({"snapshot", "match", "taken"})' /\ At({"snapshot"})'
      /\ ~At({"trim"})' /\ ~At({"sweep"})' /\ ~At({"match", "taken"})' /\ ~At({"taken"})'
  BY <1>1, <1>3, Points
<1>5. Passing'
  BY <1>4 DEF At, Passing, Scanning
<1>6. ToSet(<< >>) = {} /\ Pooled' = ToSet(scan.kept)
  BY <1>1, EmptyList DEF Pooled
<1>7. KeepInv'
  <2>1. Spare(Pooled)' = Spare(ToSet(scan.kept))
    BY <1>1, <1>3, <1>6 DEF Spare, IsIdle
  <2>2. Cardinality(Spare(ToSet(scan.kept))) <= MaxKeepalive
    <3>1. CASE scan.surplus > 0
      <4>1. Spare(ToSet(scan.kept)) = {}
        BY <1>4, <3>1 DEF CapInv, KeepInv
      <4>2. Cardinality(Spare(ToSet(scan.kept))) = 0
        BY <4>1, FS_EmptySet
      <4>3. QED BY <4>2, MaxKeepaliveType
    <3>2. CASE ~(scan.surplus > 0)
      <4>1. scan.surplus <= 0
        BY <1>1, <3>2
      <4>2. ToSet(scan.todo) \cup ToSet(scan.kept) = ToSet(scan.kept)
        BY <1>1, <1>6
      <4>3. QED BY <1>4, <4>1, <4>2 DEF CapInv, KeepInv
    <3>3. QED BY <3>1, <3>2
  <2>3. QED BY <1>4, <2>1, <2>2 DEF KeepInv, MaxKeepalive
<1>8. ASSUME ~Checkpoints PROVE SlotInv'
  <2>1. (\A d \in ToSet(scan.kept) : Vital(d)) /\ scan.next = 1
    BY <1>4, <1>8 DEF CapInv, SlotInv
  <2>2. \A d : Vital(d)' = Vital(d)
    BY <1>1 DEF Vital, IsConnected, Free
  <2>3. QED BY <1>2, <1>4, <1>5, <1>6, <2>1, <2>2 DEF SlotInv, NoLostSlot
<1>9. QED BY <1>7, <1>8 DEF CapInv

\* A pool that does not change keeps no more spare connections than before.
LEMMA SamePoolKeep ==
  ASSUME TypeOK, CapInv, At({"snapshot", "match", "taken"}), ~At({"trim"})',
         Spare(Pooled)' \subseteq Spare(Pooled)
  PROVE  KeepInv'
<1>1. Cardinality(Spare(Pooled)) <= MaxKeepalive
  BY DEF CapInv, KeepInv
<1>2. (Cardinality(Spare(Pooled)) <= MaxKeepalive)'
  BY <1>1, SpareKept
<1>3. QED BY <1>2 DEF KeepInv

\* A vital connection that nobody holds is offered.
LEMMA VitalIsOffered ==
  ASSUME OneByOne, TypeOK, HInv, ~Checkpoints, At({"sweep", "trim", "snapshot"}),
         NEW c \in Conns, Vital(c), Free(c)
  PROVE  Offers(c)
<1>1. link[c].inner \notin {"none", "CLOSED"} /\ link[c] \in Link
  BY DEF Vital, IsConnected, TypeOK
<1>2. link[c].inner \notin {"ACTIVE", "NEW"}
  BY DEF HInv, BusyInv, Free
<1>3. link[c].inner = "IDLE" /\ link[c].proto = "h11"
  BY <1>1, <1>2 DEF Link, HInv, SocketInv, LinkOK
<1>4. scan.refs = {conn[q] : q \in Requests} \ {None}
  BY DEF HInv, RefsInv
<1>5. ~Reserved(c)
  BY <1>4 DEF Reserved, Free
<1>6. QED BY <1>3, <1>5 DEF Offers, IsAvailable, Available11

LEMMA SnapshotCap ==
  ASSUME OneByOne, IInv, TypeOK', HInv, HInv', CapInv, NEW r \in Requests, Snapshot(r)
  PROVE  CapInv'
<1> DEFINE c == Head(scan.todo)
<1>1. /\ pc[r] = "snapshot" /\ pc[r] \in Scanning /\ scan.todo # << >>
      /\ UNCHANGED <<requests, connections, link, pc, running, conn, want, closing>>
      /\ scan \in Scan /\ TypeOK /\ scan.todo \in Seq(Conns) /\ scan.avail \in Seq(Conns)
      /\ r \in Tasks
  BY DEF Snapshot, IInv, PInv, TypeOK, Scanning, Scan, Tasks
<1>2. /\ \A stages \in SUBSET Scanning : At(stages) <=> "snapshot" \in stages
      /\ \A stages \in SUBSET Scanning : At(stages)' <=> "snapshot" \in stages
      /\ \A d : Free(d)' = Free(d)
  BY <1>1, LoopStep
<1>3. /\ At({"snapshot"}) /\ At({"snapshot", "match", "taken"})
      /\ At({"sweep", "trim", "snapshot"}) /\ Passing'
      /\ ~At({"trim"})' /\ ~At({"sweep"})' /\ ~At({"match", "taken"})' /\ ~At({"taken"})'
  BY <1>1, <1>2, Points DEF Passing
<1>4. KeepInv'
  <2>1. Spare(Pooled)' \subseteq Spare(Pooled)
    BY <1>1, <1>2 DEF Spare, IsIdle, Pooled
  <2>2. QED BY <1>1, <1>3, <2>1, SamePoolKeep
<1>5. c \in Conns /\ ToSet(scan.todo) = {c} \cup ToSet(Tail(scan.todo))
      /\ ToSet(Append(scan.avail, c)) = ToSet(scan.avail) \cup {c}
  <2>1. c \in Conns
    BY <1>1, TailList
  <2>2. QED BY <1>1, <2>1, HeadOrTail, AppendList
<1>6. /\ scan'.next = scan.next /\ scan'.todo = Tail(scan.todo)
      /\ Offers(c) => scan'.avail = Append(scan.avail, c)
      /\ ~Offers(c) => scan'.avail = scan.avail
  BY <1>1 DEF Snapshot, Scan
<1> HIDE DEF c
<1>7. ASSUME ~Checkpoints PROVE SlotInv'
  <2>1. /\ scan.next = 1
        /\ \A d \in Pooled : /\ Vital(d)
                             /\ Free(d) => d \in ToSet(scan.todo) \cup ToSet(scan.avail)
    BY <1>3, <1>7 DEF CapInv, SlotInv
  <2>2. c \in ToSet(scan.todo) /\ ToSet(scan.todo) \subseteq Pooled
    BY <1>3, <1>5 DEF IInv, PInv, PassInv, OfferInv
  <2>3. Free(c) => Offers(c)
    BY <1>1, <1>3, <1>5, <1>7, <2>1, <2>2, VitalIsOffered
  <2>4. \A d \in Pooled : Free(d) => d \in ToSet(scan'.todo) \cup ToSet(scan'.avail)
    <3>1. ASSUME NEW d \in Pooled, Free(d)
          PROVE  d \in ToSet(scan'.todo) \cup ToSet(scan'.avail)
      <4>1. CASE Offers(c)
        BY <1>5, <1>6, <2>1, <3>1, <4>1
      <4>2. CASE ~Offers(c)
        BY <1>5, <1>6, <2>1, <2>3, <3>1, <4>2
      <4>3. QED BY <4>1, <4>2
    <3>2. QED BY <3>1
  <2>5. (\A d : Vital(d)' = Vital(d)) /\ Pooled' = Pooled
    BY <1>1 DEF Vital, IsConnected, Free, Pooled
  <2>6. QED BY <1>2, <1>3, <1>6, <2>1, <2>4, <2>5 DEF SlotInv, NoLostSlot
<1>8. QED BY <1>4, <1>7 DEF CapInv

LEMMA SnapshotDoneCap ==
  ASSUME OneByOne, IInv, TypeOK', HInv, HInv', CapInv, NEW r \in Requests, SnapshotDone(r)
  PROVE  CapInv'
<1>1. /\ pc[r] = "snapshot" /\ pc[r] \in Scanning /\ "match" \in Scanning
      /\ Goto(r, "match") /\ scan.todo = << >>
      /\ UNCHANGED <<requests, connections, link, conn, want, closing, scan>>
      /\ TypeOK /\ r \in Tasks
  BY DEF SnapshotDone, IInv, PInv, Scanning, Tasks
<1>2. /\ \A stages \in SUBSET Scanning : At(stages) <=> "snapshot" \in stages
      /\ \A stages \in SUBSET Scanning : At(stages)' <=> "match" \in stages
      /\ \A d : Free(d)' = Free(d)
  BY <1>1, LoopStep
<1>3. /\ At({"snapshot"}) /\ At({"snapshot", "match", "taken"})
      /\ At({"sweep", "trim", "snapshot"}) /\ At({"match", "taken"})'
      /\ ~At({"trim"})' /\ ~At({"sweep"})' /\ ~At({"snapshot"})' /\ ~At({"taken"})'
      /\ ~At({"sweep", "trim", "snapshot"})'
  BY <1>1, <1>2, Points
<1>4. Passing'
  BY <1>3 DEF At, Passing, Scanning
<1>5. KeepInv'
  <2>1. Spare(Pooled)' \subseteq Spare(Pooled)
    BY <1>1, <1>2 DEF Spare, IsIdle, Pooled
  <2>2. QED BY <1>1, <1>3, <2>1, SamePoolKeep
<1>6. ASSUME ~Checkpoints PROVE SlotInv'
  <2>1. /\ scan.next = 1
        /\ \A d \in Pooled : Free(d) => d \in ToSet(scan.todo) \cup ToSet(scan.avail)
    BY <1>3, <1>6 DEF CapInv, SlotInv
  <2>2. ToSet(<< >>) = {}
    BY EmptyList
  <2>3. \A d \in Pooled : Free(d) => d \in ToSet(scan.avail)
    BY <1>1, <2>1, <2>2
  <2>4. \A i \in DOMAIN requests : ~(i < scan.next)
    <3>1. DOMAIN requests = 1 .. Len(requests) /\ Len(requests) \in Nat
      BY <1>1, Elements DEF TypeOK
    <3>2. QED BY <2>1, <3>1
  <2>5. \A i \in DOMAIN requests' : i < scan'.next => conn'[requests'[i]] # None
    BY <1>1, <2>4
  <2>6. \A d \in Pooled' : Free(d)' => d \in ToSet(scan'.avail)
    BY <1>1, <1>2, <2>3 DEF Pooled
  <2>7. QED BY <1>3, <1>4, <2>5, <2>6 DEF SlotInv, NoLostSlot
<1>7. QED BY <1>5, <1>6 DEF CapInv

-----------------------------------------------------------------------------
(***************************************************************************)
(* Handing out.                                                            *)
(***************************************************************************)
\* What is to be shown of a step of the assignment loop.
LEMMA SlotWhileMatching ==
  ASSUME NEW stage \in {"match", "taken"},
         \A stages \in SUBSET Scanning : At(stages)' <=> stage \in stages,
         (\A c \in Pooled : Free(c) => c \in ToSet(scan.avail))',
         (\A i \in DOMAIN requests : i < scan.next => conn[requests[i]] # None)',
         stage = "taken" =>
           (scan.next \in DOMAIN requests /\ conn[Candidate] = scan.avail[scan.hit])'
  PROVE  SlotInv'
<1>1. /\ ~At({"sweep"})' /\ ~At({"trim"})' /\ ~At({"snapshot"})'
      /\ ~At({"sweep", "trim", "snapshot"})' /\ At({"match", "taken"})'
      /\ At({"taken"})' => stage = "taken"
  BY Points
<1>2. Passing'
  BY <1>1 DEF At, Passing, Scanning
<1>3. QED BY <1>1, <1>2 DEF SlotInv, NoLostSlot

\* The candidate is served, and so are those before it.
LEMMA NextServed ==
  ASSUME TypeOK, NEW a, a[Candidate] # None,
         \A q \in Requests : conn[q] # None => a[q] # None,
         \A i \in DOMAIN requests : i < scan.next => conn[requests[i]] # None
  PROVE  \A i \in DOMAIN requests : i < scan.next + 1 => a[requests[i]] # None
<1>1. /\ scan.next \in Nat /\ DOMAIN requests = 1 .. Len(requests) /\ Len(requests) \in Nat
      /\ \A i \in DOMAIN requests : requests[i] \in Requests
  BY Elements DEF TypeOK, Scan
<1>2. ASSUME NEW i \in DOMAIN requests, i < scan.next + 1 PROVE a[requests[i]] # None
  <2>1. i < scan.next \/ i = scan.next
    BY <1>1, <1>2
  <2>2. QED BY <1>1, <2>1 DEF Candidate
<1>3. QED BY <1>2

\* What the loop knows while it matches.
LEMMA MatchSlots ==
  ASSUME OneByOne, IInv, HInv, CapInv, NEW r \in Requests, pc[r] \in {"match", "taken"}
  PROVE  /\ \A stages \in SUBSET Scanning : At(stages) <=> pc[r] \in stages
         /\ At({"snapshot", "match", "taken"})
         /\ ~Checkpoints =>
              /\ \A c \in Pooled : Free(c) => c \in ToSet(scan.avail)
              /\ \A i \in DOMAIN requests : i < scan.next => conn[requests[i]] # None
<1>1. pc[r] \in Scanning
  BY DEF Scanning
<1>2. \A stages \in SUBSET Scanning : At(stages) <=> pc[r] \in stages
  BY <1>1, ScannerAt DEF IInv, PInv, PassInv
<1>3. At({"snapshot", "match", "taken"}) /\ At({"match", "taken"})
  BY <1>2, Points
<1>4. QED BY <1>2, <1>3 DEF CapInv, SlotInv

\* As long as something can be handed out, a request is passed by only if it
\* has a connection: everything on offer is idle, and so can be evicted.
LEMMA SkipServed ==
  ASSUME OneByOne, IInv, HInv, NEW r \in Requests, Skip(r)
  PROVE  conn[Candidate] # None
<1> SUFFICES ASSUME conn[Candidate] = None PROVE FALSE
  OBVIOUS
<1>1. Matching(r) /\ ~MayCreate /\ Evictable = {}
  BY DEF Skip
<1>2. \A c \in ToSet(scan.avail) : IsIdle(c)
  BY <1>1, LoanContext DEF IsIdle
<1>3. scan.avail \in Seq(Conns)
  BY <1>1, MatchContext DEF IInv
<1>4. \A i \in DOMAIN scan.avail : i \in Evictable
  BY <1>2, <1>3, Elements DEF Evictable
<1>5. scan.avail = << >>
  <2>1. DOMAIN scan.avail = 1 .. Len(scan.avail) /\ Len(scan.avail) \in Nat
    BY <1>3, Elements
  <2>2. DOMAIN scan.avail = {}
    BY <1>1, <1>4
  <2>3. 1 .. Len(scan.avail) = {}
    BY <2>1, <2>2
  <2>4. ~(1 \in 1 .. Len(scan.avail))
    BY <2>3
  <2>5. Len(scan.avail) = 0
    BY <2>1, <2>4
  <2>6. QED BY <1>3, <2>5, EmptySeq
<1>6. QED BY <1>1, <1>5 DEF Matching, MatchOver

LEMMA SkipCap ==
  ASSUME OneByOne, IInv, TypeOK', HInv, HInv', CapInv, NEW r \in Requests, Skip(r)
  PROVE  CapInv'
<1>1. /\ pc[r] = "match" /\ pc[r] \in Scanning /\ "match" \in Scanning
      /\ UNCHANGED <<requests, connections, link, pc, running, conn>>
      /\ scan'.next = scan.next + 1 /\ scan'.avail = scan.avail /\ TypeOK
  BY DEF Skip, Matching, Scanning, IInv, PInv, TypeOK, Scan
<1>2. /\ \A stages \in SUBSET Scanning : At(stages)' <=> "match" \in stages
      /\ \A d : Free(d)' = Free(d)
  BY <1>1, LoopStep
<1>3. /\ At({"snapshot", "match", "taken"}) /\ ~At({"trim"})' /\ Pooled' = Pooled
  BY <1>1, <1>2, MatchSlots, Points DEF Pooled
<1>4. KeepInv'
  <2>1. Spare(Pooled)' \subseteq Spare(Pooled)
    BY <1>1, <1>2, <1>3 DEF Spare, IsIdle
  <2>2. QED BY <1>1, <1>3, <2>1, SamePoolKeep
<1>5. ASSUME ~Checkpoints PROVE SlotInv'
  <2>1. \A c \in Pooled : Free(c) => c \in ToSet(scan.avail)
    BY <1>1, <1>5, MatchSlots
  <2>2. \A i \in DOMAIN requests : i < scan.next + 1 => conn[requests[i]] # None
    BY <1>1, <1>5, MatchSlots, SkipServed, NextServed
  <2>3. (\A c \in Pooled : Free(c) => c \in ToSet(scan.avail))'
    BY <1>1, <1>2, <1>3, <2>1
  <2>4. (\A i \in DOMAIN requests : i < scan.next => conn[requests[i]] # None)'
    BY <1>1, <2>2
  <2>5. QED BY <1>2, <2>3, <2>4, SlotWhileMatching
<1>6. QED BY <1>4, <1>5 DEF CapInv

LEMMA ReuseCap ==
  ASSUME OneByOne, IInv, TypeOK', HInv, HInv', CapInv, NEW r \in Requests, Reuse(r)
  PROVE  CapInv'
<1> DEFINE i == First(Fitting)
           k == Candidate
<1>1. /\ Matching(r) /\ conn[k] = None /\ Fitting # {}
      /\ conn' = [conn EXCEPT ![k] = scan.avail[i]] /\ scan' = [scan EXCEPT !.hit = i]
      /\ Goto(r, "taken") /\ "taken" \in Scanning
      /\ UNCHANGED <<requests, connections, link, closing>>
  BY DEF Reuse, Scanning
<1>2. /\ pc[r] = "match" /\ pc[r] \in Scanning /\ scan.avail \in Seq(Conns)
      /\ conn \in [Requests -> Conns \cup {None}] /\ k \in Requests
      /\ Fitting \subseteq Nat /\ Fitting \subseteq DOMAIN scan.avail
      /\ TypeOK /\ r \in Tasks /\ scan \in Scan /\ QueueInv /\ OneScanner
  BY <1>1, MatchContext DEF IInv, PInv, PassInv, Tasks
<1>3. scan'.hit = i /\ scan'.avail = scan.avail /\ scan'.next = scan.next
  BY <1>1, <1>2 DEF Scan
<1>4. scan.avail[i] \in Conns /\ i \in DOMAIN scan.avail
  BY <1>1, <1>2, FirstIn, Elements
<1>5. \A stages \in SUBSET Scanning : At(stages)' <=> "taken" \in stages
  <2>1. pc' = [pc EXCEPT ![r] = "taken"]
    BY <1>1 DEF Goto
  <2>2. QED BY <1>1, <1>2, <2>1, ScannerMoves
<1> HIDE DEF i, k
<1>6. \A q \in Requests : conn'[q] = IF q = k THEN scan.avail[i] ELSE conn[q]
  BY <1>1, <1>2
<1>7. \A d \in Conns : Free(d)' => Free(d)
  BY <1>1, <1>6, PoolAssumption DEF Free
<1>8. At({"snapshot", "match", "taken"}) /\ ~At({"trim"})' /\ Pooled' = Pooled
      /\ Pooled \subseteq Conns
  BY <1>1, <1>2, <1>5, MatchSlots, Points, PooledFinite DEF Pooled
<1>9. KeepInv'
  <2>1. Spare(Pooled)' \subseteq Spare(Pooled)
    BY <1>1, <1>7, <1>8 DEF Spare, IsIdle
  <2>2. QED BY <1>2, <1>8, <2>1, SamePoolKeep
<1>10. ASSUME ~Checkpoints PROVE SlotInv'
  <2>1. /\ \A c \in Pooled : Free(c) => c \in ToSet(scan.avail)
        /\ \A j \in DOMAIN requests : j < scan.next => conn[requests[j]] # None
    BY <1>2, <1>10, MatchSlots
  <2>2. (\A c \in Pooled : Free(c) => c \in ToSet(scan.avail))'
    BY <1>3, <1>7, <1>8, <2>1
  <2>3. \A j \in DOMAIN requests : requests[j] \in Requests
    BY <1>2, Elements DEF TypeOK
  <2>4. \A q \in Requests : conn[q] # None => conn'[q] # None
    BY <1>1, <1>6
  <2>5. (\A j \in DOMAIN requests : j < scan.next => conn[requests[j]] # None)'
    BY <1>1, <1>3, <2>1, <2>3, <2>4
  <2>6. scan.next \in DOMAIN requests
    <3>1. scan.next \in Nat \ {0} /\ Len(requests) \in Nat /\ DOMAIN requests = 1 .. Len(requests)
      BY <1>2, Elements DEF TypeOK, Scan
    <3>2. ~(scan.next > Len(requests))
      BY <1>1 DEF Matching, MatchOver
    <3>3. QED BY <3>1, <3>2
  <2>7. Candidate' = k
    BY <1>1, <1>3 DEF k, Candidate
  <2>8. (conn[Candidate] = scan.avail[scan.hit])'
    <3>1. conn'[k] = scan.avail[i]
      BY <1>2, <1>6
    <3>2. QED BY <1>3, <2>7, <3>1
  <2>9. (scan.next \in DOMAIN requests /\ conn[Candidate] = scan.avail[scan.hit])'
    BY <1>1, <1>3, <2>6, <2>8
  <2>10. QED BY <1>5, <2>2, <2>5, <2>9, SlotWhileMatching
<1>11. QED BY <1>9, <1>10 DEF CapInv

LEMMA TakenCap ==
  ASSUME OneByOne, IInv, TypeOK', HInv, HInv', CapInv, NEW r \in Requests, Taken(r)
  PROVE  CapInv'
<1> DEFINE c == scan.avail[scan.hit]
           t == RemoveAt(scan.avail, scan.hit)
<1>1. /\ pc[r] = "taken" /\ pc[r] \in Scanning /\ "match" \in Scanning
      /\ Goto(r, "match") /\ UNCHANGED <<requests, connections, link, conn>>
      /\ scan \in Scan /\ TypeOK /\ scan.avail \in Seq(Conns)
  BY DEF Taken, Scanning, IInv, PInv, TypeOK, Scan
<1>2. /\ scan'.next = scan.next + 1
      /\ scan'.avail = scan.avail \/ scan'.avail = t
  BY <1>1 DEF Taken, Scan
<1>3. /\ \A stages \in SUBSET Scanning : At(stages)' <=> "match" \in stages
      /\ \A stages \in SUBSET Scanning : At(stages) <=> "taken" \in stages
      /\ \A d : Free(d)' = Free(d)
  BY <1>1, LoopStep
<1>4. /\ At({"snapshot", "match", "taken"}) /\ At({"taken"}) /\ ~At({"trim"})'
      /\ Pooled' = Pooled
  BY <1>1, <1>3, Points DEF Pooled
<1>5. KeepInv'
  <2>1. Spare(Pooled)' \subseteq Spare(Pooled)
    BY <1>1, <1>3, <1>4 DEF Spare, IsIdle
  <2>2. QED BY <1>1, <1>4, <2>1, SamePoolKeep
<1>6. ASSUME ~Checkpoints PROVE SlotInv'
  <2>1. /\ \A d \in Pooled : Free(d) => d \in ToSet(scan.avail)
        /\ \A i \in DOMAIN requests : i < scan.next => conn[requests[i]] # None
    BY <1>1, <1>6, MatchSlots
  <2>2. /\ scan.next \in DOMAIN requests /\ conn[Candidate] = c
        /\ scan.hit \in DOMAIN scan.avail
    BY <1>4, <1>6 DEF CapInv, SlotInv, IInv, PInv, PassInv, OfferInv
  <2>3. c \in Conns /\ c # None /\ \A d \in ToSet(scan.avail) : d # c => d \in ToSet(t)
    BY <1>1, <2>2, Elements, RemoveAtList, PoolAssumption
  <2>4. Candidate \in Requests
    BY <1>1, <2>2, Elements DEF Candidate, TypeOK
  <2>5. ~Free(c)
    BY <2>2, <2>4 DEF Free
  <2> HIDE DEF c, t
  <2>6. \A d \in Pooled : Free(d) => d \in ToSet(t)
    BY <2>1, <2>3, <2>5
  <2>7. (\A d \in Pooled : Free(d) => d \in ToSet(scan.avail))'
    BY <1>2, <1>3, <1>4, <2>1, <2>6
  <2>8. \A i \in DOMAIN requests : i < scan.next + 1 => conn[requests[i]] # None
    BY <1>1, <2>1, <2>2, <2>3, NextServed
  <2>9. (\A i \in DOMAIN requests : i < scan.next => conn[requests[i]] # None)'
    BY <1>1, <1>2, <2>8
  <2>10. QED BY <1>3, <2>7, <2>9, SlotWhileMatching
<1>7. QED BY <1>5, <1>6 DEF CapInv

\* The candidate gets a new connection, in place of those that are gone.
LEMMA RenewCap ==
  ASSUME OneByOne, IInv, CapInv, HInv, NEW r \in Requests, Matching(r),
         conn[Candidate] = None, NEW c \in Fresh, NEW gone \in SUBSET Pooled,
         link' = [link EXCEPT ![c] = NewLink(want[Candidate])],
         conn' = [conn EXCEPT ![Candidate] = c],
         Pooled' = (Pooled \ gone) \cup {c},
         \A d \in ToSet(scan.avail) : d \in ToSet(scan'.avail) \/ d \in gone,
         scan'.next = scan.next + 1,
         UNCHANGED <<requests, pc, running>>
  PROVE  CapInv'
<1> DEFINE k == Candidate
<1>1. /\ pc[r] = "match" /\ k \in Requests /\ TypeOK
      /\ conn \in [Requests -> Conns \cup {None}] /\ link \in [Conns -> Link]
  BY MatchContext DEF IInv, PInv
<1>2. c \in Conns /\ c \notin Pooled /\ c # None /\ Pooled \subseteq Conns
  BY <1>1, PoolAssumption, PooledFinite DEF Fresh, Pooled
<1>3. \A stages \in SUBSET Scanning : At(stages)' <=> "match" \in stages
  <2>1. \A stages \in SUBSET Scanning : At(stages) <=> "match" \in stages
    BY <1>1, MatchSlots
  <2>2. QED BY <2>1 DEF At
<1> HIDE DEF k
<1>4. \A q \in Requests : conn'[q] = IF q = k THEN c ELSE conn[q]
  BY <1>1 DEF k
<1>5. conn[k] = None
  BY DEF k
<1>6. \A d \in Conns : Free(d)' => Free(d) /\ d # c
  BY <1>1, <1>2, <1>4, <1>5, PoolAssumption DEF Free
<1>7. \A d \in Conns : d # c => link'[d] = link[d]
  BY <1>1
<1>8. At({"snapshot", "match", "taken"}) /\ ~At({"trim"})'
  BY <1>1, <1>3, MatchSlots, Points
<1>9. KeepInv'
  <2>1. Spare(Pooled)' \subseteq Spare(Pooled)
    BY <1>2, <1>6, <1>7 DEF Spare, IsIdle
  <2>2. QED BY <1>1, <1>8, <2>1, SamePoolKeep
<1>10. ASSUME ~Checkpoints PROVE SlotInv'
  <2>1. /\ \A d \in Pooled : Free(d) => d \in ToSet(scan.avail)
        /\ \A i \in DOMAIN requests : i < scan.next => conn[requests[i]] # None
    BY <1>1, <1>10, MatchSlots
  <2>2. (\A d \in Pooled : Free(d) => d \in ToSet(scan.avail))'
    BY <1>2, <1>6, <2>1
  <2>3. \A q \in Requests : conn[q] # None => conn'[q] # None
    BY <1>4, <1>5
  <2>4. conn'[Candidate] # None
    BY <1>1, <1>2, <1>4 DEF k
  <2>5. \A i \in DOMAIN requests : i < scan.next + 1 => conn'[requests[i]] # None
    BY <1>1, <2>1, <2>3, <2>4, NextServed
  <2>6. (\A i \in DOMAIN requests : i < scan.next => conn[requests[i]] # None)'
    BY <2>5
  <2>7. QED BY <1>3, <2>2, <2>6, SlotWhileMatching
<1>11. QED BY <1>9, <1>10 DEF CapInv

LEMMA CreateCap ==
  ASSUME OneByOne, IInv, TypeOK', HInv, HInv', CapInv, NEW r \in Requests, Create(r)
  PROVE  CapInv'
<1>1. PICK c \in Fresh :
        /\ link' = [link EXCEPT ![c] = NewLink(want[Candidate])]
        /\ connections' = Append(connections, c)
        /\ conn' = [conn EXCEPT ![Candidate] = c]
  BY DEF Create
<1>2. /\ Matching(r) /\ conn[Candidate] = None
      /\ scan' = [scan EXCEPT !.next = @ + 1, !.budget = @ - 1]
      /\ UNCHANGED <<requests, pc, running>>
  BY DEF Create
<1>3. scan \in Scan /\ connections \in Seq(Conns) /\ c \in Conns
  BY <1>1, <1>2, MatchContext DEF IInv, Fresh
<1>4. Pooled' = (Pooled \ {}) \cup {c}
  BY <1>1, <1>3, AppendList DEF Pooled
<1>5. scan'.avail = scan.avail /\ scan'.next = scan.next + 1
  BY <1>2, <1>3 DEF Scan
<1>6. /\ {} \in SUBSET Pooled
      /\ \A d \in ToSet(scan.avail) : d \in ToSet(scan'.avail) \/ d \in {}
  BY <1>5
<1>7. scan'.next = scan.next + 1 /\ UNCHANGED <<requests, pc, running>>
  BY <1>2, <1>5
<1>8. QED BY <1>1, <1>2, <1>4, <1>6, <1>7, RenewCap, Zenon

LEMMA EvictCap ==
  ASSUME OneByOne, IInv, TypeOK', HInv, HInv', CapInv, NEW r \in Requests, Evict(r)
  PROVE  CapInv'
<1> DEFINE i == First(Evictable)
           old == scan.avail[i]
           rest == Without(connections, old)
<1>1. PICK c \in Fresh :
        /\ link' = [link EXCEPT ![c] = NewLink(want[Candidate])]
        /\ connections' = Append(rest, c)
        /\ conn' = [conn EXCEPT ![Candidate] = c]
  BY DEF Evict
<1>2. /\ Matching(r) /\ conn[Candidate] = None /\ Evictable # {}
      /\ scan' = [scan EXCEPT !.next = @ + 1, !.avail = RemoveAt(@, i)]
      /\ UNCHANGED <<requests, pc, running>>
  BY DEF Evict
<1>3. /\ scan \in Scan /\ connections \in Seq(Conns) /\ c \in Conns
      /\ scan.avail \in Seq(Conns) /\ IsInjective(connections)
      /\ ToSet(scan.avail) \subseteq Pooled
      /\ Evictable \subseteq Nat /\ Evictable \subseteq DOMAIN scan.avail
  BY <1>1, <1>2, MatchContext DEF IInv, Fresh
<1>4. i \in DOMAIN scan.avail
  BY <1>2, <1>3, FirstIn
<1> HIDE DEF i
<1>5. old \in ToSet(scan.avail) /\ old \in Conns /\ old \in Pooled
      /\ \A d \in ToSet(scan.avail) : d # old => d \in ToSet(RemoveAt(scan.avail, i))
  BY <1>3, <1>4, Elements, RemoveAtList
<1> HIDE DEF old
<1>6. rest \in Seq(Conns) /\ ToSet(rest) = Pooled \ {old}
  BY <1>3, <1>5, WithoutList DEF Pooled
<1> HIDE DEF rest
<1>7. Pooled' = (Pooled \ {old}) \cup {c}
  BY <1>1, <1>3, <1>6, AppendList DEF Pooled
<1>8. scan'.avail = RemoveAt(scan.avail, i) /\ scan'.next = scan.next + 1
  BY <1>2, <1>3 DEF Scan
<1>9. /\ {old} \in SUBSET Pooled
      /\ \A d \in ToSet(scan.avail) : d \in ToSet(scan'.avail) \/ d \in {old}
  BY <1>5, <1>8
<1>10. scan'.next = scan.next + 1 /\ UNCHANGED <<requests, pc, running>>
  BY <1>2, <1>8
<1>11. QED BY <1>1, <1>2, <1>7, <1>9, <1>10, RenewCap, Zenon

\* The loop ends when every request has a connection, or when the pool is full
\* of connections that are lent.
LEMMA MatchDoneCap ==
  ASSUME OneByOne, IInv, TypeOK', HInv, HInv', CapInv, NEW r \in Requests, MatchDone(r)
  PROVE  CapInv'
<1>1. /\ pc[r] = "match" /\ MatchOver /\ TypeOK /\ r \in Tasks /\ OneScanner /\ OfferInv
      /\ UNCHANGED <<requests, connections, link, conn>>
      /\ Len(connections) <= MaxConnections
  BY DEF MatchDone, IInv, PInv, PassInv, PoolBounded, Tasks
<1>2. PICK stage \in {"done", "waiting", "connect", "closing"} :
        pc' = [pc EXCEPT ![r] = stage]
  BY ResumeStage DEF MatchDone, Goto
<1>3. \A s \in Requests : pc'[s] = IF s = r THEN stage ELSE pc[s]
  BY <1>1, <1>2 DEF TypeOK
<1>4. \A s \in Requests : s # r => pc[s] \notin Scanning \cup {"assign"}
  <2>1. running = r
    BY <1>1 DEF HInv, LoopInv, Scanning
  <2>2. QED BY <2>1 DEF HInv, LoopInv
<1>5. ~Passing' /\ \A stages \in SUBSET Scanning : ~At(stages)'
  BY <1>3, <1>4 DEF Passing, At, Scanning
<1>6. At({"snapshot", "match", "taken"}) /\ Pooled' = Pooled /\ \A d : Free(d)' = Free(d)
  BY <1>1, MatchSlots DEF Pooled, Free
<1>7. KeepInv'
  <2>1. Spare(Pooled)' \subseteq Spare(Pooled)
    BY <1>1, <1>6 DEF Spare, IsIdle
  <2>2. ~At({"trim"})'
    BY <1>5, Points
  <2>3. QED BY <1>1, <1>6, <2>1, <2>2, SamePoolKeep
<1>8. ASSUME ~Checkpoints PROVE SlotInv'
  <2>1. /\ \A d \in Pooled : Free(d) => d \in ToSet(scan.avail)
        /\ \A i \in DOMAIN requests : i < scan.next => conn[requests[i]] # None
    BY <1>1, <1>8, MatchSlots
  <2>2. ASSUME scan.next > Len(requests) PROVE NoLostSlot'
    <3>1. /\ DOMAIN requests = 1 .. Len(requests) /\ Len(requests) \in Nat
          /\ scan.next \in Nat
          /\ \A q \in InFlight : \E i \in DOMAIN requests : requests[i] = q
      BY <1>1, Elements DEF TypeOK, InFlight, Scan
    <3>2. \A i \in DOMAIN requests : i < scan.next
      BY <2>2, <3>1
    <3>3. \A q \in InFlight : conn[q] # None
      BY <2>1, <3>1, <3>2
    <3>4. QED BY <1>1, <3>3 DEF NoLostSlot, InFlight
  <2>3. ASSUME scan.avail = << >>, ~MayCreate PROVE NoLostSlot'
    <3>1. scan.budget = MaxConnections - Len(connections)
      BY <1>1, <1>6 DEF OfferInv
    <3>2. Len(connections) \in Nat /\ MaxConnections \in Nat
      BY <1>1, PoolAssumption, Elements DEF TypeOK
    <3>3. Len(connections) = MaxConnections
      BY <1>1, <2>3, <3>1, <3>2 DEF MayCreate
    <3>4. ToSet(<< >>) = {} /\ Pooled \subseteq Conns
      BY <1>1, EmptyList, PooledFinite
    <3>5. \A d \in Pooled : ~Free(d)
      BY <2>1, <2>3, <3>4
    <3>6. \A d \in Pooled : ~Unreferenced(d)
      BY <1>1, <3>4, <3>5, LentIsReferenced DEF HInv
    <3>7. QED BY <1>1, <3>3, <3>6 DEF NoLostSlot, InFlight, Pooled, Unreferenced
  <2>4. NoLostSlot'
    BY <1>1, <2>2, <2>3 DEF MatchOver
  <2>5. QED BY <1>5, <2>4, Points DEF SlotInv
<1>9. QED BY <1>7, <1>8 DEF CapInv

-----------------------------------------------------------------------------
(***************************************************************************)
(* The invariant holds, and what follows from it.                          *)
(***************************************************************************)
LEMMA CapInit ==
  ASSUME Init, TypeOK
  PROVE  CapInv
<1>1. \A stages \in SUBSET Scanning : ~At(stages)
  BY DEF Init, Tasks, At, Scanning
<1>2. Pooled = {} /\ InFlight = {}
  BY EmptyList DEF Init, Pooled, InFlight
<1>3. KeepInv
  <2>1. Spare(Pooled) = {}
    BY <1>2 DEF Spare
  <2>2. Cardinality(Spare(Pooled)) <= MaxKeepalive
    BY <2>1, FS_EmptySet, MaxKeepaliveType
  <2>3. QED BY <1>1, <2>2, Points DEF KeepInv
<1>4. SlotInv
  BY <1>1, <1>2, Points DEF SlotInv, NoLostSlot
<1>5. QED BY <1>3, <1>4 DEF CapInv

LEMMA CapNext ==
  ASSUME OneByOne, IInv, TypeOK', HInv, HInv', CapInv, [Next]_vars
  PROVE  CapInv'
<1>1. ASSUME NEW r \in Requests, Pass(r) PROVE CapInv'
  <2>1. CASE Sweep(r) BY <2>1, SweepCap
  <2>2. CASE SweepDone(r) BY <2>2, SweepDoneCap
  <2>3. CASE Trim(r) BY <2>3, TrimCap
  <2>4. CASE TrimDone(r) BY <2>4, TrimDoneCap
  <2>5. CASE Snapshot(r) BY <2>5, SnapshotCap
  <2>6. CASE SnapshotDone(r) BY <2>6, SnapshotDoneCap
  <2>7. CASE Skip(r) BY <2>7, SkipCap
  <2>8. CASE Reuse(r) BY <2>8, ReuseCap
  <2>9. CASE Taken(r) BY <2>9, TakenCap
  <2>10. CASE Create(r) BY <2>10, CreateCap
  <2>11. CASE Evict(r) BY <2>11, EvictCap
  <2>12. CASE MatchDone(r) BY <2>12, MatchDoneCap
  <2>13. QED
    BY <1>1, <2>1, <2>2, <2>3, <2>4, <2>5, <2>6, <2>7, <2>8, <2>9, <2>10, <2>11, <2>12
    DEF Pass
<1>2. ASSUME NEW r \in Requests,
             \/ Acquired(r) \/ WaitFails(r) \/ LockConnect(r) \/ SendCancelled(r)
             \/ Headers(r) \/ LockCancelled(r) \/ Connected(r) \/ ConnectFails(r)
             \/ Begin(r) \/ ExchangeFails(r) \/ CloseResponse(r)
      PROVE  CapInv'
  <2>1. WorksOnly(r) /\ TypeOK
    BY <1>2, IdleSteps, ConnectSteps, ExchangeSteps DEF IInv, PInv
  <2>2. QED BY <2>1, WorkIsBesides, BesidesKeeps
<1>3. ASSUME NEW r \in Requests, Assign(r) \/ Leave(r) PROVE CapInv'
  BY <1>3, EntryCap
<1>4. ASSUME NEW t \in Tasks, CloseNext(t) \/ CloseDone(t) PROVE CapInv'
  BY <1>4, CloseIsBesides, BesidesKeeps
<1>5. ASSUME NEW t \in Tasks, Progress(t) PROVE CapInv'
  BY <1>1, <1>2, <1>3, <1>4, <1>5, Impossible DEF Progress
<1>6. ASSUME NEW r \in Requests, NEW o \in Origins, Submit(r, o) PROVE CapInv'
  BY <1>6, EntryCap
<1>7. ASSUME NEW r \in Requests, Cancel(r) \/ Refused(r) PROVE CapInv'
  BY <1>2, <1>7, Impossible DEF Cancel
<1>8. ASSUME NEW c \in Conns, Expire(c) \/ GoAway(c) PROVE CapInv'
  BY <1>8, Impossible, ExpireIsBesides, BesidesKeeps
<1>9. CASE UNCHANGED vars
  BY <1>9 DEF vars, CapInv, KeepInv, SlotInv, NoLostSlot, Spare, Vital, At, Passing, Free,
              IsIdle, IsConnected, Pooled, InFlight, Unreferenced, Candidate
<1>10. \A k \in Closers : ~AClose(k)
  BY Impossible
<1>11. CASE Next
  BY <1>5, <1>6, <1>7, <1>8, <1>9, <1>10, <1>11, Zenon DEF Next, Finished
<1>12. QED BY <1>9, <1>11

LEMMA CapacityInvariant == OneByOne => (Spec => [](IInv /\ HInv /\ CapInv))
<1> SUFFICES ASSUME OneByOne PROVE Spec => [](IInv /\ HInv /\ CapInv)
  OBVIOUS
<1>1. Init => IInv /\ HInv /\ CapInv
  <2> SUFFICES ASSUME Init PROVE IInv /\ HInv /\ CapInv
    OBVIOUS
  <2>1. IInv /\ HInv
    BY IInvInit, HInvInit
  <2>2. QED BY <2>1, CapInit DEF IInv, PInv
<1>2. (IInv /\ HInv /\ CapInv) /\ [Next]_vars => (IInv /\ HInv /\ CapInv)'
  <2> SUFFICES ASSUME IInv, HInv, CapInv, [Next]_vars PROVE IInv' /\ HInv' /\ CapInv'
    OBVIOUS
  <2>1. IInv' /\ TypeOK'
    BY IInvNext DEF IInv, PInv
  <2>2. HInv'
    BY <2>1, HInvNext
  <2>3. QED BY <2>1, <2>2, CapNext
<1>3. QED BY <1>1, <1>2, PTL DEF Spec

\* Outside a pass the pool keeps at most max_keepalive_connections idle
\* connections that nobody has borrowed: every step by which one becomes idle and
\* free is a pass's, and a pass ends with as many as it may keep.
THEOREM KeepaliveIsBounded == OneByOne => (Spec => []KeepaliveBounded)
<1> SUFFICES ASSUME OneByOne PROVE Spec => []KeepaliveBounded
  OBVIOUS
<1>1. IInv /\ HInv /\ CapInv => KeepaliveBounded
  <2> SUFFICES ASSUME IInv, HInv, CapInv, ~Passing
               PROVE  Cardinality({c \in Pooled : IsIdle(c) /\ Unreferenced(c)}) <= MaxKeepalive
    BY DEF KeepaliveBounded
  <2>1. TypeOK /\ LeaseInv
    BY DEF IInv, PInv, HInv
  <2>2. {c \in Pooled : IsIdle(c) /\ Unreferenced(c)} = Spare(Pooled)
    BY <2>1, PooledFinite, LentIsReferenced DEF Spare
  <2>3. QED BY <2>2 DEF CapInv, KeepInv
<1>2. QED BY <1>1, CapacityInvariant, PTL

\* No slot is lost: outside a pass a request waits only while the pool is full of
\* connections that are lent, each to a request whose leaving runs another pass.
\* Where taking a free lock is a cancellation point this is not the code's: a
\* connection made for a request that is cancelled then is neither lent nor idle.
THEOREM NoSlotIsLost == OneByOne /\ ~Checkpoints => (Spec => []NoLostSlot)
<1> SUFFICES ASSUME OneByOne, ~Checkpoints PROVE Spec => []NoLostSlot
  OBVIOUS
<1>1. IInv /\ HInv /\ CapInv => NoLostSlot
  BY DEF CapInv, SlotInv
<1>2. QED BY <1>1, CapacityInvariant, PTL

=============================================================================
