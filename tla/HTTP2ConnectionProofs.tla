----------------------- MODULE HTTP2ConnectionProofs -----------------------
(***************************************************************************)
(* The safety properties of HTTP2Connection, for every number of requests, *)
(* streams, permits and SETTINGS frames.                                   *)
(*                                                                         *)
(* IInv is inductive.  Each of its parts is preserved by a lemma of its    *)
(* own that has one step per action that can disturb the part; actions     *)
(* that leave the variables of the part alone are taken together.          *)
(*                                                                         *)
(* What depends on how the connection is scheduled is an implication:      *)
(* without Yields nothing is awaited between picking a stream id and       *)
(* sending the headers, without Checkpoints a free permit is taken without *)
(* an await that can be cancelled (asyncio).  With them the code does not  *)
(* keep these parts.                                                       *)
(***************************************************************************)
EXTENDS HTTP2Connection, FiniteSetTheorems, TLAPS

-----------------------------------------------------------------------------
(***************************************************************************)
(* The inductive invariant.                                                *)
(***************************************************************************)
\* The stages before a request has a stream id, and those where it works on it.
BeforeStream == {"start", "init", "preface", "drain", "permit", "granted"}
Working == {"flush", "writing", "loop", "lockread", "reading"}
OnIt == Working \cup {"picked", "closing"}

\* A request has a stream id from Pick on, of an opened stream from SendHeaders
\* on, and a result only when it closes the stream or is done.
StageInv ==
  \A r \in Requests :
    /\ pc[r] \in BeforeStream => sid[r] = None
    /\ pc[r] \in OnIt => sid[r] \in StreamIds
    /\ pc[r] \in Working => sid[r] <= opened
    /\ result[r] # None => pc[r] \in {"closing", "done"}

\* h2 and the server know opened streams only.
LibraryInv ==
  /\ outbox \subseteq 1 .. opened
  /\ wire \subseteq 1 .. opened
  /\ \A s \in StreamIds : s > opened => peer[s] = "none"

\* One request reads at a time, none after GOAWAY, and none that has something
\* to do.
ReadInv ==
  /\ \A r, q \in At("reading") : r = q
  /\ terminated # None => At("reading") = {}
  /\ NoNeedlessRead

\* After GOAWAY the streams above the last stream id are never answered; only
\* they make a request that has a stream be sent again.
RetryInv ==
  /\ \A s \in StreamIds :
       terminated # None /\ s > terminated => peer[s] \in {"none", "reached"}
  /\ \A r \in Requests :
       result[r] = "retry" /\ sid[r] # None => terminated # None /\ sid[r] > terminated

\* The stages of a request that was not admitted yet, or is gone.
Unadmitted == {"start", "init", "done"}

\* While a request initialises the connection no other one is admitted, there
\* are no streams, and no limit has been revoked.
InitInv ==
  /\ \A r \in Requests : pc[r] \in {"preface", "drain"} =>
       \A q \in Requests \ {r} : pc[q] \in Unadmitted
  /\ \A r \in Requests : pc[r] = "preface" => ~ready
  /\ \A r \in Requests : pc[r] = "drain" => ready /\ deficit = 0
  /\ ~ready => \A r \in Requests : pc[r] \in Unadmitted \cup {"preface"}
  /\ ~ready \/ At("drain") # {} => DOMAIN events = {}

\* A stream of _events is some request's.
EventsInv == \A s \in DOMAIN events : \E r \in Requests : sid[r] = s

\* One request at a time is between picking an id and sending the headers, and
\* its id is still the next one.
PickInv ==
  /\ \A r, q \in At("picked") : r = q
  /\ \A r \in At("picked") : sid[r] = opened + 1
  /\ StreamsDistinct

IInv == /\ TypeOK /\ StageInv /\ LibraryInv /\ ReadInv /\ RetryInv /\ InitInv /\ EventsInv
        /\ ~Yields => PickInv
        /\ ~Checkpoints => PermitsConserved

-----------------------------------------------------------------------------
(***************************************************************************)
(* Types.                                                                  *)
(***************************************************************************)
\* Every action keeps the types of the variables it assigns.
LEMMA TypeNext ==
  ASSUME TypeOK, StageInv, [Next]_vars
  PROVE  TypeOK'
<1>1. CASE UNCHANGED vars \/ Finished
  BY <1>1 DEF TypeOK, vars, conn, admission, library, output, task, Finished
<1>2. CASE AClose
  BY <1>2 DEF TypeOK, AClose, admission, library, output, task
<1>3. ASSUME NEW r \in Requests, Accept(r)
      PROVE  TypeOK'
  BY <1>3, HTTP2Assumption DEF Accept, Goto, admission, library, output, TypeOK, StreamIds,
    Stages
<1>4. ASSUME NEW r \in Requests, NotAvailable(r)
      PROVE  TypeOK'
  BY <1>4, HTTP2Assumption DEF NotAvailable, Raise, Goto, conn, admission, library, output,
    TypeOK, StreamIds, Stages
<1>5. ASSUME NEW r \in Requests, InitLock(r)
      PROVE  TypeOK'
  BY <1>5, HTTP2Assumption DEF InitLock, Goto, conn, admission, library, output, TypeOK,
    StreamIds, Stages
<1>6. ASSUME NEW r \in Requests, SendInit(r)
      PROVE  TypeOK'
  BY <1>6, HTTP2Assumption DEF SendInit, Goto, library, output, TypeOK, StreamIds, Stages
<1>7. ASSUME NEW r \in Requests, InitFails(r)
      PROVE  TypeOK'
  BY <1>7, HTTP2Assumption DEF InitFails, Raise, Goto, admission, library, output, TypeOK,
    StreamIds, Stages
<1>8. ASSUME NEW r \in Requests, Drain(r)
      PROVE  TypeOK'
  BY <1>8, HTTP2Assumption DEF Drain, Goto, conn, library, output, TypeOK, StreamIds, Stages
<1>9. ASSUME NEW r \in Requests, DrainCancelled(r)
      PROVE  TypeOK'
  BY <1>9, HTTP2Assumption DEF DrainCancelled, Raise, Goto, conn, library, output, TypeOK,
    StreamIds, Stages
<1>10. ASSUME NEW r \in Requests, Acquire(r)
      PROVE  TypeOK'
  BY <1>10, HTTP2Assumption DEF Acquire, Goto, conn, library, output, TypeOK, StreamIds, Stages
<1>11. ASSUME NEW r \in Requests, WaitCancelled(r)
      PROVE  TypeOK'
  BY <1>11, HTTP2Assumption DEF WaitCancelled, Raise, Goto, conn, admission, library, output,
    TypeOK, StreamIds, Stages
<1>12. ASSUME NEW r \in Requests, Forfeit(r)
      PROVE  TypeOK'
  BY <1>12, HTTP2Assumption DEF Forfeit, Goto, conn, library, output, TypeOK, StreamIds, Stages
<1>13. ASSUME NEW r \in Requests, Exhausted(r)
      PROVE  TypeOK'
  BY <1>13, HTTP2Assumption DEF Exhausted, Raise, Goto, library, output, TypeOK, StreamIds,
    Stages
<1>14. ASSUME NEW r \in Requests, Pick(r)
      PROVE  TypeOK'
  BY <1>14, HTTP2Assumption DEF Pick, Goto, conn, admission, library, output, TypeOK, StreamIds,
    Stages
<1>15. ASSUME NEW r \in Requests, HeadersRefused(r)
      PROVE  TypeOK'
  BY <1>15, HTTP2Assumption DEF HeadersRefused, Unwind, Goto, conn, admission, library, output,
    TypeOK, StreamIds, Stages
<1>16. ASSUME NEW r \in Requests, SendHeaders(r)
      PROVE  TypeOK'
  <2>1. sid[r] \in StreamIds
    BY <1>16, HTTP2Assumption DEF SendHeaders, StageInv, OnIt, TypeOK
  <2>2. pc' \in [Requests -> Stages]
    BY <1>16 DEF SendHeaders, Goto, TypeOK, Stages
  <2>3. opened' = sid[r] /\ outbox' = outbox \cup {sid[r]}
    BY <1>16 DEF SendHeaders
  <2>4. opened' \in 0 .. LastStreamId
    BY <2>1, <2>3, HTTP2Assumption DEF StreamIds
  <2>5. outbox' \subseteq StreamIds
    BY <2>1, <2>3 DEF TypeOK
  <2> QED
    BY <1>16, <2>2, <2>4, <2>5 DEF SendHeaders, conn, admission, TypeOK
<1>17. ASSUME NEW r \in Requests, Write(r)
      PROVE  TypeOK'
  BY <1>17, HTTP2Assumption DEF Write, Goto, conn, admission, library, TypeOK, StreamIds, Stages
<1>18. ASSUME NEW r \in Requests, WriteRaises(r)
      PROVE  TypeOK'
  BY <1>18, HTTP2Assumption DEF WriteRaises, Unwind, Goto, conn, admission, library, TypeOK,
    StreamIds, Stages
<1>19. ASSUME NEW r \in Requests, Written(r)
      PROVE  TypeOK'
  BY <1>19, HTTP2Assumption DEF Written, Deliver, Goto, conn, admission, TypeOK, StreamIds,
    Stages
<1>20. ASSUME NEW r \in Requests, WriteFails(r)
      PROVE  TypeOK'
  BY <1>20, HTTP2Assumption DEF WriteFails, Deliver, Unwind, Goto, admission, TypeOK, StreamIds,
    Stages
<1>21. ASSUME NEW r \in Requests, WriteCancelled(r)
      PROVE  TypeOK'
  BY <1>21, HTTP2Assumption DEF WriteCancelled, Deliver, Unwind, Goto, conn, admission, TypeOK,
    StreamIds, Stages
<1>22. ASSUME NEW r \in Requests, SendBody(r)
      PROVE  TypeOK'
  BY <1>22, HTTP2Assumption DEF SendBody, Goto, conn, admission, library, output, TypeOK,
    StreamIds, Stages
<1>23. ASSUME NEW r \in Requests, BodyRefused(r)
      PROVE  TypeOK'
  BY <1>23, HTTP2Assumption DEF BodyRefused, Unwind, Goto, conn, admission, library, output,
    TypeOK, StreamIds, Stages
<1>24. ASSUME NEW r \in Requests, TakeResponse(r)
      PROVE  TypeOK'
  BY <1>24, HTTP2Assumption DEF TakeResponse, Inbox, conn, admission, library, output, TypeOK,
    StreamIds, Stages
<1>25. ASSUME NEW r \in Requests, TakeLast(r)
      PROVE  TypeOK'
  BY <1>25, HTTP2Assumption DEF TakeLast, Inbox, Unwind, Goto, conn, admission, library, output,
    TypeOK, StreamIds, Stages
<1>26. ASSUME NEW r \in Requests, Abandon(r)
      PROVE  TypeOK'
  BY <1>26, HTTP2Assumption DEF Abandon, Unwind, Goto, conn, admission, library, output, TypeOK,
    StreamIds, Stages
<1>27. ASSUME NEW r \in Requests, AwaitEvent(r)
      PROVE  TypeOK'
  BY <1>27, HTTP2Assumption DEF AwaitEvent, Goto, conn, admission, library, output, TypeOK,
    StreamIds, Stages
<1>28. ASSUME NEW r \in Requests, NoNeedToRead(r)
      PROVE  TypeOK'
  BY <1>28, HTTP2Assumption DEF NoNeedToRead, Goto, conn, admission, library, output, TypeOK,
    StreamIds, Stages
<1>29. ASSUME NEW r \in Requests, GoneAway(r)
      PROVE  TypeOK'
  BY <1>29, HTTP2Assumption DEF GoneAway, Unwind, Goto, conn, admission, library, output,
    TypeOK, StreamIds, Stages
<1>30. ASSUME NEW r \in Requests, ReadRaises(r)
      PROVE  TypeOK'
  BY <1>30, HTTP2Assumption DEF ReadRaises, Unwind, Goto, conn, admission, library, output,
    TypeOK, StreamIds, Stages
<1>31. ASSUME NEW r \in Requests, Read(r)
      PROVE  TypeOK'
  BY <1>31, HTTP2Assumption DEF Read, Goto, conn, admission, library, output, TypeOK, StreamIds,
    Stages
<1>32. ASSUME NEW r \in Requests, ReadFails(r)
      PROVE  TypeOK'
  BY <1>32, HTTP2Assumption DEF ReadFails, Unwind, Goto, library, output, admission, TypeOK,
    StreamIds, Stages
<1>33. ASSUME NEW r \in Requests, ExchangeCancelled(r)
      PROVE  TypeOK'
  BY <1>33, HTTP2Assumption DEF ExchangeCancelled, Unwind, Goto, conn, admission, library,
    output, TypeOK, StreamIds, Stages
<1>34. ASSUME NEW r \in Requests, ReceiveWindow(r)
      PROVE  TypeOK'
  BY <1>34, HTTP2Assumption DEF ReceiveWindow, Receives, Goto, conn, admission, output, TypeOK,
    StreamIds, Stages
<1>35. ASSUME NEW r \in Requests, ReceiveGoAway(r)
      PROVE  TypeOK'
  BY <1>35, HTTP2Assumption DEF ReceiveGoAway, Receives, Goto, admission, library, output,
    TypeOK, StreamIds, Stages
<1>36. ASSUME NEW r \in Requests, ReceiveSettings(r)
      PROVE  TypeOK'
  <2>1. pc' \in [Requests -> Stages] /\ settings' \in 0 .. MaxSettings
    BY <1>36, HTTP2Assumption DEF ReceiveSettings, Receives, Goto, TypeOK, Stages
  <2>2. PICK n \in 0 .. LocalLimit :
          /\ remote' = n
          /\ IF n = 0 THEN UNCHANGED admission
             ELSE limit' = n /\ (IF n >= limit THEN Raised(n) ELSE Lowered(n))
    BY <1>36 DEF ReceiveSettings
  <2>3. limit' \in 0 .. LocalLimit /\ deficit' \in Nat /\ permits' \in Nat
    BY <2>2, HTTP2Assumption DEF Raised, Lowered, Smaller, admission, TypeOK
  <2> QED
    BY <1>36, <2>1, <2>2, <2>3, HTTP2Assumption DEF ReceiveSettings, conn, output, TypeOK
<1>37. ASSUME NEW r \in Requests, ReceiveEvent(r)
      PROVE  TypeOK'
  <2>1. pc' \in [Requests -> Stages]
    BY <1>37 DEF ReceiveEvent, Receives, Goto, TypeOK, Stages
  <2>2. PICK s \in 1 .. opened, e \in {"response", "end", "reset"},
             now \in {"answered", "ended", "reset"} :
          peer' = [peer EXCEPT ![s] = now] /\ Dispatch(s, e)
    BY <1>37 DEF ReceiveEvent
  <2>3. peer' \in [StreamIds -> {"none", "reached", "answered", "ended", "reset"}]
    BY <2>2 DEF TypeOK
  <2>4. DOMAIN events' = DOMAIN events
    BY <2>2 DEF Dispatch
  <2>5. \A t \in DOMAIN events' : events'[t] \in Seq({"response", "end", "reset"})
    BY <2>2, <2>4 DEF Dispatch, TypeOK
  <2> QED
    BY <1>37, <2>1, <2>3, <2>4, <2>5 DEF ReceiveEvent, conn, admission, output, TypeOK
<1>38. ASSUME NEW r \in Requests, CloseStream(r)
      PROVE  TypeOK'
  BY <1>38, HTTP2Assumption DEF CloseStream, Goto, library, output, Release, StateAfter, TypeOK,
    StreamIds, Stages
<1> QED
  BY <1>1, <1>2, <1>3, <1>4, <1>5, <1>6, <1>7, <1>8, <1>9, <1>10, <1>11, <1>12, <1>13, <1>14,
    <1>15, <1>16, <1>17, <1>18, <1>19, <1>20, <1>21, <1>22, <1>23, <1>24, <1>25, <1>26, <1>27,
    <1>28, <1>29, <1>30, <1>31, <1>32, <1>33, <1>34, <1>35, <1>36, <1>37, <1>38 DEF Next,
    Progress, Cancel, Receive

\* A request has a stream id exactly from Pick on.
LEMMA StageNext ==
  ASSUME TypeOK, StageInv, [Next]_vars
  PROVE  StageInv'
<1>1. CASE UNCHANGED <<opened, pc, sid, result>>
  BY <1>1 DEF StageInv
<1>2. CASE UNCHANGED vars \/ AClose \/ Finished
  BY <1>1, <1>2 DEF AClose, Finished, vars, conn, admission, library, output, task
<1>3. ASSUME NEW r \in Requests, TakeResponse(r)
      PROVE  StageInv'
  BY <1>1, <1>3 DEF TakeResponse, Inbox, conn, admission, library, output
<1>4. ASSUME NEW r \in Requests, Accept(r)
      PROVE  StageInv'
  BY <1>4, HTTP2Assumption DEF Accept, Goto, admission, library, output, TypeOK, StageInv,
    BeforeStream, Working, OnIt, StreamIds
<1>5. ASSUME NEW r \in Requests, NotAvailable(r)
      PROVE  StageInv'
  BY <1>5, HTTP2Assumption DEF NotAvailable, Raise, Goto, conn, admission, library, output,
    TypeOK, StageInv, BeforeStream, Working, OnIt, StreamIds
<1>6. ASSUME NEW r \in Requests, InitLock(r)
      PROVE  StageInv'
  BY <1>6, HTTP2Assumption DEF InitLock, Goto, conn, admission, library, output, TypeOK,
    StageInv, BeforeStream, Working, OnIt, StreamIds
<1>7. ASSUME NEW r \in Requests, SendInit(r)
      PROVE  StageInv'
  BY <1>7, HTTP2Assumption DEF SendInit, Goto, library, output, TypeOK, StageInv, BeforeStream,
    Working, OnIt, StreamIds
<1>8. ASSUME NEW r \in Requests, InitFails(r)
      PROVE  StageInv'
  BY <1>8, HTTP2Assumption DEF InitFails, Raise, Goto, admission, library, output, TypeOK,
    StageInv, BeforeStream, Working, OnIt, StreamIds
<1>9. ASSUME NEW r \in Requests, Drain(r)
      PROVE  StageInv'
  BY <1>9, HTTP2Assumption DEF Drain, Goto, conn, library, output, TypeOK, StageInv,
    BeforeStream, Working, OnIt, StreamIds
<1>10. ASSUME NEW r \in Requests, DrainCancelled(r)
      PROVE  StageInv'
  BY <1>10, HTTP2Assumption DEF DrainCancelled, Raise, Goto, conn, library, output, TypeOK,
    StageInv, BeforeStream, Working, OnIt, StreamIds
<1>11. ASSUME NEW r \in Requests, Acquire(r)
      PROVE  StageInv'
  BY <1>11, HTTP2Assumption DEF Acquire, Goto, conn, library, output, TypeOK, StageInv,
    BeforeStream, Working, OnIt, StreamIds
<1>12. ASSUME NEW r \in Requests, WaitCancelled(r)
      PROVE  StageInv'
  BY <1>12, HTTP2Assumption DEF WaitCancelled, Raise, Goto, conn, admission, library, output,
    TypeOK, StageInv, BeforeStream, Working, OnIt, StreamIds
<1>13. ASSUME NEW r \in Requests, Forfeit(r)
      PROVE  StageInv'
  BY <1>13, HTTP2Assumption DEF Forfeit, Goto, conn, library, output, TypeOK, StageInv,
    BeforeStream, Working, OnIt, StreamIds
<1>14. ASSUME NEW r \in Requests, Exhausted(r)
      PROVE  StageInv'
  BY <1>14, HTTP2Assumption DEF Exhausted, Raise, Goto, library, output, TypeOK, StageInv,
    BeforeStream, Working, OnIt, StreamIds
<1>15. ASSUME NEW r \in Requests, Pick(r)
      PROVE  StageInv'
  BY <1>15, HTTP2Assumption DEF Pick, Goto, conn, admission, library, output, TypeOK, StageInv,
    BeforeStream, Working, OnIt, StreamIds
<1>16. ASSUME NEW r \in Requests, SendHeaders(r)
      PROVE  StageInv'
  BY <1>16, HTTP2Assumption DEF SendHeaders, Goto, conn, admission, TypeOK, StageInv,
    BeforeStream, Working, OnIt, StreamIds
<1>17. ASSUME NEW r \in Requests, HeadersRefused(r)
      PROVE  StageInv'
  BY <1>17, HTTP2Assumption DEF HeadersRefused, Unwind, Goto, conn, admission, library, output,
    TypeOK, StageInv, BeforeStream, Working, OnIt, StreamIds
<1>18. ASSUME NEW r \in Requests, Write(r)
      PROVE  StageInv'
  BY <1>18, HTTP2Assumption DEF Write, Goto, conn, admission, library, TypeOK, StageInv,
    BeforeStream, Working, OnIt, StreamIds
<1>19. ASSUME NEW r \in Requests, WriteRaises(r)
      PROVE  StageInv'
  BY <1>19, HTTP2Assumption DEF WriteRaises, Unwind, Goto, conn, admission, library, TypeOK,
    StageInv, BeforeStream, Working, OnIt, StreamIds
<1>20. ASSUME NEW r \in Requests, Written(r)
      PROVE  StageInv'
  BY <1>20, HTTP2Assumption DEF Written, Deliver, Goto, conn, admission, TypeOK, StageInv,
    BeforeStream, Working, OnIt, StreamIds
<1>21. ASSUME NEW r \in Requests, WriteFails(r)
      PROVE  StageInv'
  BY <1>21, HTTP2Assumption DEF WriteFails, Deliver, Unwind, Goto, admission, TypeOK, StageInv,
    BeforeStream, Working, OnIt, StreamIds
<1>22. ASSUME NEW r \in Requests, WriteCancelled(r)
      PROVE  StageInv'
  BY <1>22, HTTP2Assumption DEF WriteCancelled, Deliver, Unwind, Goto, conn, admission, TypeOK,
    StageInv, BeforeStream, Working, OnIt, StreamIds
<1>23. ASSUME NEW r \in Requests, SendBody(r)
      PROVE  StageInv'
  BY <1>23, HTTP2Assumption DEF SendBody, Goto, conn, admission, library, output, TypeOK,
    StageInv, BeforeStream, Working, OnIt, StreamIds
<1>24. ASSUME NEW r \in Requests, BodyRefused(r)
      PROVE  StageInv'
  BY <1>24, HTTP2Assumption DEF BodyRefused, Unwind, Goto, conn, admission, library, output,
    TypeOK, StageInv, BeforeStream, Working, OnIt, StreamIds
<1>25. ASSUME NEW r \in Requests, TakeLast(r)
      PROVE  StageInv'
  BY <1>25, HTTP2Assumption DEF TakeLast, Inbox, Unwind, Goto, conn, admission, library, output,
    TypeOK, StageInv, BeforeStream, Working, OnIt, StreamIds
<1>26. ASSUME NEW r \in Requests, Abandon(r)
      PROVE  StageInv'
  BY <1>26, HTTP2Assumption DEF Abandon, Unwind, Goto, conn, admission, library, output, TypeOK,
    StageInv, BeforeStream, Working, OnIt, StreamIds
<1>27. ASSUME NEW r \in Requests, AwaitEvent(r)
      PROVE  StageInv'
  BY <1>27, HTTP2Assumption DEF AwaitEvent, Goto, conn, admission, library, output, TypeOK,
    StageInv, BeforeStream, Working, OnIt, StreamIds
<1>28. ASSUME NEW r \in Requests, NoNeedToRead(r)
      PROVE  StageInv'
  BY <1>28, HTTP2Assumption DEF NoNeedToRead, Goto, conn, admission, library, output, TypeOK,
    StageInv, BeforeStream, Working, OnIt, StreamIds
<1>29. ASSUME NEW r \in Requests, GoneAway(r)
      PROVE  StageInv'
  BY <1>29, HTTP2Assumption DEF GoneAway, Unwind, Goto, conn, admission, library, output,
    TypeOK, StageInv, BeforeStream, Working, OnIt, StreamIds
<1>30. ASSUME NEW r \in Requests, ReadRaises(r)
      PROVE  StageInv'
  BY <1>30, HTTP2Assumption DEF ReadRaises, Unwind, Goto, conn, admission, library, output,
    TypeOK, StageInv, BeforeStream, Working, OnIt, StreamIds
<1>31. ASSUME NEW r \in Requests, Read(r)
      PROVE  StageInv'
  BY <1>31, HTTP2Assumption DEF Read, Goto, conn, admission, library, output, TypeOK, StageInv,
    BeforeStream, Working, OnIt, StreamIds
<1>32. ASSUME NEW r \in Requests, ReadFails(r)
      PROVE  StageInv'
  BY <1>32, HTTP2Assumption DEF ReadFails, Unwind, Goto, library, output, admission, TypeOK,
    StageInv, BeforeStream, Working, OnIt, StreamIds
<1>33. ASSUME NEW r \in Requests, ExchangeCancelled(r)
      PROVE  StageInv'
  BY <1>33, HTTP2Assumption DEF ExchangeCancelled, Unwind, Goto, conn, admission, library,
    output, TypeOK, StageInv, BeforeStream, Working, OnIt, StreamIds
<1>34. ASSUME NEW r \in Requests, ReceiveSettings(r)
      PROVE  StageInv'
  BY <1>34, HTTP2Assumption DEF ReceiveSettings, Receives, Goto, conn, output, TypeOK, StageInv,
    BeforeStream, Working, OnIt, StreamIds
<1>35. ASSUME NEW r \in Requests, ReceiveEvent(r)
      PROVE  StageInv'
  BY <1>35, HTTP2Assumption DEF ReceiveEvent, Receives, Dispatch, Goto, conn, admission, output,
    TypeOK, StageInv, BeforeStream, Working, OnIt, StreamIds
<1>36. ASSUME NEW r \in Requests, ReceiveWindow(r)
      PROVE  StageInv'
  BY <1>36, HTTP2Assumption DEF ReceiveWindow, Receives, Goto, conn, admission, output, TypeOK,
    StageInv, BeforeStream, Working, OnIt, StreamIds
<1>37. ASSUME NEW r \in Requests, ReceiveGoAway(r)
      PROVE  StageInv'
  BY <1>37, HTTP2Assumption DEF ReceiveGoAway, Receives, Goto, admission, library, output,
    TypeOK, StageInv, BeforeStream, Working, OnIt, StreamIds
<1>38. ASSUME NEW r \in Requests, CloseStream(r)
      PROVE  StageInv'
  BY <1>38, HTTP2Assumption DEF CloseStream, Goto, library, output, TypeOK, StageInv,
    BeforeStream, Working, OnIt, StreamIds
<1> QED
  BY <1>2, <1>3, <1>4, <1>5, <1>6, <1>7, <1>8, <1>9, <1>10, <1>11, <1>12, <1>13, <1>14, <1>15,
    <1>16, <1>17, <1>18, <1>19, <1>20, <1>21, <1>22, <1>23, <1>24, <1>25, <1>26, <1>27, <1>28,
    <1>29, <1>30, <1>31, <1>32, <1>33, <1>34, <1>35, <1>36, <1>37, <1>38 DEF Next, Progress,
    Cancel, Receive

\* h2 has headers only of streams that were opened.
LEMMA LibraryNext ==
  ASSUME TypeOK, StageInv, LibraryInv, [Next]_vars
  PROVE  LibraryInv'
<1>1. CASE UNCHANGED <<opened, outbox, wire, peer>>
  BY <1>1 DEF LibraryInv, At
<1>2. CASE UNCHANGED vars \/ AClose \/ Finished
  BY <1>1, <1>2 DEF AClose, Finished, vars, conn, admission, library, output, task
<1>3. ASSUME NEW r \in Requests,
             Accept(r) \/ NotAvailable(r) \/ InitLock(r) \/ SendInit(r) \/ InitFails(r)
      PROVE  LibraryInv'
  BY <1>1, <1>3 DEF Accept, NotAvailable, InitLock, SendInit, InitFails, Goto, admission,
    library, output, Raise, conn
<1>4. ASSUME NEW r \in Requests,
             Drain(r) \/ DrainCancelled(r) \/ Acquire(r) \/ WaitCancelled(r) \/ Forfeit(r)
             \/ Exhausted(r)
      PROVE  LibraryInv'
  BY <1>1, <1>4 DEF Drain, DrainCancelled, Acquire, WaitCancelled, Forfeit, Exhausted, Goto,
    conn, library, output, Raise, admission
<1>5. ASSUME NEW r \in Requests, Pick(r) \/ HeadersRefused(r)
      PROVE  LibraryInv'
  BY <1>1, <1>5 DEF Pick, HeadersRefused, Goto, conn, admission, library, output, Unwind
<1>6. ASSUME NEW r \in Requests,
             SendBody(r) \/ BodyRefused(r) \/ TakeResponse(r) \/ TakeLast(r) \/ Abandon(r)
             \/ AwaitEvent(r)
      PROVE  LibraryInv'
  BY <1>1, <1>6 DEF SendBody, BodyRefused, TakeResponse, TakeLast, Abandon, AwaitEvent, Goto,
    conn, admission, library, output, Unwind, Inbox
<1>7. ASSUME NEW r \in Requests,
             NoNeedToRead(r) \/ GoneAway(r) \/ ReadRaises(r) \/ Read(r) \/ ReadFails(r) \/
             ExchangeCancelled(r)
      PROVE  LibraryInv'
  BY <1>1, <1>7 DEF NoNeedToRead, GoneAway, ReadRaises, Read, ReadFails, ExchangeCancelled,
    Goto, conn, admission, library, output, Unwind
<1>8. ASSUME NEW r \in Requests,
             ReceiveSettings(r) \/ ReceiveWindow(r) \/ ReceiveGoAway(r) \/ CloseStream(r)
      PROVE  LibraryInv'
  BY <1>1, <1>8 DEF ReceiveSettings, ReceiveWindow, ReceiveGoAway, CloseStream, Receives, Goto,
    conn, output, admission, library
<1>9. ASSUME NEW r \in Requests, SendHeaders(r)
      PROVE  LibraryInv'
  <2>1. opened' = sid[r] /\ outbox' = outbox \cup {sid[r]} /\ UNCHANGED <<wire, peer>>
    BY <1>9 DEF SendHeaders, library
  <2>2. opened \in Nat /\ sid[r] \in Nat /\ sid[r] > opened /\ sid[r] >= 1
    BY <1>9, HTTP2Assumption DEF SendHeaders, TypeOK, StageInv, OnIt, StreamIds
  <2>3. 1 .. opened \subseteq 1 .. opened' /\ sid[r] \in 1 .. opened'
    BY <2>1, <2>2
  <2>4. outbox' \subseteq 1 .. opened' /\ wire' \subseteq 1 .. opened'
    BY <2>1, <2>3 DEF LibraryInv
  <2>5. \A s \in StreamIds : s > opened' => peer'[s] = "none"
    BY <2>1, <2>2, HTTP2Assumption DEF LibraryInv, StreamIds
  <2> QED
    BY <2>4, <2>5 DEF LibraryInv
<1>10. ASSUME NEW r \in Requests, Write(r)
      PROVE  LibraryInv'
  BY <1>10, HTTP2Assumption DEF Write, Goto, conn, admission, library, TypeOK, StageInv,
    LibraryInv, OnIt, StreamIds
<1>11. ASSUME NEW r \in Requests, WriteRaises(r)
      PROVE  LibraryInv'
  BY <1>11, HTTP2Assumption DEF WriteRaises, Unwind, Goto, conn, admission, library, TypeOK,
    StageInv, LibraryInv, OnIt, StreamIds
<1>12. ASSUME NEW r \in Requests, Written(r)
      PROVE  LibraryInv'
  BY <1>12, HTTP2Assumption DEF Written, Deliver, Goto, conn, admission, TypeOK, StageInv,
    LibraryInv, OnIt, StreamIds
<1>13. ASSUME NEW r \in Requests, WriteFails(r)
      PROVE  LibraryInv'
  BY <1>13, HTTP2Assumption DEF WriteFails, Deliver, Unwind, Goto, admission, TypeOK, StageInv,
    LibraryInv, OnIt, StreamIds
<1>14. ASSUME NEW r \in Requests, WriteCancelled(r)
      PROVE  LibraryInv'
  BY <1>14, HTTP2Assumption DEF WriteCancelled, Deliver, Unwind, Goto, conn, admission, TypeOK,
    StageInv, LibraryInv, OnIt, StreamIds
<1>15. ASSUME NEW r \in Requests, ReceiveEvent(r)
      PROVE  LibraryInv'
  BY <1>15, HTTP2Assumption DEF ReceiveEvent, Receives, Dispatch, Goto, conn, admission, output,
    TypeOK, StageInv, LibraryInv, OnIt, StreamIds
<1> QED
  BY <1>2, <1>3, <1>4, <1>5, <1>6, <1>7, <1>8, <1>9, <1>10, <1>11, <1>12, <1>13, <1>14, <1>15
    DEF Next, Progress, Cancel, Receive

-----------------------------------------------------------------------------
(***************************************************************************)
(* One reader at a time, and nobody reads after GOAWAY.                    *)
(***************************************************************************)
\* Who reads has nothing waiting for it, and is alone.
LEMMA ReadNext ==
  ASSUME TypeOK, StageInv, ReadInv, [Next]_vars
  PROVE  ReadInv'
<1>1. CASE UNCHANGED <<terminated, events, window, pc, phase, sid>>
  BY <1>1 DEF ReadInv, At, NoNeedlessRead, Ready, Inbox
<1>2. CASE UNCHANGED vars \/ AClose \/ Finished
  BY <1>1, <1>2 DEF AClose, Finished, vars, conn, admission, library, output, task
<1>3. ASSUME NEW r \in Requests, Accept(r)
      PROVE  ReadInv'
  BY <1>3, HTTP2Assumption DEF Accept, Goto, admission, library, output, TypeOK, StageInv, OnIt,
    Working, BeforeStream, ReadInv, At, NoNeedlessRead, Ready, Inbox
<1>4. ASSUME NEW r \in Requests, NotAvailable(r)
      PROVE  ReadInv'
  BY <1>4, HTTP2Assumption DEF NotAvailable, Raise, Goto, conn, admission, library, output,
    TypeOK, StageInv, OnIt, Working, BeforeStream, ReadInv, At, NoNeedlessRead, Ready, Inbox
<1>5. ASSUME NEW r \in Requests, InitLock(r)
      PROVE  ReadInv'
  BY <1>5, HTTP2Assumption DEF InitLock, Goto, conn, admission, library, output, TypeOK,
    StageInv, OnIt, Working, BeforeStream, ReadInv, At, NoNeedlessRead, Ready, Inbox
<1>6. ASSUME NEW r \in Requests, SendInit(r)
      PROVE  ReadInv'
  BY <1>6, HTTP2Assumption DEF SendInit, Goto, library, output, TypeOK, StageInv, OnIt, Working,
    BeforeStream, ReadInv, At, NoNeedlessRead, Ready, Inbox
<1>7. ASSUME NEW r \in Requests, InitFails(r)
      PROVE  ReadInv'
  BY <1>7, HTTP2Assumption DEF InitFails, Raise, Goto, admission, library, output, TypeOK,
    StageInv, OnIt, Working, BeforeStream, ReadInv, At, NoNeedlessRead, Ready, Inbox
<1>8. ASSUME NEW r \in Requests, Drain(r)
      PROVE  ReadInv'
  BY <1>8, HTTP2Assumption DEF Drain, Goto, conn, library, output, TypeOK, StageInv, OnIt,
    Working, BeforeStream, ReadInv, At, NoNeedlessRead, Ready, Inbox
<1>9. ASSUME NEW r \in Requests, DrainCancelled(r)
      PROVE  ReadInv'
  BY <1>9, HTTP2Assumption DEF DrainCancelled, Raise, Goto, conn, library, output, TypeOK,
    StageInv, OnIt, Working, BeforeStream, ReadInv, At, NoNeedlessRead, Ready, Inbox
<1>10. ASSUME NEW r \in Requests, Acquire(r)
      PROVE  ReadInv'
  BY <1>10, HTTP2Assumption DEF Acquire, Goto, conn, library, output, TypeOK, StageInv, OnIt,
    Working, BeforeStream, ReadInv, At, NoNeedlessRead, Ready, Inbox
<1>11. ASSUME NEW r \in Requests, WaitCancelled(r)
      PROVE  ReadInv'
  BY <1>11, HTTP2Assumption DEF WaitCancelled, Raise, Goto, conn, admission, library, output,
    TypeOK, StageInv, OnIt, Working, BeforeStream, ReadInv, At, NoNeedlessRead, Ready, Inbox
<1>12. ASSUME NEW r \in Requests, Forfeit(r)
      PROVE  ReadInv'
  BY <1>12, HTTP2Assumption DEF Forfeit, Goto, conn, library, output, TypeOK, StageInv, OnIt,
    Working, BeforeStream, ReadInv, At, NoNeedlessRead, Ready, Inbox
<1>13. ASSUME NEW r \in Requests, Exhausted(r)
      PROVE  ReadInv'
  BY <1>13, HTTP2Assumption DEF Exhausted, Raise, Goto, library, output, TypeOK, StageInv, OnIt,
    Working, BeforeStream, ReadInv, At, NoNeedlessRead, Ready, Inbox
<1>14. ASSUME NEW r \in Requests, Pick(r)
      PROVE  ReadInv'
  BY <1>14, HTTP2Assumption DEF Pick, Goto, conn, admission, library, output, TypeOK, StageInv,
    OnIt, Working, BeforeStream, ReadInv, At, NoNeedlessRead, Ready, Inbox
<1>15. ASSUME NEW r \in Requests, SendHeaders(r)
      PROVE  ReadInv'
  BY <1>15, HTTP2Assumption DEF SendHeaders, Goto, conn, admission, TypeOK, StageInv, OnIt,
    Working, BeforeStream, ReadInv, At, NoNeedlessRead, Ready, Inbox
<1>16. ASSUME NEW r \in Requests, HeadersRefused(r)
      PROVE  ReadInv'
  BY <1>16, HTTP2Assumption DEF HeadersRefused, Unwind, Goto, conn, admission, library, output,
    TypeOK, StageInv, OnIt, Working, BeforeStream, ReadInv, At, NoNeedlessRead, Ready, Inbox
<1>17. ASSUME NEW r \in Requests, Write(r)
      PROVE  ReadInv'
  BY <1>17, HTTP2Assumption DEF Write, Goto, conn, admission, library, TypeOK, StageInv, OnIt,
    Working, BeforeStream, ReadInv, At, NoNeedlessRead, Ready, Inbox
<1>18. ASSUME NEW r \in Requests, WriteRaises(r)
      PROVE  ReadInv'
  BY <1>18, HTTP2Assumption DEF WriteRaises, Unwind, Goto, conn, admission, library, TypeOK,
    StageInv, OnIt, Working, BeforeStream, ReadInv, At, NoNeedlessRead, Ready, Inbox
<1>19. ASSUME NEW r \in Requests, Written(r)
      PROVE  ReadInv'
  BY <1>19, HTTP2Assumption DEF Written, Deliver, Goto, conn, admission, TypeOK, StageInv, OnIt,
    Working, BeforeStream, ReadInv, At, NoNeedlessRead, Ready, Inbox
<1>20. ASSUME NEW r \in Requests, WriteFails(r)
      PROVE  ReadInv'
  BY <1>20, HTTP2Assumption DEF WriteFails, Deliver, Unwind, Goto, admission, TypeOK, StageInv,
    OnIt, Working, BeforeStream, ReadInv, At, NoNeedlessRead, Ready, Inbox
<1>21. ASSUME NEW r \in Requests, WriteCancelled(r)
      PROVE  ReadInv'
  BY <1>21, HTTP2Assumption DEF WriteCancelled, Deliver, Unwind, Goto, conn, admission, TypeOK,
    StageInv, OnIt, Working, BeforeStream, ReadInv, At, NoNeedlessRead, Ready, Inbox
<1>22. ASSUME NEW r \in Requests, SendBody(r)
      PROVE  ReadInv'
  BY <1>22, HTTP2Assumption DEF SendBody, Goto, conn, admission, library, output, TypeOK,
    StageInv, OnIt, Working, BeforeStream, ReadInv, At, NoNeedlessRead, Ready, Inbox
<1>23. ASSUME NEW r \in Requests, BodyRefused(r)
      PROVE  ReadInv'
  BY <1>23, HTTP2Assumption DEF BodyRefused, Unwind, Goto, conn, admission, library, output,
    TypeOK, StageInv, OnIt, Working, BeforeStream, ReadInv, At, NoNeedlessRead, Ready, Inbox
<1>24. ASSUME NEW r \in Requests, TakeResponse(r)
      PROVE  ReadInv'
  BY <1>24, HTTP2Assumption DEF TakeResponse, Inbox, conn, admission, library, output, TypeOK,
    StageInv, OnIt, Working, BeforeStream, ReadInv, At, NoNeedlessRead, Ready
<1>25. ASSUME NEW r \in Requests, TakeLast(r)
      PROVE  ReadInv'
  BY <1>25, HTTP2Assumption DEF TakeLast, Inbox, Unwind, Goto, conn, admission, library, output,
    TypeOK, StageInv, OnIt, Working, BeforeStream, ReadInv, At, NoNeedlessRead, Ready
<1>26. ASSUME NEW r \in Requests, Abandon(r)
      PROVE  ReadInv'
  BY <1>26, HTTP2Assumption DEF Abandon, Unwind, Goto, conn, admission, library, output, TypeOK,
    StageInv, OnIt, Working, BeforeStream, ReadInv, At, NoNeedlessRead, Ready, Inbox
<1>27. ASSUME NEW r \in Requests, AwaitEvent(r)
      PROVE  ReadInv'
  BY <1>27, HTTP2Assumption DEF AwaitEvent, Goto, conn, admission, library, output, TypeOK,
    StageInv, OnIt, Working, BeforeStream, ReadInv, At, NoNeedlessRead, Ready, Inbox
<1>28. ASSUME NEW r \in Requests, NoNeedToRead(r)
      PROVE  ReadInv'
  BY <1>28, HTTP2Assumption DEF NoNeedToRead, Goto, conn, admission, library, output,
    ReadLockFree, Answered, TypeOK, StageInv, OnIt, Working, BeforeStream, ReadInv, At,
    NoNeedlessRead, Ready, Inbox
<1>29. ASSUME NEW r \in Requests, GoneAway(r)
      PROVE  ReadInv'
  BY <1>29, HTTP2Assumption DEF GoneAway, Unwind, Goto, conn, admission, library, output,
    ReadLockFree, Answered, TypeOK, StageInv, OnIt, Working, BeforeStream, ReadInv, At,
    NoNeedlessRead, Ready, Inbox
<1>30. ASSUME NEW r \in Requests, ReadRaises(r)
      PROVE  ReadInv'
  BY <1>30, HTTP2Assumption DEF ReadRaises, Unwind, Goto, conn, admission, library, output,
    TypeOK, StageInv, OnIt, Working, BeforeStream, ReadInv, At, NoNeedlessRead, Ready, Inbox
<1>31. ASSUME NEW r \in Requests, Read(r)
      PROVE  ReadInv'
  BY <1>31, HTTP2Assumption DEF Read, Goto, conn, admission, library, output, ReadLockFree,
    Answered, TypeOK, StageInv, OnIt, Working, BeforeStream, ReadInv, At, NoNeedlessRead, Ready,
    Inbox
<1>32. ASSUME NEW r \in Requests, ReadFails(r)
      PROVE  ReadInv'
  BY <1>32, HTTP2Assumption DEF ReadFails, Unwind, Goto, library, output, admission, TypeOK,
    StageInv, OnIt, Working, BeforeStream, ReadInv, At, NoNeedlessRead, Ready, Inbox
<1>33. ASSUME NEW r \in Requests, ExchangeCancelled(r)
      PROVE  ReadInv'
  BY <1>33, HTTP2Assumption DEF ExchangeCancelled, Unwind, Goto, conn, admission, library,
    output, TypeOK, StageInv, OnIt, Working, BeforeStream, ReadInv, At, NoNeedlessRead, Ready,
    Inbox
<1>34. ASSUME NEW r \in Requests, ReceiveSettings(r)
      PROVE  ReadInv'
  BY <1>34, HTTP2Assumption DEF ReceiveSettings, Receives, Goto, conn, output, TypeOK, StageInv,
    OnIt, Working, BeforeStream, ReadInv, At, NoNeedlessRead, Ready, Inbox
<1>35. ASSUME NEW r \in Requests, ReceiveEvent(r)
      PROVE  ReadInv'
  BY <1>35, HTTP2Assumption DEF ReceiveEvent, Receives, Dispatch, Goto, conn, admission, output,
    TypeOK, StageInv, OnIt, Working, BeforeStream, ReadInv, At, NoNeedlessRead, Ready, Inbox
<1>36. ASSUME NEW r \in Requests, ReceiveWindow(r)
      PROVE  ReadInv'
  BY <1>36, HTTP2Assumption DEF ReceiveWindow, Receives, Goto, conn, admission, output, TypeOK,
    StageInv, OnIt, Working, BeforeStream, ReadInv, At, NoNeedlessRead, Ready, Inbox
<1>37. ASSUME NEW r \in Requests, ReceiveGoAway(r)
      PROVE  ReadInv'
  BY <1>37, HTTP2Assumption DEF ReceiveGoAway, Receives, Goto, admission, library, output,
    TypeOK, StageInv, OnIt, Working, BeforeStream, ReadInv, At, NoNeedlessRead, Ready, Inbox
<1>38. ASSUME NEW r \in Requests, CloseStream(r)
      PROVE  ReadInv'
  BY <1>38, HTTP2Assumption DEF CloseStream, Goto, library, output, TypeOK, StageInv, OnIt,
    Working, BeforeStream, ReadInv, At, NoNeedlessRead, Ready, Inbox
<1> QED
  BY <1>2, <1>3, <1>4, <1>5, <1>6, <1>7, <1>8, <1>9, <1>10, <1>11, <1>12, <1>13, <1>14, <1>15,
    <1>16, <1>17, <1>18, <1>19, <1>20, <1>21, <1>22, <1>23, <1>24, <1>25, <1>26, <1>27, <1>28,
    <1>29, <1>30, <1>31, <1>32, <1>33, <1>34, <1>35, <1>36, <1>37, <1>38 DEF Next, Progress,
    Cancel, Receive

\* A request that may be sent again was not processed.
LEMMA RetryNext ==
  ASSUME TypeOK, StageInv, LibraryInv, ReadInv, RetryInv, [Next]_vars
  PROVE  RetryInv'
<1>1. CASE UNCHANGED <<terminated, peer, sid, result>>
  BY <1>1 DEF RetryInv
<1>2. CASE UNCHANGED vars \/ AClose \/ Finished
  BY <1>1, <1>2 DEF AClose, Finished, vars, conn, admission, library, output, task
<1>3. ASSUME NEW r \in Requests,
             Accept(r) \/ InitLock(r) \/ SendInit(r) \/ Drain(r) \/ Acquire(r) \/
             Forfeit(r)
      PROVE  RetryInv'
  BY <1>1, <1>3 DEF Accept, InitLock, SendInit, Drain, Acquire, Forfeit, Goto, admission,
    library, output, conn
<1>4. ASSUME NEW r \in Requests, SendHeaders(r) \/ Write(r)
      PROVE  RetryInv'
  BY <1>1, <1>4 DEF SendHeaders, Write, Goto, conn, admission, library
<1>5. ASSUME NEW r \in Requests,
             SendBody(r) \/ TakeResponse(r) \/ AwaitEvent(r) \/ NoNeedToRead(r) \/ Read(r)
      PROVE  RetryInv'
  BY <1>1, <1>5 DEF SendBody, TakeResponse, AwaitEvent, NoNeedToRead, Read, Goto, conn,
    admission, library, output, Inbox
<1>6. ASSUME NEW r \in Requests, ReceiveSettings(r) \/ ReceiveWindow(r) \/ CloseStream(r)
      PROVE  RetryInv'
  BY <1>1, <1>6 DEF ReceiveSettings, ReceiveWindow, CloseStream, Receives, Goto, conn, output,
    admission, library
<1>7. ASSUME NEW r \in Requests, NotAvailable(r)
      PROVE  RetryInv'
  BY <1>7, HTTP2Assumption DEF NotAvailable, Raise, Goto, conn, admission, library, output,
    TypeOK, StageInv, BeforeStream, OnIt, LibraryInv, ReadInv, At, RetryInv, StreamIds
<1>8. ASSUME NEW r \in Requests, InitFails(r)
      PROVE  RetryInv'
  BY <1>8, HTTP2Assumption DEF InitFails, Raise, Goto, admission, library, output, TypeOK,
    StageInv, BeforeStream, OnIt, LibraryInv, ReadInv, At, RetryInv, StreamIds
<1>9. ASSUME NEW r \in Requests, DrainCancelled(r)
      PROVE  RetryInv'
  BY <1>9, HTTP2Assumption DEF DrainCancelled, Raise, Goto, conn, library, output, TypeOK,
    StageInv, BeforeStream, OnIt, LibraryInv, ReadInv, At, RetryInv, StreamIds
<1>10. ASSUME NEW r \in Requests, WaitCancelled(r)
      PROVE  RetryInv'
  BY <1>10, HTTP2Assumption DEF WaitCancelled, Raise, Goto, conn, admission, library, output,
    TypeOK, StageInv, BeforeStream, OnIt, LibraryInv, ReadInv, At, RetryInv, StreamIds
<1>11. ASSUME NEW r \in Requests, Exhausted(r)
      PROVE  RetryInv'
  BY <1>11, HTTP2Assumption DEF Exhausted, Raise, Goto, library, output, TypeOK, StageInv,
    BeforeStream, OnIt, LibraryInv, ReadInv, At, RetryInv, StreamIds
<1>12. ASSUME NEW r \in Requests, HeadersRefused(r)
      PROVE  RetryInv'
  BY <1>12, HTTP2Assumption DEF HeadersRefused, Unwind, Goto, conn, admission, library, output,
    TypeOK, StageInv, BeforeStream, OnIt, LibraryInv, ReadInv, At, RetryInv, StreamIds
<1>13. ASSUME NEW r \in Requests, Pick(r)
      PROVE  RetryInv'
  <2>1. result' = result /\ terminated' = terminated /\ peer' = peer
    BY <1>13 DEF Pick, conn, library
  <2>2. result[r] = None
    BY <1>13 DEF Pick, StageInv
  <2>3. \A q \in Requests \ {r} : sid'[q] = sid[q]
    BY <1>13 DEF Pick, TypeOK
  <2> QED
    BY <2>1, <2>2, <2>3, HTTP2Assumption DEF RetryInv
<1>14. ASSUME NEW r \in Requests, WriteRaises(r)
      PROVE  RetryInv'
  BY <1>14, HTTP2Assumption DEF WriteRaises, Unwind, Goto, conn, admission, library, TypeOK,
    StageInv, BeforeStream, OnIt, LibraryInv, ReadInv, At, RetryInv, StreamIds
<1>15. ASSUME NEW r \in Requests, Written(r)
      PROVE  RetryInv'
  BY <1>15, HTTP2Assumption DEF Written, Deliver, Goto, conn, admission, TypeOK, StageInv,
    BeforeStream, OnIt, LibraryInv, ReadInv, At, RetryInv, StreamIds
<1>16. ASSUME NEW r \in Requests, WriteFails(r)
      PROVE  RetryInv'
  BY <1>16, HTTP2Assumption DEF WriteFails, Deliver, Unwind, Goto, admission, TypeOK, StageInv,
    BeforeStream, OnIt, LibraryInv, ReadInv, At, RetryInv, StreamIds
<1>17. ASSUME NEW r \in Requests, WriteCancelled(r)
      PROVE  RetryInv'
  BY <1>17, HTTP2Assumption DEF WriteCancelled, Deliver, Unwind, Goto, conn, admission, TypeOK,
    StageInv, BeforeStream, OnIt, LibraryInv, ReadInv, At, RetryInv, StreamIds
<1>18. ASSUME NEW r \in Requests, BodyRefused(r)
      PROVE  RetryInv'
  BY <1>18, HTTP2Assumption DEF BodyRefused, Unwind, Goto, conn, admission, library, output,
    TypeOK, StageInv, BeforeStream, OnIt, LibraryInv, ReadInv, At, RetryInv, StreamIds
<1>19. ASSUME NEW r \in Requests, TakeLast(r)
      PROVE  RetryInv'
  BY <1>19, HTTP2Assumption DEF TakeLast, Inbox, Unwind, Goto, conn, admission, library, output,
    TypeOK, StageInv, BeforeStream, OnIt, LibraryInv, ReadInv, At, RetryInv, StreamIds
<1>20. ASSUME NEW r \in Requests, Abandon(r)
      PROVE  RetryInv'
  BY <1>20, HTTP2Assumption DEF Abandon, Unwind, Goto, conn, admission, library, output, TypeOK,
    StageInv, BeforeStream, OnIt, LibraryInv, ReadInv, At, RetryInv, StreamIds
<1>21. ASSUME NEW r \in Requests, GoneAway(r)
      PROVE  RetryInv'
  BY <1>21, HTTP2Assumption DEF GoneAway, Unwind, Goto, conn, admission, library, output,
    Unprocessed, TypeOK, StageInv, BeforeStream, OnIt, LibraryInv, ReadInv, At, RetryInv,
    StreamIds
<1>22. ASSUME NEW r \in Requests, ReadRaises(r)
      PROVE  RetryInv'
  BY <1>22, HTTP2Assumption DEF ReadRaises, Unwind, Goto, conn, admission, library, output,
    TypeOK, StageInv, BeforeStream, OnIt, LibraryInv, ReadInv, At, RetryInv, StreamIds
<1>23. ASSUME NEW r \in Requests, ReadFails(r)
      PROVE  RetryInv'
  BY <1>23, HTTP2Assumption DEF ReadFails, Unwind, Goto, library, output, admission, TypeOK,
    StageInv, BeforeStream, OnIt, LibraryInv, ReadInv, At, RetryInv, StreamIds
<1>24. ASSUME NEW r \in Requests, ExchangeCancelled(r)
      PROVE  RetryInv'
  BY <1>24, HTTP2Assumption DEF ExchangeCancelled, Unwind, Goto, conn, admission, library,
    output, TypeOK, StageInv, BeforeStream, OnIt, LibraryInv, ReadInv, At, RetryInv, StreamIds
<1>25. ASSUME NEW r \in Requests, ReceiveEvent(r)
      PROVE  RetryInv'
  BY <1>25, HTTP2Assumption DEF ReceiveEvent, Receives, Dispatch, Goto, conn, admission, output,
    TypeOK, StageInv, BeforeStream, OnIt, LibraryInv, ReadInv, At, RetryInv, StreamIds
<1>26. ASSUME NEW r \in Requests, ReceiveGoAway(r)
      PROVE  RetryInv'
  BY <1>26, HTTP2Assumption DEF ReceiveGoAway, Receives, Goto, admission, library, output,
    TypeOK, StageInv, BeforeStream, OnIt, LibraryInv, ReadInv, At, RetryInv, StreamIds
<1> QED
  BY <1>2, <1>3, <1>4, <1>5, <1>6, <1>7, <1>8, <1>9, <1>10, <1>11, <1>12, <1>13, <1>14, <1>15,
    <1>16, <1>17, <1>18, <1>19, <1>20, <1>21, <1>22, <1>23, <1>24, <1>25, <1>26 DEF Next,
    Progress, Cancel, Receive

-----------------------------------------------------------------------------
(***************************************************************************)
(* The connection is initialised once, by one request.                     *)
(***************************************************************************)
\* While one request sends the preface no other is admitted.
LEMMA InitNext ==
  ASSUME TypeOK, StageInv, InitInv, [Next]_vars
  PROVE  InitInv'
<1>1. CASE UNCHANGED <<ready, deficit, events, pc>>
  BY <1>1 DEF InitInv, At
<1>2. CASE UNCHANGED vars \/ AClose \/ Finished
  BY <1>1, <1>2 DEF AClose, Finished, vars, conn, admission, library, output, task
<1>3. ASSUME NEW r \in Requests, Accept(r)
      PROVE  InitInv'
  BY <1>3, HTTP2Assumption DEF Accept, Goto, admission, library, output, TypeOK, InitInv,
    Unadmitted, At
<1>4. ASSUME NEW r \in Requests, NotAvailable(r)
      PROVE  InitInv'
  BY <1>4, HTTP2Assumption DEF NotAvailable, Raise, Goto, conn, admission, library, output,
    TypeOK, InitInv, Unadmitted, At
<1>5. ASSUME NEW r \in Requests, InitLock(r)
      PROVE  InitInv'
  BY <1>5, HTTP2Assumption DEF InitLock, Goto, conn, admission, library, output, TypeOK,
    InitInv, Unadmitted, At
<1>6. ASSUME NEW r \in Requests, SendInit(r)
      PROVE  InitInv'
  BY <1>6, HTTP2Assumption DEF SendInit, Goto, library, output, TypeOK, InitInv, Unadmitted, At
<1>7. ASSUME NEW r \in Requests, InitFails(r)
      PROVE  InitInv'
  BY <1>7, HTTP2Assumption DEF InitFails, Raise, Goto, admission, library, output, TypeOK,
    InitInv, Unadmitted, At
<1>8. ASSUME NEW r \in Requests, Drain(r)
      PROVE  InitInv'
  BY <1>8, HTTP2Assumption DEF Drain, Goto, conn, library, output, TypeOK, InitInv, Unadmitted,
    At
<1>9. ASSUME NEW r \in Requests, DrainCancelled(r)
      PROVE  InitInv'
  BY <1>9, HTTP2Assumption DEF DrainCancelled, Raise, Goto, conn, library, output, TypeOK,
    InitInv, Unadmitted, At
<1>10. ASSUME NEW r \in Requests, Acquire(r)
      PROVE  InitInv'
  BY <1>10, HTTP2Assumption DEF Acquire, Goto, conn, library, output, TypeOK, InitInv,
    Unadmitted, At
<1>11. ASSUME NEW r \in Requests, WaitCancelled(r)
      PROVE  InitInv'
  BY <1>11, HTTP2Assumption DEF WaitCancelled, Raise, Goto, conn, admission, library, output,
    TypeOK, InitInv, Unadmitted, At
<1>12. ASSUME NEW r \in Requests, Forfeit(r)
      PROVE  InitInv'
  BY <1>12, HTTP2Assumption DEF Forfeit, Goto, conn, library, output, TypeOK, InitInv,
    Unadmitted, At
<1>13. ASSUME NEW r \in Requests, Exhausted(r)
      PROVE  InitInv'
  BY <1>13, HTTP2Assumption DEF Exhausted, Raise, Goto, library, output, TypeOK, InitInv,
    Unadmitted, At
<1>14. ASSUME NEW r \in Requests, Pick(r)
      PROVE  InitInv'
  BY <1>14, HTTP2Assumption DEF Pick, Goto, conn, admission, library, output, TypeOK, InitInv,
    Unadmitted, At
<1>15. ASSUME NEW r \in Requests, SendHeaders(r)
      PROVE  InitInv'
  BY <1>15, HTTP2Assumption DEF SendHeaders, Goto, conn, admission, TypeOK, InitInv, Unadmitted,
    At
<1>16. ASSUME NEW r \in Requests, HeadersRefused(r)
      PROVE  InitInv'
  BY <1>16, HTTP2Assumption DEF HeadersRefused, Unwind, Goto, conn, admission, library, output,
    TypeOK, InitInv, Unadmitted, At
<1>17. ASSUME NEW r \in Requests, Write(r)
      PROVE  InitInv'
  BY <1>17, HTTP2Assumption DEF Write, Goto, conn, admission, library, TypeOK, InitInv,
    Unadmitted, At
<1>18. ASSUME NEW r \in Requests, WriteRaises(r)
      PROVE  InitInv'
  BY <1>18, HTTP2Assumption DEF WriteRaises, Unwind, Goto, conn, admission, library, TypeOK,
    InitInv, Unadmitted, At
<1>19. ASSUME NEW r \in Requests, Written(r)
      PROVE  InitInv'
  BY <1>19, HTTP2Assumption DEF Written, Deliver, Goto, conn, admission, TypeOK, InitInv,
    Unadmitted, At
<1>20. ASSUME NEW r \in Requests, WriteFails(r)
      PROVE  InitInv'
  BY <1>20, HTTP2Assumption DEF WriteFails, Deliver, Unwind, Goto, admission, TypeOK, InitInv,
    Unadmitted, At
<1>21. ASSUME NEW r \in Requests, WriteCancelled(r)
      PROVE  InitInv'
  BY <1>21, HTTP2Assumption DEF WriteCancelled, Deliver, Unwind, Goto, conn, admission, TypeOK,
    InitInv, Unadmitted, At
<1>22. ASSUME NEW r \in Requests, SendBody(r)
      PROVE  InitInv'
  BY <1>22, HTTP2Assumption DEF SendBody, Goto, conn, admission, library, output, TypeOK,
    InitInv, Unadmitted, At
<1>23. ASSUME NEW r \in Requests, BodyRefused(r)
      PROVE  InitInv'
  BY <1>23, HTTP2Assumption DEF BodyRefused, Unwind, Goto, conn, admission, library, output,
    TypeOK, InitInv, Unadmitted, At
<1>24. ASSUME NEW r \in Requests, TakeResponse(r)
      PROVE  InitInv'
  BY <1>24, HTTP2Assumption DEF TakeResponse, Inbox, conn, admission, library, output, TypeOK,
    InitInv, Unadmitted, At
<1>25. ASSUME NEW r \in Requests, TakeLast(r)
      PROVE  InitInv'
  BY <1>25, HTTP2Assumption DEF TakeLast, Inbox, Unwind, Goto, conn, admission, library, output,
    TypeOK, InitInv, Unadmitted, At
<1>26. ASSUME NEW r \in Requests, Abandon(r)
      PROVE  InitInv'
  BY <1>26, HTTP2Assumption DEF Abandon, Unwind, Goto, conn, admission, library, output, TypeOK,
    InitInv, Unadmitted, At
<1>27. ASSUME NEW r \in Requests, AwaitEvent(r)
      PROVE  InitInv'
  BY <1>27, HTTP2Assumption DEF AwaitEvent, Goto, conn, admission, library, output, TypeOK,
    InitInv, Unadmitted, At
<1>28. ASSUME NEW r \in Requests, NoNeedToRead(r)
      PROVE  InitInv'
  BY <1>28, HTTP2Assumption DEF NoNeedToRead, Goto, conn, admission, library, output, TypeOK,
    InitInv, Unadmitted, At
<1>29. ASSUME NEW r \in Requests, GoneAway(r)
      PROVE  InitInv'
  BY <1>29, HTTP2Assumption DEF GoneAway, Unwind, Goto, conn, admission, library, output,
    TypeOK, InitInv, Unadmitted, At
<1>30. ASSUME NEW r \in Requests, ReadRaises(r)
      PROVE  InitInv'
  BY <1>30, HTTP2Assumption DEF ReadRaises, Unwind, Goto, conn, admission, library, output,
    TypeOK, InitInv, Unadmitted, At
<1>31. ASSUME NEW r \in Requests, Read(r)
      PROVE  InitInv'
  BY <1>31, HTTP2Assumption DEF Read, Goto, conn, admission, library, output, TypeOK, InitInv,
    Unadmitted, At
<1>32. ASSUME NEW r \in Requests, ReadFails(r)
      PROVE  InitInv'
  BY <1>32, HTTP2Assumption DEF ReadFails, Unwind, Goto, library, output, admission, TypeOK,
    InitInv, Unadmitted, At
<1>33. ASSUME NEW r \in Requests, ExchangeCancelled(r)
      PROVE  InitInv'
  BY <1>33, HTTP2Assumption DEF ExchangeCancelled, Unwind, Goto, conn, admission, library,
    output, TypeOK, InitInv, Unadmitted, At
<1>34. ASSUME NEW r \in Requests, ReceiveSettings(r)
      PROVE  InitInv'
  BY <1>34, HTTP2Assumption DEF ReceiveSettings, Receives, Goto, conn, output, TypeOK, InitInv,
    Unadmitted, At
<1>35. ASSUME NEW r \in Requests, ReceiveEvent(r)
      PROVE  InitInv'
  BY <1>35, HTTP2Assumption DEF ReceiveEvent, Receives, Dispatch, Goto, conn, admission, output,
    TypeOK, InitInv, Unadmitted, At
<1>36. ASSUME NEW r \in Requests, ReceiveWindow(r)
      PROVE  InitInv'
  BY <1>36, HTTP2Assumption DEF ReceiveWindow, Receives, Goto, conn, admission, output, TypeOK,
    InitInv, Unadmitted, At
<1>37. ASSUME NEW r \in Requests, ReceiveGoAway(r)
      PROVE  InitInv'
  BY <1>37, HTTP2Assumption DEF ReceiveGoAway, Receives, Goto, admission, library, output,
    TypeOK, InitInv, Unadmitted, At
<1>38. ASSUME NEW r \in Requests, CloseStream(r)
      PROVE  InitInv'
  BY <1>38, HTTP2Assumption DEF CloseStream, Goto, library, output, TypeOK, InitInv, Unadmitted,
    At
<1> QED
  BY <1>2, <1>3, <1>4, <1>5, <1>6, <1>7, <1>8, <1>9, <1>10, <1>11, <1>12, <1>13, <1>14, <1>15,
    <1>16, <1>17, <1>18, <1>19, <1>20, <1>21, <1>22, <1>23, <1>24, <1>25, <1>26, <1>27, <1>28,
    <1>29, <1>30, <1>31, <1>32, <1>33, <1>34, <1>35, <1>36, <1>37, <1>38 DEF Next, Progress,
    Cancel, Receive

\* Every stream in _events is that of a request.
LEMMA EventsNext ==
  ASSUME TypeOK, StageInv, EventsInv, [Next]_vars
  PROVE  EventsInv'
<1>1. CASE UNCHANGED <<events, sid>>
  BY <1>1 DEF EventsInv
<1>2. CASE UNCHANGED vars \/ AClose \/ Finished
  BY <1>1, <1>2 DEF AClose, Finished, vars, conn, admission, library, output, task
<1>3. ASSUME NEW r \in Requests,
             Accept(r) \/ NotAvailable(r) \/ InitLock(r) \/ SendInit(r) \/ InitFails(r)
      PROVE  EventsInv'
  BY <1>1, <1>3 DEF Accept, NotAvailable, InitLock, SendInit, InitFails, Goto, admission,
    library, output, Raise, conn
<1>4. ASSUME NEW r \in Requests,
             Drain(r) \/ DrainCancelled(r) \/ Acquire(r) \/ WaitCancelled(r) \/ Forfeit(r)
             \/ Exhausted(r)
      PROVE  EventsInv'
  BY <1>1, <1>4 DEF Drain, DrainCancelled, Acquire, WaitCancelled, Forfeit, Exhausted, Goto,
    conn, library, output, Raise, admission
<1>5. ASSUME NEW r \in Requests, SendHeaders(r) \/ HeadersRefused(r)
      PROVE  EventsInv'
  BY <1>1, <1>5 DEF SendHeaders, HeadersRefused, Goto, conn, admission, Unwind, library, output
<1>6. ASSUME NEW r \in Requests,
             Write(r) \/ WriteRaises(r) \/ Written(r) \/ WriteFails(r) \/
             WriteCancelled(r)
      PROVE  EventsInv'
  BY <1>1, <1>6 DEF Write, WriteRaises, Written, WriteFails, WriteCancelled, Goto, conn,
    admission, library, Unwind, Deliver
<1>7. ASSUME NEW r \in Requests,
             SendBody(r) \/ BodyRefused(r) \/ Abandon(r) \/ AwaitEvent(r) \/
             NoNeedToRead(r)
      PROVE  EventsInv'
  BY <1>1, <1>7 DEF SendBody, BodyRefused, Abandon, AwaitEvent, NoNeedToRead, Goto, conn,
    admission, library, output, Unwind
<1>8. ASSUME NEW r \in Requests,
             GoneAway(r) \/ ReadRaises(r) \/ Read(r) \/ ReadFails(r) \/
             ExchangeCancelled(r)
      PROVE  EventsInv'
  BY <1>1, <1>8 DEF GoneAway, ReadRaises, Read, ReadFails, ExchangeCancelled, Unwind, Goto,
    conn, admission, library, output
<1>9. ASSUME NEW r \in Requests, ReceiveSettings(r) \/ ReceiveWindow(r) \/ ReceiveGoAway(r)
      PROVE  EventsInv'
  BY <1>1, <1>9 DEF ReceiveSettings, ReceiveWindow, ReceiveGoAway, Receives, Goto, conn, output,
    admission, library
<1>10. ASSUME NEW r \in Requests, Pick(r)
      PROVE  EventsInv'
  <2>1. sid'[r] = opened + 1 /\ DOMAIN events' = DOMAIN events \cup {opened + 1}
    BY <1>10 DEF Pick, TypeOK
  <2>2. \A q \in Requests \ {r} : sid'[q] = sid[q]
    BY <1>10 DEF Pick, TypeOK
  <2>3. \A s \in DOMAIN events : sid[r] # s
    BY <1>10, HTTP2Assumption DEF Pick, StageInv, BeforeStream, TypeOK, StreamIds
  <2> QED
    BY <2>1, <2>2, <2>3 DEF EventsInv
<1>11. ASSUME NEW r \in Requests, TakeResponse(r)
      PROVE  EventsInv'
  BY <1>11, HTTP2Assumption DEF TakeResponse, Inbox, conn, admission, library, output, TypeOK,
    StageInv, BeforeStream, EventsInv
<1>12. ASSUME NEW r \in Requests, TakeLast(r)
      PROVE  EventsInv'
  BY <1>12, HTTP2Assumption DEF TakeLast, Inbox, Unwind, Goto, conn, admission, library, output,
    TypeOK, StageInv, BeforeStream, EventsInv
<1>13. ASSUME NEW r \in Requests, ReceiveEvent(r)
      PROVE  EventsInv'
  BY <1>13, HTTP2Assumption DEF ReceiveEvent, Receives, Dispatch, Goto, conn, admission, output,
    TypeOK, StageInv, BeforeStream, EventsInv
<1>14. ASSUME NEW r \in Requests, CloseStream(r)
      PROVE  EventsInv'
  BY <1>14, HTTP2Assumption DEF CloseStream, Goto, library, output, TypeOK, StageInv,
    BeforeStream, EventsInv
<1> QED
  BY <1>2, <1>3, <1>4, <1>5, <1>6, <1>7, <1>8, <1>9, <1>10, <1>11, <1>12, <1>13, <1>14 DEF Next,
    Progress, Cancel, Receive

-----------------------------------------------------------------------------
(***************************************************************************)
(* Streams.                                                                *)
(***************************************************************************)
\* A stream id is used before h2 is asked for another one.
LEMMA PickNext ==
  ASSUME ~Yields, TypeOK, StageInv, PickInv, [Next]_vars
  PROVE  PickInv'
<1>1. CASE UNCHANGED <<opened, pc, sid>>
  BY <1>1 DEF PickInv, At, StreamsDistinct, OnStream
<1>2. CASE UNCHANGED vars \/ AClose \/ Finished
  BY <1>1, <1>2 DEF AClose, Finished, vars, conn, admission, library, output, task
<1>3. ASSUME NEW r \in Requests, TakeResponse(r)
      PROVE  PickInv'
  BY <1>1, <1>3 DEF TakeResponse, Inbox, conn, admission, library, output
<1>4. ASSUME NEW r \in Requests, Accept(r)
      PROVE  PickInv'
  BY <1>4, HTTP2Assumption DEF Accept, Goto, admission, library, output, MayRun, TypeOK,
    StageInv, Working, OnIt, BeforeStream, Stages, StreamIds, PickInv, At, StreamsDistinct,
    OnStream
<1>5. ASSUME NEW r \in Requests, NotAvailable(r)
      PROVE  PickInv'
  BY <1>5, HTTP2Assumption DEF NotAvailable, Raise, Goto, conn, admission, library, output,
    MayRun, TypeOK, StageInv, Working, OnIt, BeforeStream, Stages, StreamIds, PickInv, At,
    StreamsDistinct, OnStream
<1>6. ASSUME NEW r \in Requests, InitLock(r)
      PROVE  PickInv'
  BY <1>6, HTTP2Assumption DEF InitLock, Goto, conn, admission, library, output, MayRun, TypeOK,
    StageInv, Working, OnIt, BeforeStream, Stages, StreamIds, PickInv, At, StreamsDistinct,
    OnStream
<1>7. ASSUME NEW r \in Requests, SendInit(r)
      PROVE  PickInv'
  BY <1>7, HTTP2Assumption DEF SendInit, Goto, library, output, MayRun, TypeOK, StageInv,
    Working, OnIt, BeforeStream, Stages, StreamIds, PickInv, At, StreamsDistinct, OnStream
<1>8. ASSUME NEW r \in Requests, InitFails(r)
      PROVE  PickInv'
  BY <1>8, HTTP2Assumption DEF InitFails, Raise, Goto, admission, library, output, MayRun,
    TypeOK, StageInv, Working, OnIt, BeforeStream, Stages, StreamIds, PickInv, At,
    StreamsDistinct, OnStream
<1>9. ASSUME NEW r \in Requests, Drain(r)
      PROVE  PickInv'
  BY <1>9, HTTP2Assumption DEF Drain, Goto, conn, library, output, MayRun, TypeOK, StageInv,
    Working, OnIt, BeforeStream, Stages, StreamIds, PickInv, At, StreamsDistinct, OnStream
<1>10. ASSUME NEW r \in Requests, DrainCancelled(r)
      PROVE  PickInv'
  BY <1>10, HTTP2Assumption DEF DrainCancelled, Raise, Goto, conn, library, output, MayRun,
    TypeOK, StageInv, Working, OnIt, BeforeStream, Stages, StreamIds, PickInv, At,
    StreamsDistinct, OnStream
<1>11. ASSUME NEW r \in Requests, Acquire(r)
      PROVE  PickInv'
  BY <1>11, HTTP2Assumption DEF Acquire, Goto, conn, library, output, MayRun, TypeOK, StageInv,
    Working, OnIt, BeforeStream, Stages, StreamIds, PickInv, At, StreamsDistinct, OnStream
<1>12. ASSUME NEW r \in Requests, WaitCancelled(r)
      PROVE  PickInv'
  BY <1>12, HTTP2Assumption DEF WaitCancelled, Raise, Goto, conn, admission, library, output,
    MayRun, TypeOK, StageInv, Working, OnIt, BeforeStream, Stages, StreamIds, PickInv, At,
    StreamsDistinct, OnStream
<1>13. ASSUME NEW r \in Requests, Forfeit(r)
      PROVE  PickInv'
  BY <1>13, HTTP2Assumption DEF Forfeit, Goto, conn, library, output, MayRun, TypeOK, StageInv,
    Working, OnIt, BeforeStream, Stages, StreamIds, PickInv, At, StreamsDistinct, OnStream
<1>14. ASSUME NEW r \in Requests, Exhausted(r)
      PROVE  PickInv'
  BY <1>14, HTTP2Assumption DEF Exhausted, Raise, Goto, library, output, MayRun, TypeOK,
    StageInv, Working, OnIt, BeforeStream, Stages, StreamIds, PickInv, At, StreamsDistinct,
    OnStream
<1>15. ASSUME NEW r \in Requests, Pick(r)
      PROVE  PickInv'
  BY <1>15, HTTP2Assumption DEF Pick, Goto, conn, admission, library, output, MayRun, TypeOK,
    StageInv, Working, OnIt, BeforeStream, Stages, StreamIds, PickInv, At, StreamsDistinct,
    OnStream
<1>16. ASSUME NEW r \in Requests, SendHeaders(r)
      PROVE  PickInv'
  BY <1>16, HTTP2Assumption DEF SendHeaders, Goto, conn, admission, MayRun, TypeOK, StageInv,
    Working, OnIt, BeforeStream, Stages, StreamIds, PickInv, At, StreamsDistinct, OnStream
<1>17. ASSUME NEW r \in Requests, HeadersRefused(r)
      PROVE  PickInv'
  BY <1>17, HTTP2Assumption DEF HeadersRefused, Unwind, Goto, conn, admission, library, output,
    MayRun, TypeOK, StageInv, Working, OnIt, BeforeStream, Stages, StreamIds, PickInv, At,
    StreamsDistinct, OnStream
<1>18. ASSUME NEW r \in Requests, Write(r)
      PROVE  PickInv'
  BY <1>18, HTTP2Assumption DEF Write, Goto, conn, admission, library, MayRun, TypeOK, StageInv,
    Working, OnIt, BeforeStream, Stages, StreamIds, PickInv, At, StreamsDistinct, OnStream
<1>19. ASSUME NEW r \in Requests, WriteRaises(r)
      PROVE  PickInv'
  BY <1>19, HTTP2Assumption DEF WriteRaises, Unwind, Goto, conn, admission, library, MayRun,
    TypeOK, StageInv, Working, OnIt, BeforeStream, Stages, StreamIds, PickInv, At,
    StreamsDistinct, OnStream
<1>20. ASSUME NEW r \in Requests, Written(r)
      PROVE  PickInv'
  BY <1>20, HTTP2Assumption DEF Written, Deliver, Goto, conn, admission, MayRun, TypeOK,
    StageInv, Working, OnIt, BeforeStream, Stages, StreamIds, PickInv, At, StreamsDistinct,
    OnStream
<1>21. ASSUME NEW r \in Requests, WriteFails(r)
      PROVE  PickInv'
  BY <1>21, HTTP2Assumption DEF WriteFails, Deliver, Unwind, Goto, admission, MayRun, TypeOK,
    StageInv, Working, OnIt, BeforeStream, Stages, StreamIds, PickInv, At, StreamsDistinct,
    OnStream
<1>22. ASSUME NEW r \in Requests, WriteCancelled(r)
      PROVE  PickInv'
  BY <1>22, HTTP2Assumption DEF WriteCancelled, Deliver, Unwind, Goto, conn, admission, MayRun,
    TypeOK, StageInv, Working, OnIt, BeforeStream, Stages, StreamIds, PickInv, At,
    StreamsDistinct, OnStream
<1>23. ASSUME NEW r \in Requests, SendBody(r)
      PROVE  PickInv'
  BY <1>23, HTTP2Assumption DEF SendBody, Goto, conn, admission, library, output, MayRun,
    TypeOK, StageInv, Working, OnIt, BeforeStream, Stages, StreamIds, PickInv, At,
    StreamsDistinct, OnStream
<1>24. ASSUME NEW r \in Requests, BodyRefused(r)
      PROVE  PickInv'
  BY <1>24, HTTP2Assumption DEF BodyRefused, Unwind, Goto, conn, admission, library, output,
    MayRun, TypeOK, StageInv, Working, OnIt, BeforeStream, Stages, StreamIds, PickInv, At,
    StreamsDistinct, OnStream
<1>25. ASSUME NEW r \in Requests, TakeLast(r)
      PROVE  PickInv'
  BY <1>25, HTTP2Assumption DEF TakeLast, Inbox, Unwind, Goto, conn, admission, library, output,
    MayRun, TypeOK, StageInv, Working, OnIt, BeforeStream, Stages, StreamIds, PickInv, At,
    StreamsDistinct, OnStream
<1>26. ASSUME NEW r \in Requests, Abandon(r)
      PROVE  PickInv'
  BY <1>26, HTTP2Assumption DEF Abandon, Unwind, Goto, conn, admission, library, output, MayRun,
    TypeOK, StageInv, Working, OnIt, BeforeStream, Stages, StreamIds, PickInv, At,
    StreamsDistinct, OnStream
<1>27. ASSUME NEW r \in Requests, AwaitEvent(r)
      PROVE  PickInv'
  BY <1>27, HTTP2Assumption DEF AwaitEvent, Goto, conn, admission, library, output, MayRun,
    TypeOK, StageInv, Working, OnIt, BeforeStream, Stages, StreamIds, PickInv, At,
    StreamsDistinct, OnStream
<1>28. ASSUME NEW r \in Requests, NoNeedToRead(r)
      PROVE  PickInv'
  BY <1>28, HTTP2Assumption DEF NoNeedToRead, Goto, conn, admission, library, output, MayRun,
    TypeOK, StageInv, Working, OnIt, BeforeStream, Stages, StreamIds, PickInv, At,
    StreamsDistinct, OnStream
<1>29. ASSUME NEW r \in Requests, GoneAway(r)
      PROVE  PickInv'
  BY <1>29, HTTP2Assumption DEF GoneAway, Unwind, Goto, conn, admission, library, output,
    MayRun, TypeOK, StageInv, Working, OnIt, BeforeStream, Stages, StreamIds, PickInv, At,
    StreamsDistinct, OnStream
<1>30. ASSUME NEW r \in Requests, ReadRaises(r)
      PROVE  PickInv'
  BY <1>30, HTTP2Assumption DEF ReadRaises, Unwind, Goto, conn, admission, library, output,
    MayRun, TypeOK, StageInv, Working, OnIt, BeforeStream, Stages, StreamIds, PickInv, At,
    StreamsDistinct, OnStream
<1>31. ASSUME NEW r \in Requests, Read(r)
      PROVE  PickInv'
  BY <1>31, HTTP2Assumption DEF Read, Goto, conn, admission, library, output, MayRun, TypeOK,
    StageInv, Working, OnIt, BeforeStream, Stages, StreamIds, PickInv, At, StreamsDistinct,
    OnStream
<1>32. ASSUME NEW r \in Requests, ReadFails(r)
      PROVE  PickInv'
  BY <1>32, HTTP2Assumption DEF ReadFails, Unwind, Goto, library, output, admission, MayRun,
    TypeOK, StageInv, Working, OnIt, BeforeStream, Stages, StreamIds, PickInv, At,
    StreamsDistinct, OnStream
<1>33. ASSUME NEW r \in Requests, ExchangeCancelled(r)
      PROVE  PickInv'
  BY <1>33, HTTP2Assumption DEF ExchangeCancelled, Unwind, Goto, conn, admission, library,
    output, MayRun, TypeOK, StageInv, Working, OnIt, BeforeStream, Stages, StreamIds, PickInv,
    At, StreamsDistinct, OnStream
<1>34. ASSUME NEW r \in Requests, ReceiveSettings(r)
      PROVE  PickInv'
  BY <1>34, HTTP2Assumption DEF ReceiveSettings, Receives, Goto, conn, output, MayRun, TypeOK,
    StageInv, Working, OnIt, BeforeStream, Stages, StreamIds, PickInv, At, StreamsDistinct,
    OnStream
<1>35. ASSUME NEW r \in Requests, ReceiveEvent(r)
      PROVE  PickInv'
  BY <1>35, HTTP2Assumption DEF ReceiveEvent, Receives, Dispatch, Goto, conn, admission, output,
    MayRun, TypeOK, StageInv, Working, OnIt, BeforeStream, Stages, StreamIds, PickInv, At,
    StreamsDistinct, OnStream
<1>36. ASSUME NEW r \in Requests, ReceiveWindow(r)
      PROVE  PickInv'
  BY <1>36, HTTP2Assumption DEF ReceiveWindow, Receives, Goto, conn, admission, output, MayRun,
    TypeOK, StageInv, Working, OnIt, BeforeStream, Stages, StreamIds, PickInv, At,
    StreamsDistinct, OnStream
<1>37. ASSUME NEW r \in Requests, ReceiveGoAway(r)
      PROVE  PickInv'
  BY <1>37, HTTP2Assumption DEF ReceiveGoAway, Receives, Goto, admission, library, output,
    MayRun, TypeOK, StageInv, Working, OnIt, BeforeStream, Stages, StreamIds, PickInv, At,
    StreamsDistinct, OnStream
<1>38. ASSUME NEW r \in Requests, CloseStream(r)
      PROVE  PickInv'
  BY <1>38, HTTP2Assumption DEF CloseStream, Goto, library, output, MayRun, TypeOK, StageInv,
    Working, OnIt, BeforeStream, Stages, StreamIds, PickInv, At, StreamsDistinct, OnStream
<1> QED
  BY <1>2, <1>3, <1>4, <1>5, <1>6, <1>7, <1>8, <1>9, <1>10, <1>11, <1>12, <1>13, <1>14, <1>15,
    <1>16, <1>17, <1>18, <1>19, <1>20, <1>21, <1>22, <1>23, <1>24, <1>25, <1>26, <1>27, <1>28,
    <1>29, <1>30, <1>31, <1>32, <1>33, <1>34, <1>35, <1>36, <1>37, <1>38 DEF Next, Progress,
    Cancel, Receive

-----------------------------------------------------------------------------
(***************************************************************************)
(* Permits.                                                                *)
(***************************************************************************)
\* The requests that hold a permit, and the streams, can be counted.
LEMMA CountedSets ==
  ASSUME TypeOK
  PROVE  /\ IsFiniteSet(At("granted")) /\ Cardinality(At("granted")) \in Nat
         /\ IsFiniteSet(DOMAIN events) /\ Cardinality(DOMAIN events) \in Nat
<1>1. IsFiniteSet(Requests) /\ IsFiniteSet(StreamIds)
  BY HTTP2Assumption, FS_Interval DEF StreamIds
<1>2. At("granted") \subseteq Requests /\ DOMAIN events \subseteq StreamIds
  BY DEF At, TypeOK
<1> QED
  BY <1>1, <1>2, FS_Subset, FS_CardinalityType

\* One more stream in _events.
LEMMA OneMoreStream ==
  ASSUME TypeOK, NEW s
  PROVE  /\ Cardinality(DOMAIN events \cup {s}) \in Nat
         /\ Cardinality(DOMAIN events \cup {s}) <= Cardinality(DOMAIN events) + 1
         /\ s \notin DOMAIN events
              => Cardinality(DOMAIN events \cup {s}) = Cardinality(DOMAIN events) + 1
<1>1. CASE s \in DOMAIN events
  <2>1. DOMAIN events \cup {s} = DOMAIN events
    BY <1>1
  <2> QED
    BY <1>1, <2>1, CountedSets
<1>2. CASE s \notin DOMAIN events
  <2>1. Cardinality(DOMAIN events \cup {s}) = Cardinality(DOMAIN events) + 1
    BY <1>2, CountedSets, FS_AddElement
  <2> QED
    BY <2>1, CountedSets
<1> QED
  BY <1>1, <1>2

\* A step that leaves alone what is counted, the permits and the limit.
LEMMA PermitsFrame ==
  ASSUME PermitsConserved, UNCHANGED <<ready, limit, deficit, permits, sid>>,
         At("drain") \subseteq At("drain")', At("granted")' = At("granted"),
         DOMAIN events' = DOMAIN events
  PROVE  PermitsConserved'
BY DEF PermitsConserved

\* A step that moves permits between the places where they are counted, with
\* the limit and the deficit.
LEMMA PermitsBalance ==
  ASSUME TypeOK, PermitsConserved, UNCHANGED <<ready, sid>>, At("drain") = At("drain")',
         limit' \in Nat, deficit' \in Nat, permits' \in Nat,
         Cardinality(At("granted")') \in Nat, Cardinality(DOMAIN events') \in Nat,
         permits' + Cardinality(At("granted")') + Cardinality(DOMAIN events')
           + limit + deficit
         = permits + Cardinality(At("granted")) + Cardinality(DOMAIN events)
             + limit' + deficit',
         (deficit > 0 => permits = 0) => (deficit' > 0 => permits' = 0)
  PROVE  PermitsConserved'
<1>1. limit \in Nat /\ deficit \in Nat /\ permits \in Nat
  BY HTTP2Assumption DEF TypeOK
<1> SUFFICES ASSUME ready, At("drain") = {}
             PROVE  PermitsConserved'
  BY DEF PermitsConserved
<1>2. (deficit > 0 => permits = 0)
  BY DEF PermitsConserved
<1>3. permits + Cardinality(At("granted")) + Cardinality(DOMAIN events) <= limit + deficit
  BY DEF PermitsConserved
<1>4. permits' + Cardinality(At("granted")') + Cardinality(DOMAIN events') <= limit' + deficit'
  BY <1>1, <1>3, CountedSets
<1>5. ASSUME permits + Cardinality(At("granted")) + Cardinality(DOMAIN events)
               = limit + deficit
      PROVE  permits' + Cardinality(At("granted")') + Cardinality(DOMAIN events')
               = limit' + deficit'
  BY <1>1, <1>5, CountedSets
<1> QED
  BY <1>2, <1>4, <1>5 DEF PermitsConserved

\* The limit rises by what is paid of the deficit and what is released.
LEMMA RaisedBalance ==
  ASSUME limit \in Nat, deficit \in Nat, permits \in Nat,
         NEW n \in Nat, n >= limit, limit' = n, Raised(n)
  PROVE  /\ deficit' \in Nat /\ permits' \in Nat
         /\ permits' + limit + deficit = permits + limit' + deficit'
         /\ (deficit > 0 => permits = 0) => (deficit' > 0 => permits' = 0)
<1>1. CASE deficit < n - limit
  BY <1>1 DEF Raised, Smaller
<1>2. CASE deficit >= n - limit
  BY <1>2 DEF Raised, Smaller
<1> QED
  BY <1>1, <1>2

\* The limit drops by what is taken of the permits and what is owed.
LEMMA LoweredBalance ==
  ASSUME limit \in Nat, deficit \in Nat, permits \in Nat,
         NEW n \in Nat, n < limit, limit' = n, Lowered(n)
  PROVE  /\ deficit' \in Nat /\ permits' \in Nat
         /\ permits' + limit + deficit = permits + limit' + deficit'
         /\ (deficit > 0 => permits = 0) => (deficit' > 0 => permits' = 0)
<1>1. CASE permits < limit - n
  BY <1>1 DEF Lowered, Smaller
<1>2. CASE permits >= limit - n
  BY <1>2 DEF Lowered, Smaller
<1> QED
  BY <1>1, <1>2

\* The permit of a closed stream is released, or pays for the deficit.
LEMMA ReleaseBalance ==
  ASSUME deficit \in Nat, permits \in Nat, Release
  PROVE  /\ deficit' \in Nat /\ permits' \in Nat
         /\ permits' + deficit = permits + deficit' + 1
         /\ (deficit > 0 => permits = 0) => (deficit' > 0 => permits' = 0)
BY DEF Release

\* A permit in hand means that the connection is initialised.
LEMMA GrantedReady ==
  ASSUME TypeOK, InitInv, NEW r \in Requests, pc[r] = "granted"
  PROVE  ready /\ At("drain") = {}
BY DEF InitInv, Unadmitted, At, TypeOK

\* Permits are conserved by every step, whatever the server does to the limit.
LEMMA PermitsNext ==
  ASSUME ~Checkpoints, TypeOK, StageInv, InitInv, EventsInv, PermitsConserved, [Next]_vars
  PROVE  PermitsConserved'
<1>1. CASE UNCHANGED <<ready, limit, deficit, permits, events, pc, sid>>
  BY <1>1 DEF PermitsConserved, At
<1>2. CASE UNCHANGED vars \/ AClose \/ Finished
  BY <1>1, <1>2 DEF AClose, Finished, vars, conn, admission, library, output, task
<1>3. ASSUME NEW r \in Requests, Accept(r)
      PROVE  PermitsConserved'
  BY <1>3, PermitsFrame DEF Accept, Goto, admission, library, output, TypeOK, At
<1>4. ASSUME NEW r \in Requests, NotAvailable(r)
      PROVE  PermitsConserved'
  BY <1>4, PermitsFrame DEF NotAvailable, Raise, Goto, conn, admission, library, output, TypeOK,
    At
<1>5. ASSUME NEW r \in Requests, InitLock(r)
      PROVE  PermitsConserved'
  BY <1>5, PermitsFrame DEF InitLock, Goto, conn, admission, library, output, TypeOK, At
<1>6. ASSUME NEW r \in Requests, InitFails(r)
      PROVE  PermitsConserved'
  BY <1>6, PermitsFrame DEF InitFails, Raise, Goto, admission, library, output, TypeOK, At
<1>7. ASSUME NEW r \in Requests, WaitCancelled(r)
      PROVE  PermitsConserved'
  BY <1>7, PermitsFrame DEF WaitCancelled, Raise, Goto, conn, admission, library, output,
    TypeOK, At
<1>8. ASSUME NEW r \in Requests, SendInit(r)
      PROVE  PermitsConserved'
  <2>1. r \in At("drain")'
    BY <1>8 DEF SendInit, Goto, At, TypeOK
  <2> QED
    BY <2>1 DEF PermitsConserved
<1>9. ASSUME NEW r \in Requests, Drain(r)
      PROVE  PermitsConserved'
  <2>1. At("granted")' = {}
    BY <1>9 DEF Drain, Goto, InitInv, Unadmitted, At, TypeOK
  <2>2. deficit' = 0 /\ permits' = limit'
    BY <1>9 DEF Drain, InitInv
  <2>3. DOMAIN events' = {}
    BY <1>9 DEF Drain, InitInv, At
  <2>4. Cardinality(At("granted")') = 0 /\ Cardinality(DOMAIN events') = 0
    BY <2>1, <2>3, FS_EmptySet
  <2>5. limit' \in Nat
    BY <1>9, HTTP2Assumption DEF Drain, TypeOK
  <2> QED
    BY <2>2, <2>4, <2>5 DEF PermitsConserved
<1>10. ASSUME NEW r \in Requests, DrainCancelled(r)
      PROVE  PermitsConserved'
  BY <1>10 DEF DrainCancelled
<1>11. ASSUME NEW r \in Requests, Acquire(r)
      PROVE  PermitsConserved'
  <2>1. At("granted")' = At("granted") \cup {r} /\ r \notin At("granted")
    BY <1>11 DEF Acquire, Goto, At, TypeOK
  <2>2. Cardinality(At("granted")') = Cardinality(At("granted")) + 1
    BY <2>1, CountedSets, FS_AddElement
  <2>3. ready' = ready /\ At("drain")' = At("drain")
    BY <1>11 DEF Acquire, Goto, At, conn, TypeOK
  <2>4. permits > 0 /\ permits' = permits - 1 /\ UNCHANGED <<limit, deficit, events, sid>>
    BY <1>11 DEF Acquire
  <2>5. limit \in Nat /\ deficit \in Nat /\ permits \in Nat
    BY HTTP2Assumption DEF TypeOK
  <2> QED
    BY <2>2, <2>3, <2>4, <2>5, CountedSets, PermitsBalance
<1>12. ASSUME NEW r \in Requests, Forfeit(r)
      PROVE  PermitsConserved'
  <2>1. At("granted")' = At("granted") \ {r} /\ r \in At("granted")
    BY <1>12 DEF Forfeit, Goto, At, TypeOK
  <2>2. /\ Cardinality(At("granted")') = Cardinality(At("granted")) - 1
        /\ Cardinality(At("granted")') \in Nat
    BY <2>1, CountedSets, FS_RemoveElement, FS_CardinalityType
  <2>3. ready' = ready /\ At("drain")' = At("drain")
    BY <1>12 DEF Forfeit, Goto, At, conn, TypeOK
  <2>4. deficit > 0 /\ deficit' = deficit - 1 /\ UNCHANGED <<limit, permits, events, sid>>
    BY <1>12 DEF Forfeit
  <2>5. limit \in Nat /\ deficit \in Nat /\ permits \in Nat
    BY HTTP2Assumption DEF TypeOK
  <2> QED
    BY <2>2, <2>3, <2>4, <2>5, CountedSets, PermitsBalance
<1>13. ASSUME NEW r \in Requests, Exhausted(r)
      PROVE  PermitsConserved'
  <2>1. At("granted")' = At("granted") \ {r} /\ r \in At("granted")
    BY <1>13 DEF Exhausted, Raise, Goto, At, TypeOK
  <2>2. /\ Cardinality(At("granted")') = Cardinality(At("granted")) - 1
        /\ Cardinality(At("granted")') \in Nat
    BY <2>1, CountedSets, FS_RemoveElement, FS_CardinalityType
  <2>3. ready' = ready /\ At("drain")' = At("drain")
    BY <1>13 DEF Exhausted, Raise, Goto, At, conn, TypeOK
  <2>4. /\ deficit = 0 /\ permits' = permits + 1
        /\ UNCHANGED <<limit, deficit, events, sid>>
    BY <1>13 DEF Exhausted, Usable
  <2>5. limit \in Nat /\ deficit \in Nat /\ permits \in Nat
    BY HTTP2Assumption DEF TypeOK
  <2> QED
    BY <2>2, <2>3, <2>4, <2>5, CountedSets, PermitsBalance
<1>14. ASSUME NEW r \in Requests, SendHeaders(r)
      PROVE  PermitsConserved'
  BY <1>14, PermitsFrame DEF SendHeaders, Goto, conn, admission, TypeOK, At
<1>15. ASSUME NEW r \in Requests, HeadersRefused(r)
      PROVE  PermitsConserved'
  BY <1>15, PermitsFrame DEF HeadersRefused, Unwind, Goto, conn, admission, library, output,
    TypeOK, At
<1>16. ASSUME NEW r \in Requests, Pick(r)
      PROVE  PermitsConserved'
  <2>1. At("granted")' = At("granted") \ {r} /\ r \in At("granted")
    BY <1>16 DEF Pick, Goto, At, TypeOK
  <2>2. /\ Cardinality(At("granted")') = Cardinality(At("granted")) - 1
        /\ Cardinality(At("granted")') \in Nat
    BY <2>1, CountedSets, FS_RemoveElement, FS_CardinalityType
  <2> DEFINE streams == DOMAIN events
             distinct == \A p, q \in Requests : sid[p] = sid[q] /\ sid[p] # None => p = q
  <2>3. ready /\ At("drain") = {}
    BY <1>16, GrantedReady DEF Pick
  <2>4. /\ deficit = 0 /\ UNCHANGED <<limit, deficit, permits>>
        /\ sid' = [sid EXCEPT ![r] = opened + 1]
        /\ DOMAIN events' = streams \cup {opened + 1}
    BY <1>16 DEF Pick, Usable, admission
  <2>5. sid[r] = None /\ opened + 1 \in Nat /\ opened + 1 # None
    BY <1>16, HTTP2Assumption DEF Pick, StageInv, BeforeStream, TypeOK
  <2>6. distinct' => distinct
    BY <2>4, <2>5, HTTP2Assumption DEF TypeOK
  <2>7. distinct' => opened + 1 \notin streams
    <3> SUFFICES ASSUME distinct', opened + 1 \in streams PROVE FALSE
      OBVIOUS
    <3>1. PICK q \in Requests : sid[q] = opened + 1
      BY DEF EventsInv
    <3>2. q # r
      BY <3>1, <2>5
    <3>3. sid'[q] = opened + 1 /\ sid'[r] = opened + 1
      BY <3>1, <3>2, <2>4 DEF TypeOK
    <3> QED
      BY <3>2, <3>3, <2>5
  <2>8. /\ Cardinality(DOMAIN events') \in Nat
        /\ Cardinality(DOMAIN events') <= Cardinality(streams) + 1
        /\ distinct' => Cardinality(DOMAIN events') = Cardinality(streams) + 1
    BY <2>4, <2>7, OneMoreStream
  <2>9. /\ permits + Cardinality(At("granted")) + Cardinality(streams) <= limit + deficit
        /\ distinct => permits + Cardinality(At("granted")) + Cardinality(streams)
                         = limit + deficit
    BY <2>3 DEF PermitsConserved
  <2>10. /\ permits' + Cardinality(At("granted")') + Cardinality(DOMAIN events')
              <= limit' + deficit'
         /\ distinct' => permits' + Cardinality(At("granted")') + Cardinality(DOMAIN events')
                           = limit' + deficit'
    <3> HIDE DEF distinct
    <3>1. limit \in Nat /\ permits \in Nat /\ limit' = limit /\ permits' = permits
          /\ deficit = 0 /\ deficit' = 0
      BY <2>4, HTTP2Assumption DEF TypeOK
    <3>2. permits' + Cardinality(At("granted")') + Cardinality(DOMAIN events')
            <= limit' + deficit'
      BY <2>2, <2>8, <2>9, <3>1, CountedSets
    <3>3. ASSUME distinct'
          PROVE  permits' + Cardinality(At("granted")') + Cardinality(DOMAIN events')
                   = limit' + deficit'
      BY <2>2, <2>6, <2>8, <2>9, <3>1, <3>3, CountedSets
    <3> QED
      BY <3>2, <3>3
  <2> QED
    BY <2>4, <2>10 DEF PermitsConserved
<1>17. ASSUME NEW r \in Requests, Write(r)
      PROVE  PermitsConserved'
  BY <1>17, PermitsFrame DEF Write, Goto, conn, admission, library, TypeOK, At
<1>18. ASSUME NEW r \in Requests, WriteRaises(r)
      PROVE  PermitsConserved'
  BY <1>18, PermitsFrame DEF WriteRaises, Unwind, Goto, conn, admission, library, TypeOK, At
<1>19. ASSUME NEW r \in Requests, Written(r)
      PROVE  PermitsConserved'
  BY <1>19, PermitsFrame DEF Written, Deliver, Goto, conn, admission, TypeOK, At
<1>20. ASSUME NEW r \in Requests, WriteFails(r)
      PROVE  PermitsConserved'
  BY <1>20, PermitsFrame DEF WriteFails, Deliver, Unwind, Goto, admission, TypeOK, At
<1>21. ASSUME NEW r \in Requests, WriteCancelled(r)
      PROVE  PermitsConserved'
  BY <1>21, PermitsFrame DEF WriteCancelled, Deliver, Unwind, Goto, conn, admission, TypeOK, At
<1>22. ASSUME NEW r \in Requests, SendBody(r)
      PROVE  PermitsConserved'
  BY <1>22, PermitsFrame DEF SendBody, Goto, conn, admission, library, output, TypeOK, At
<1>23. ASSUME NEW r \in Requests, BodyRefused(r)
      PROVE  PermitsConserved'
  BY <1>23, PermitsFrame DEF BodyRefused, Unwind, Goto, conn, admission, library, output,
    TypeOK, At
<1>24. ASSUME NEW r \in Requests, TakeResponse(r)
      PROVE  PermitsConserved'
  BY <1>24, PermitsFrame DEF TakeResponse, Inbox, conn, admission, library, output, TypeOK, At
<1>25. ASSUME NEW r \in Requests, TakeLast(r)
      PROVE  PermitsConserved'
  BY <1>25, PermitsFrame DEF TakeLast, Inbox, Unwind, Goto, conn, admission, library, output,
    TypeOK, At
<1>26. ASSUME NEW r \in Requests, Abandon(r)
      PROVE  PermitsConserved'
  BY <1>26, PermitsFrame DEF Abandon, Unwind, Goto, conn, admission, library, output, TypeOK, At
<1>27. ASSUME NEW r \in Requests, AwaitEvent(r)
      PROVE  PermitsConserved'
  BY <1>27, PermitsFrame DEF AwaitEvent, Goto, conn, admission, library, output, TypeOK, At
<1>28. ASSUME NEW r \in Requests, NoNeedToRead(r)
      PROVE  PermitsConserved'
  BY <1>28, PermitsFrame DEF NoNeedToRead, Goto, conn, admission, library, output, TypeOK, At
<1>29. ASSUME NEW r \in Requests, GoneAway(r)
      PROVE  PermitsConserved'
  BY <1>29, PermitsFrame DEF GoneAway, Unwind, Goto, conn, admission, library, output, TypeOK,
    At
<1>30. ASSUME NEW r \in Requests, ReadRaises(r)
      PROVE  PermitsConserved'
  BY <1>30, PermitsFrame DEF ReadRaises, Unwind, Goto, conn, admission, library, output, TypeOK,
    At
<1>31. ASSUME NEW r \in Requests, Read(r)
      PROVE  PermitsConserved'
  BY <1>31, PermitsFrame DEF Read, Goto, conn, admission, library, output, TypeOK, At
<1>32. ASSUME NEW r \in Requests, ReadFails(r)
      PROVE  PermitsConserved'
  BY <1>32, PermitsFrame DEF ReadFails, Unwind, Goto, library, output, admission, TypeOK, At
<1>33. ASSUME NEW r \in Requests, ExchangeCancelled(r)
      PROVE  PermitsConserved'
  BY <1>33, PermitsFrame DEF ExchangeCancelled, Unwind, Goto, conn, admission, library, output,
    TypeOK, At
<1>34. ASSUME NEW r \in Requests, ReceiveEvent(r)
      PROVE  PermitsConserved'
  BY <1>34, PermitsFrame DEF ReceiveEvent, Receives, Dispatch, Goto, conn, admission, output,
    TypeOK, At
<1>35. ASSUME NEW r \in Requests, ReceiveWindow(r)
      PROVE  PermitsConserved'
  BY <1>35, PermitsFrame DEF ReceiveWindow, Receives, Goto, conn, admission, output, TypeOK, At
<1>36. ASSUME NEW r \in Requests, ReceiveGoAway(r)
      PROVE  PermitsConserved'
  BY <1>36, PermitsFrame DEF ReceiveGoAway, Receives, Goto, admission, library, output, TypeOK,
    At
<1>37. ASSUME NEW r \in Requests, ReceiveSettings(r)
      PROVE  PermitsConserved'
  <2>1. /\ ready' = ready /\ At("drain")' = At("drain") /\ At("granted")' = At("granted")
        /\ UNCHANGED <<events, sid>>
    BY <1>37 DEF ReceiveSettings, Receives, Goto, At, conn, TypeOK
  <2>2. PICK n \in 0 .. LocalLimit :
          IF n = 0 THEN UNCHANGED admission
          ELSE limit' = n /\ (IF n >= limit THEN Raised(n) ELSE Lowered(n))
    BY <1>37 DEF ReceiveSettings
  <2>3. limit \in Nat /\ deficit \in Nat /\ permits \in Nat /\ n \in Nat
    BY HTTP2Assumption DEF TypeOK
  <2>4. /\ deficit' \in Nat /\ permits' \in Nat /\ limit' \in Nat
        /\ permits' + limit + deficit = permits + limit' + deficit'
        /\ (deficit > 0 => permits = 0) => (deficit' > 0 => permits' = 0)
    <3>1. CASE n = 0
      BY <3>1, <2>2, <2>3 DEF admission
    <3>2. CASE n # 0 /\ n >= limit
      BY <3>2, <2>2, <2>3, RaisedBalance
    <3>3. CASE n # 0 /\ n < limit
      BY <3>3, <2>2, <2>3, LoweredBalance
    <3> QED
      BY <3>1, <3>2, <3>3, <2>3
  <2>5. /\ Cardinality(At("granted")') = Cardinality(At("granted"))
        /\ Cardinality(DOMAIN events') = Cardinality(DOMAIN events)
    BY <2>1
  <2>6. Cardinality(At("granted")) \in Nat /\ Cardinality(DOMAIN events) \in Nat
    BY CountedSets
  <2>7. permits' + Cardinality(At("granted")') + Cardinality(DOMAIN events')
          + limit + deficit
        = permits + Cardinality(At("granted")) + Cardinality(DOMAIN events)
            + limit' + deficit'
    BY <2>3, <2>4, <2>5, <2>6
  <2> QED
    BY <2>1, <2>4, <2>5, <2>6, <2>7, PermitsBalance
<1>38. ASSUME NEW r \in Requests, CloseStream(r)
      PROVE  PermitsConserved'
  <2>1. /\ ready' = ready /\ At("drain")' = At("drain") /\ At("granted")' = At("granted")
        /\ UNCHANGED <<limit, sid>>
    BY <1>38 DEF CloseStream, Goto, At, TypeOK
  <2>2. DOMAIN events' = DOMAIN events \ {sid[r]}
    BY <1>38 DEF CloseStream
  <2>3. CASE sid[r] \in DOMAIN events
    <3>1. Cardinality(DOMAIN events') = Cardinality(DOMAIN events) - 1
      BY <2>2, <2>3, CountedSets, FS_RemoveElement
    <3>2. Release
      BY <1>38, <2>3 DEF CloseStream
    <3>3. limit \in Nat /\ deficit \in Nat /\ permits \in Nat
      BY HTTP2Assumption DEF TypeOK
    <3>4. Cardinality(DOMAIN events') \in Nat
      BY <3>1, <2>2, CountedSets, FS_Subset, FS_CardinalityType
    <3>5. /\ deficit' \in Nat /\ permits' \in Nat
          /\ permits' + deficit = permits + deficit' + 1
          /\ (deficit > 0 => permits = 0) => (deficit' > 0 => permits' = 0)
      BY <3>2, <3>3, ReleaseBalance
    <3>6. limit' \in Nat /\ limit' = limit /\ Cardinality(At("granted")') \in Nat
      BY <2>1, <3>3, CountedSets
    <3>7. permits' + Cardinality(At("granted")') + Cardinality(DOMAIN events')
            + limit + deficit
          = permits + Cardinality(At("granted")) + Cardinality(DOMAIN events)
              + limit' + deficit'
      <4>1. Cardinality(At("granted")') = Cardinality(At("granted"))
        BY <2>1
      <4>2. Cardinality(At("granted")) \in Nat /\ Cardinality(DOMAIN events) \in Nat
        BY CountedSets
      <4>3. limit' = limit /\ permits' + deficit = permits + deficit' + 1
        BY <3>5, <3>6
      <4> QED
        BY <3>1, <3>3, <3>5, <4>1, <4>2, <4>3
    <3> QED
      BY <2>1, <3>4, <3>5, <3>6, <3>7, PermitsBalance
  <2>4. CASE sid[r] \notin DOMAIN events
    BY <1>38, <2>1, <2>2, <2>4, PermitsFrame DEF CloseStream
  <2> QED
    BY <2>3, <2>4
<1> QED
  BY <1>2, <1>3, <1>4, <1>5, <1>6, <1>7, <1>8, <1>9, <1>10, <1>11, <1>12, <1>13, <1>14, <1>15,
    <1>16, <1>17, <1>18, <1>19, <1>20, <1>21, <1>22, <1>23, <1>24, <1>25, <1>26, <1>27, <1>28,
    <1>29, <1>30, <1>31, <1>32, <1>33, <1>34, <1>35, <1>36, <1>37, <1>38 DEF Next, Progress,
    Cancel, Receive

\* What AdmissionBounded says of one step.
AdmissionStep == \/ DOMAIN events' \subseteq DOMAIN events
                 \/ Cardinality(DOMAIN events') <= limit

\* A stream is opened by a permit that the limit in force covers.
LEMMA AdmissionNext ==
  ASSUME ~Checkpoints, TypeOK, InitInv, PermitsConserved, [Next]_vars
  PROVE  AdmissionStep
<1>1. CASE UNCHANGED <<events>>
  BY <1>1 DEF AdmissionStep
<1>2. CASE UNCHANGED vars \/ AClose \/ Finished
  BY <1>1, <1>2 DEF AClose, Finished, vars, conn, admission, library, output, task
<1>3. ASSUME NEW r \in Requests,
             Accept(r) \/ NotAvailable(r) \/ InitLock(r) \/ SendInit(r) \/ InitFails(r)
      PROVE  AdmissionStep
  BY <1>1, <1>3 DEF Accept, NotAvailable, InitLock, SendInit, InitFails, Goto, admission,
    library, output, Raise, conn
<1>4. ASSUME NEW r \in Requests,
             Drain(r) \/ DrainCancelled(r) \/ Acquire(r) \/ WaitCancelled(r) \/ Forfeit(r)
             \/ Exhausted(r)
      PROVE  AdmissionStep
  BY <1>1, <1>4 DEF Drain, DrainCancelled, Acquire, WaitCancelled, Forfeit, Exhausted, Goto,
    conn, library, output, Raise, admission
<1>5. ASSUME NEW r \in Requests, SendHeaders(r) \/ HeadersRefused(r)
      PROVE  AdmissionStep
  BY <1>1, <1>5 DEF SendHeaders, HeadersRefused, Goto, conn, admission, Unwind, library, output
<1>6. ASSUME NEW r \in Requests,
             Write(r) \/ WriteRaises(r) \/ Written(r) \/ WriteFails(r) \/
             WriteCancelled(r)
      PROVE  AdmissionStep
  BY <1>1, <1>6 DEF Write, WriteRaises, Written, WriteFails, WriteCancelled, Goto, conn,
    admission, library, Unwind, Deliver
<1>7. ASSUME NEW r \in Requests,
             SendBody(r) \/ BodyRefused(r) \/ Abandon(r) \/ AwaitEvent(r) \/
             NoNeedToRead(r)
      PROVE  AdmissionStep
  BY <1>1, <1>7 DEF SendBody, BodyRefused, Abandon, AwaitEvent, NoNeedToRead, Goto, conn,
    admission, library, output, Unwind
<1>8. ASSUME NEW r \in Requests,
             GoneAway(r) \/ ReadRaises(r) \/ Read(r) \/ ReadFails(r) \/
             ExchangeCancelled(r)
      PROVE  AdmissionStep
  BY <1>1, <1>8 DEF GoneAway, ReadRaises, Read, ReadFails, ExchangeCancelled, Unwind, Goto,
    conn, admission, library, output
<1>9. ASSUME NEW r \in Requests, ReceiveSettings(r) \/ ReceiveWindow(r) \/ ReceiveGoAway(r)
      PROVE  AdmissionStep
  BY <1>1, <1>9 DEF ReceiveSettings, ReceiveWindow, ReceiveGoAway, Receives, Goto, conn, output,
    admission, library
<1>10. ASSUME NEW r \in Requests, Pick(r)
      PROVE  AdmissionStep
  <2>1. At("granted")' = At("granted") \ {r} /\ r \in At("granted")
    BY <1>10 DEF Pick, Goto, At, TypeOK
  <2>2. /\ Cardinality(At("granted")') = Cardinality(At("granted")) - 1
        /\ Cardinality(At("granted")') \in Nat
    BY <2>1, CountedSets, FS_RemoveElement, FS_CardinalityType
  <2>3. ready /\ At("drain") = {}
    BY <1>10, GrantedReady DEF Pick
  <2>4. deficit = 0 /\ DOMAIN events' = DOMAIN events \cup {opened + 1}
    BY <1>10 DEF Pick, Usable
  <2>5. permits + Cardinality(At("granted")) + Cardinality(DOMAIN events) <= limit + deficit
    BY <2>3 DEF PermitsConserved
  <2>6. /\ Cardinality(DOMAIN events') \in Nat
        /\ Cardinality(DOMAIN events') <= Cardinality(DOMAIN events) + 1
    BY <2>4, OneMoreStream
  <2>7. limit \in Nat /\ permits \in Nat
    BY HTTP2Assumption DEF TypeOK
  <2> QED
    BY <2>2, <2>4, <2>5, <2>6, <2>7, CountedSets DEF AdmissionStep
<1>11. ASSUME NEW r \in Requests, TakeResponse(r)
      PROVE  AdmissionStep
  BY <1>11 DEF TakeResponse, Inbox, conn, admission, library, output, AdmissionStep, TypeOK
<1>12. ASSUME NEW r \in Requests, TakeLast(r)
      PROVE  AdmissionStep
  BY <1>12 DEF TakeLast, Inbox, Unwind, Goto, conn, admission, library, output, AdmissionStep,
    TypeOK
<1>13. ASSUME NEW r \in Requests, ReceiveEvent(r)
      PROVE  AdmissionStep
  BY <1>13 DEF ReceiveEvent, Receives, Dispatch, Goto, conn, admission, output, AdmissionStep,
    TypeOK
<1>14. ASSUME NEW r \in Requests, CloseStream(r)
      PROVE  AdmissionStep
  BY <1>14 DEF CloseStream, Goto, library, output, AdmissionStep, TypeOK
<1> QED
  BY <1>2, <1>3, <1>4, <1>5, <1>6, <1>7, <1>8, <1>9, <1>10, <1>11, <1>12, <1>13, <1>14 DEF Next,
    Progress, Cancel, Receive

-----------------------------------------------------------------------------
(***************************************************************************)
(* The invariant, and what it gives.                                       *)
(***************************************************************************)
\* It holds at the start.
LEMMA InitIInv == Init => IInv
<1> SUFFICES ASSUME Init PROVE IInv
  OBVIOUS
<1>1. TypeOK
  <2>1. DOMAIN events = {}
    BY DEF Init
  <2>2. /\ terminated \in 0 .. LastStreamId \cup {None} /\ failed \subseteq {"read", "write"}
        /\ limit \in 0 .. LocalLimit /\ deficit \in Nat /\ permits \in Nat
        /\ opened \in 0 .. LastStreamId /\ remote \in 0 .. LocalLimit + 1
        /\ settings \in 0 .. MaxSettings
    BY HTTP2Assumption DEF Init
  <2>3. /\ window \in [StreamIds -> BOOLEAN]
        /\ outbox \subseteq StreamIds /\ wire \subseteq StreamIds
        /\ peer \in [StreamIds -> {"none", "reached", "answered", "ended", "reset"}]
    BY HTTP2Assumption DEF Init
  <2>4. /\ pc \in [Requests -> Stages]
        /\ phase \in [Requests -> {"upload", "response", "body"}]
        /\ sid \in [Requests -> StreamIds \cup {None}]
        /\ result \in [Requests -> {"ok", "failed", "retry", None}]
    BY DEF Init, Stages
  <2> QED
    BY <2>1, <2>2, <2>3, <2>4 DEF Init, TypeOK
<1>2. StageInv /\ LibraryInv /\ ReadInv
  BY HTTP2Assumption DEF Init, StageInv, LibraryInv, ReadInv, NoNeedlessRead, BeforeStream,
    OnIt, Working, At, StreamIds
<1>3. RetryInv /\ InitInv /\ EventsInv
  BY HTTP2Assumption DEF Init, RetryInv, InitInv, EventsInv, Unadmitted, At, StreamIds
<1>4. PickInv
  BY DEF Init, PickInv, StreamsDistinct, OnStream, At
<1>5. PermitsConserved
  BY DEF Init, PermitsConserved
<1> QED
  BY <1>1, <1>2, <1>3, <1>4, <1>5 DEF IInv

\* And after every step.
LEMMA NextIInv == IInv /\ [Next]_vars => IInv'
BY TypeNext, StageNext, LibraryNext, ReadNext, RetryNext, InitNext, EventsNext, PickNext,
  PermitsNext DEF IInv

\* IInv is the inductive invariant of the connection.
THEOREM Invariance == Spec => []IInv
BY InitIInv, NextIInv, PTL DEF Spec

\* The variables keep their types: whatever limits the server sets, in whatever
\* order, permits and deficit never fall below zero, and the stream id a request
\* sends its headers on is one that exists.
THEOREM TypeCorrect == Spec => []TypeOK
<1>1. IInv => TypeOK
  BY DEF IInv
<1> QED
  BY <1>1, Invariance, PTL

\* No request waits for the socket while an event of its own, or a window for
\* its body, is already there: the second look under the read lock
\* (_receive_events) is enough for any number of requests.
THEOREM NoReadInVain == Spec => []NoNeedlessRead
<1>1. IInv => NoNeedlessRead
  BY DEF IInv, ReadInv
<1> QED
  BY <1>1, Invariance, PTL

\* A request that may be sent again on another connection was not answered on
\* this one: after GOAWAY nobody reads any more, so what the last stream id
\* says of a stream stays true.
THEOREM RetryIsSafe == Spec => []RetrySafe
<1>1. IInv => RetrySafe
  BY DEF IInv, TypeOK, RetryInv, RetrySafe
<1> QED
  BY <1>1, Invariance, PTL

\* Without an await between asking h2 for a stream id and sending the headers
\* no two requests work on one stream.
THEOREM StreamsAreDistinct == ~Yields => (Spec => []StreamsDistinct)
<1> SUFFICES ASSUME ~Yields PROVE Spec => []StreamsDistinct
  OBVIOUS
<1>1. IInv => StreamsDistinct
  BY DEF IInv, PickInv
<1> QED
  BY <1>1, Invariance, PTL

\* Where the acquisition of a free permit cannot be cancelled, permits are
\* neither lost nor multiplied by any interleaving of admissions, closed
\* streams and changes of the limit.
THEOREM PermitsAreConserved == ~Checkpoints => (Spec => []PermitsConserved)
<1> SUFFICES ASSUME ~Checkpoints PROVE Spec => []PermitsConserved
  OBVIOUS
<1>1. IInv => PermitsConserved
  BY DEF IInv
<1> QED
  BY <1>1, Invariance, PTL

\* There a stream is opened only below the limit in force.
THEOREM AdmissionIsBounded == ~Checkpoints => (Spec => AdmissionBounded)
<1> SUFFICES ASSUME ~Checkpoints PROVE Spec => AdmissionBounded
  OBVIOUS
<1>1. IInv /\ [Next]_vars
        => [DOMAIN events' \subseteq DOMAIN events
            \/ Cardinality(DOMAIN events') <= limit]_vars
  BY AdmissionNext DEF IInv, AdmissionStep
<1> QED
  BY <1>1, Invariance, PTL DEF Spec, AdmissionBounded

=============================================================================
