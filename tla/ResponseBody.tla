---------------------------- MODULE ResponseBody ----------------------------
(***************************************************************************)
(* Reading the body of one response: the stream that may be consumed once, *)
(* the content decoder, and what cuts the decoded content for the user:    *)
(* the byte chunker, the line decoder and the decoder of server-sent       *)
(* events.  The network cuts the body wherever it likes; the user takes    *)
(* one item at a time and may stop between any two.                        *)
(*                                                                         *)
(* A body is a sequence of characters: "cr", "lf", ":" which begins a      *)
(* comment, "i" and "d" which begin an id and a data field and are         *)
(* ordinary characters elsewhere.  Compression is external: a compressed   *)
(* body is a number of opaque bytes, and what a decompressor gives back    *)
(* for some of them is any further part of the body.                       *)
(***************************************************************************)
EXTENDS Integers, SequencesExt, Positions

CONSTANTS
  Bodies,           \* the bodies a server may send
  ChunkSizes,       \* the chunk sizes a user may ask for
  MaxEventSize,     \* the limit of an EventSource, in characters
  CompressedLength, \* bytes of a compressed body
  None              \* no chunk size, no content yet, no failure

\* No deflate stream is shorter than two bytes.
ASSUME BodyAssumption ==
  /\ Bodies \subseteq Seq({"cr", "lf", ":", "i", "d"})
  /\ ChunkSizes \subseteq Nat \ {0}
  /\ MaxEventSize \in Nat /\ CompressedLength \in Nat \ {0, 1}
  /\ None \notin {"decoding", "size", "network"}

Modes == {"raw", "bytes", "read", "lines", "events"}
\* gzip, brotli, zstd and chains of decoders behave like "zlib".
Formats == {"plain", "zlib", "deflate"}
Newlines == {"cr", "lf"}

VARIABLES
  body,      \* what the server sends
  format,    \* how it is compressed; "deflate" is without the zlib wrapper
  awaits,    \* the asynchronous response: abandoned generators are closed later
  arrived,   \* bytes of the stream read so far
  first,     \* size of the first chunk that was read
  decoded,   \* characters of the body decoded so far
  form,      \* what the decompressor takes the body for
  mode,      \* how the user reads: iter_raw, iter_bytes, read, iter_lines, EventSource
  chunkSize, \* the chunk size the user asked for
  phase,     \* "fresh", "reading", "tail" (decoders flushed), "done", "failed", "left"
  dec,       \* the state of the chunker, line decoder or event decoder
  ready,     \* items the generators hold for the user
  failure,   \* what is raised once ready is taken
  out,       \* what the user has got
  consumed,  \* Response.is_stream_consumed
  closed,    \* Response.is_closed
  content    \* Response._content

stream == <<body, format, awaits>>
vars == <<body, format, awaits, arrived, first, decoded, form, mode, chunkSize,
          phase, dec, ready, failure, out, consumed, closed, content>>

NoDecoding == [buffer |-> <<>>, cr |-> FALSE,
               data |-> <<>>, id |-> <<>>, pending |-> FALSE, size |-> 0]

Init ==
  /\ body \in Bodies /\ format \in Formats /\ awaits \in BOOLEAN
  /\ arrived = 0 /\ first = 0 /\ decoded = 0 /\ form = "untried"
  /\ mode = None /\ chunkSize = None /\ phase = "fresh"
  /\ dec = NoDecoding /\ ready = <<>> /\ failure = None /\ out = <<>>
  /\ consumed = FALSE /\ closed = FALSE /\ content = None

-----------------------------------------------------------------------------
(***************************************************************************)
(* Lines.                                                                  *)
(***************************************************************************)
\* Where the line ends of t are; a "cr" and the "lf" after it are one.
LineEnds(t) ==
  {i \in DOMAIN t : t[i] = "lf" \/ (t[i] = "cr" /\ ~(i < Len(t) /\ t[i + 1] = "lf"))}

Width(t, i) == IF t[i] = "lf" /\ i > 1 /\ t[i - 1] = "cr" THEN 2 ELSE 1

\* The lines of t that are ended, and what follows the last of them.
Ended(t) ==
  LET e == Ascending(LineEnds(t))
  IN  [k \in DOMAIN e |->
         SubSeq(t, IF k = 1 THEN 1 ELSE e[k - 1] + 1, e[k] - Width(t, e[k]))]

Rest(t) ==
  LET last == CHOOSE i \in LineEnds(t) \cup {0} : \A j \in LineEnds(t) : j <= i
  IN  SubSeq(t, last + 1, Len(t))

\* str.split("\n") of a text whose line ends are all "\n", and str.splitlines().
Split(t) == Append(Ended(t), Rest(t))
SplitLines(t) == IF Rest(t) = <<>> THEN Ended(t) ELSE Split(t)

\* The same forgetting that a "\n" may follow (a variant).
HeldNever(d, t) == FALSE

\* A "\r" that ends the text is kept for the next one.
Held(d, t) == Last((IF d.cr THEN <<"cr">> ELSE <<>>) \o t) = "cr"
Due(d, t) ==
  LET u == (IF d.cr THEN <<"cr">> ELSE <<>>) \o t
  IN  IF Held(d, t) THEN Front(u) ELSE u

Result(d, items, error) == [dec |-> d, items |-> items, error |-> error]

FeedLines(d, t) ==
  LET u     == Due(d, t)
      lines == SplitLines(u)
      whole == Last(u) \in Newlines
      joined == <<d.buffer \o Head(lines)>> \o Tail(lines)
      kept  == [d EXCEPT !.cr = Held(d, t)]
  IN  IF u = <<>> THEN Result(kept, <<>>, FALSE)
      ELSE IF whole THEN Result([kept EXCEPT !.buffer = <<>>], joined, FALSE)
      ELSE Result([kept EXCEPT !.buffer = Last(joined)], Front(joined), FALSE)

FlushLines(d) ==
  Result(NoDecoding, IF d.buffer = <<>> /\ ~d.cr THEN <<>> ELSE <<d.buffer>>, FALSE)

-----------------------------------------------------------------------------
(***************************************************************************)
(* Server-sent events.                                                     *)
(***************************************************************************)
TooLarge(size) == size > MaxEventSize

\* The same without a new count for the next event (a variant).
DispatchOnly(r) ==
  Result([r.dec EXCEPT !.data = <<>>, !.pending = FALSE],
         IF r.dec.pending
           THEN Append(r.items, [data |-> r.dec.data, id |-> r.dec.id]) ELSE r.items,
         FALSE)

\* A blank line dispatches the event.
Dispatch(r) ==
  Result([r.dec EXCEPT !.size = 0, !.data = <<>>, !.pending = FALSE],
         IF r.dec.pending
           THEN Append(r.items, [data |-> r.dec.data, id |-> r.dec.id]) ELSE r.items,
         FALSE)

Field(d, line) ==
  LET counted == [d EXCEPT !.size = @ + Len(line), !.pending = TRUE]
  IN  IF Head(line) = "i" THEN [counted EXCEPT !.id = Tail(line)]
      ELSE [counted EXCEPT !.data = Append(@, Tail(line))]

DecodeLine(r, line) ==
  IF r.error THEN r
  ELSE IF line = <<>> THEN Dispatch(r)
  ELSE IF Head(line) = ":" THEN r
  ELSE IF TooLarge(r.dec.size + Len(line)) THEN [r EXCEPT !.error = TRUE]
  ELSE [r EXCEPT !.dec = Field(@, line)]

DecodeLines(d, lines) == FoldLeft(DecodeLine, Result(d, <<>>, FALSE), lines)

\* The limit holds for the event under construction and the line that is not ended.
CheckPending(r) ==
  [r EXCEPT !.error = @ \/ TooLarge(r.dec.size + Len(r.dec.buffer))]

FeedEvents(d, t) ==
  LET lines == Split(Due(d, t))
      joined == <<d.buffer \o Head(lines)>> \o Tail(lines)
  IN  CheckPending(
        DecodeLines([d EXCEPT !.cr = Held(d, t), !.buffer = Last(joined)], Front(joined)))

FlushEvents(d) ==
  LET t == d.buffer \o (IF d.cr THEN <<"lf">> ELSE <<>>)
  IN  DecodeLines([d EXCEPT !.buffer = <<>>, !.cr = FALSE], IF t = <<>> THEN <<>> ELSE Split(t))

-----------------------------------------------------------------------------
(***************************************************************************)
(* Chunks of a fixed size, or as they come: iter_bytes and iter_text cut   *)
(* alike.                                                                  *)
(***************************************************************************)
Chunk(t, n, k) == SubSeq(t, (k - 1) * n + 1, k * n)

FeedChunks(d, t, n) ==
  LET u == d.buffer \o t
      full == Len(u) \div n
  IN  IF n = None THEN Result(d, IF t = <<>> THEN <<>> ELSE <<t>>, FALSE)
      ELSE Result([d EXCEPT !.buffer = SubSeq(u, full * n + 1, Len(u))],
                  [k \in 1..full |-> Chunk(u, n, k)], FALSE)

FlushChunks(d) == Result(NoDecoding, IF d.buffer = <<>> THEN <<>> ELSE <<d.buffer>>, FALSE)

Feed(m, d, t, n) ==
  CASE m = "lines"  -> FeedLines(d, t)
    [] m = "events" -> FeedEvents(d, t)
    [] OTHER        -> FeedChunks(d, t, n)

Flush(m, d) ==
  CASE m = "lines"  -> FlushLines(d)
    [] m = "events" -> FlushEvents(d)
    [] OTHER        -> FlushChunks(d)

-----------------------------------------------------------------------------
(***************************************************************************)
(* The stream.                                                             *)
(***************************************************************************)
Wire == IF format = "plain" THEN body ELSE [i \in 1..CompressedLength |-> "z"]

\* The same by the first flag only (a variant).
NotClosed == ~closed

\* iter_raw: a stream is read once, and not after it was closed.
Readable == ~consumed /\ ~closed

Start(m, n) ==
  /\ content = None
  /\ Readable
  /\ mode' = m /\ chunkSize' = n
  /\ phase' = "reading" /\ consumed' = TRUE
  /\ dec' = NoDecoding /\ ready' = <<>> /\ out' = <<>>
  /\ UNCHANGED <<stream, arrived, first, decoded, form, failure, closed, content>>

\* What the decompressor takes the body for after k more bytes.  The first
\* attempt is zlib's; what a single byte holds is not known to be wrong.
FirstAttempt(k) ==
  IF format = "deflate" /\ form = "untried" /\ k > 1 THEN "raw"
  ELSE IF form = "untried" THEN "zlib" ELSE form

WrongForm(f) == format = "deflate" /\ f = "zlib"

\* The next k bytes give the characters of the body up to e.
MayDecode(k, e) ==
  IF mode = "raw" \/ WrongForm(FirstAttempt(k)) THEN e = decoded
  ELSE IF format = "plain" THEN e = decoded + k
  ELSE IF arrived + k = Len(Wire) THEN e = Len(body)
  ELSE e \in decoded..Len(body)

DecodingFails == mode # "raw" /\ form = "zlib" /\ WrongForm(form)

Pull(k, e) ==
  /\ phase = "reading" /\ ready = <<>> /\ failure = None /\ ~closed
  /\ arrived + k <= Len(Wire)
  /\ MayDecode(k, e)
  /\ arrived' = arrived + k
  /\ first' = IF first = 0 THEN k ELSE first
  /\ IF DecodingFails
       THEN /\ failure' = "decoding"
            /\ UNCHANGED <<decoded, form, dec, ready>>
       ELSE LET t == IF mode = "raw" THEN SubSeq(Wire, arrived + 1, arrived + k)
                     ELSE SubSeq(body, decoded + 1, e)
                r == IF t = <<>> THEN Result(dec, <<>>, FALSE)
                     ELSE Feed(mode, dec, t, chunkSize)
            IN  /\ decoded' = e
                /\ form' = IF mode = "raw" \/ format = "plain" THEN form ELSE FirstAttempt(k)
                /\ dec' = r.dec /\ ready' = r.items
                /\ failure' = IF r.error THEN "size" ELSE None
  /\ UNCHANGED <<stream, mode, chunkSize, phase, out, consumed, closed, content>>

Take ==
  /\ ready # <<>>
  /\ phase \in {"reading", "tail"}
  /\ out' = Append(out, Head(ready)) /\ ready' = Tail(ready)
  /\ UNCHANGED <<stream, arrived, first, decoded, form, mode, chunkSize, phase, dec,
                 failure, consumed, closed, content>>

\* The stream is exhausted: iter_raw closes the response, the decoders are flushed.
Exhausted ==
  /\ phase = "reading" /\ ready = <<>> /\ failure = None /\ ~closed
  /\ arrived = Len(Wire)
  /\ LET r == Flush(mode, dec)
     IN  /\ dec' = r.dec /\ ready' = r.items
         /\ failure' = IF r.error THEN "size" ELSE None
  /\ phase' = "tail"
  /\ closed' = (mode # "raw")
  /\ UNCHANGED <<stream, arrived, first, decoded, form, mode, chunkSize, out, consumed, content>>

\* The end of the generators; read() keeps what it has joined.
End ==
  /\ phase = "tail" /\ ready = <<>> /\ failure = None
  /\ phase' = "done" /\ closed' = TRUE
  /\ content' = IF mode = "read" THEN FlattenSeq(out) ELSE content
  /\ UNCHANGED <<stream, arrived, first, decoded, form, mode, chunkSize, dec, ready,
                 failure, out, consumed>>

\* The same when iter_bytes does not hold iter_raw (a variant).
ClosedByRawOnly(f) == f = "network" \/ ~awaits

\* A generator left in the middle: sync ones are closed at once, and so are those
\* that aiter_bytes and aread hold; the others when the event loop gets to it.
ClosedOnError(f) == f \in {"network", "decoding"} \/ ~awaits

\* The network fails, or the user has closed the response meanwhile.
ReadFails ==
  /\ phase = "reading" /\ ready = <<>> /\ failure = None
  /\ arrived < Len(Wire) \/ closed
  /\ failure' = "network"
  /\ UNCHANGED <<stream, arrived, first, decoded, form, mode, chunkSize, phase, dec,
                 ready, out, consumed, closed, content>>

Raise ==
  /\ failure # None /\ ready = <<>>
  /\ phase \in {"reading", "tail"}
  /\ phase' = "failed"
  /\ closed' = (closed \/ ClosedOnError(failure))
  /\ UNCHANGED <<stream, arrived, first, decoded, form, mode, chunkSize, dec, ready,
                 failure, out, consumed, content>>

\* The user stops taking items.
Leave ==
  /\ phase \in {"reading", "tail"} /\ mode # "read"
  /\ phase' = "left"
  /\ closed' = (closed \/ ~awaits)
  /\ ready' = <<>>
  /\ UNCHANGED <<stream, arrived, first, decoded, form, mode, chunkSize, dec, failure,
                 out, consumed, content>>

\* The event loop closes an asynchronous generator that was abandoned.
Finalize ==
  /\ awaits /\ phase \in {"left", "failed"} /\ ~closed
  /\ closed' = TRUE
  /\ UNCHANGED <<stream, arrived, first, decoded, form, mode, chunkSize, phase, dec,
                 ready, failure, out, consumed, content>>

\* Response.close, at any time.
Close ==
  /\ ~closed
  /\ closed' = TRUE
  /\ UNCHANGED <<stream, arrived, first, decoded, form, mode, chunkSize, phase, dec,
                 ready, failure, out, consumed, content>>

\* Once read, the content can be iterated over and over.
Replay(m, n) ==
  /\ content # None /\ m # "raw"
  /\ LET fed  == IF content = <<>> THEN Result(NoDecoding, <<>>, FALSE)
                 ELSE Feed(m, NoDecoding, content, n)
         tail == IF fed.error THEN Result(fed.dec, <<>>, TRUE) ELSE Flush(m, fed.dec)
     IN  /\ out' = fed.items \o tail.items
         /\ failure' = IF tail.error THEN "size" ELSE None
         /\ phase' = IF tail.error THEN "failed" ELSE "done"
  /\ mode' = m /\ chunkSize' = n
  /\ dec' = NoDecoding
  /\ UNCHANGED <<stream, arrived, first, decoded, form, ready, consumed, closed, content>>

Sizes(m) == IF m \in {"raw", "bytes"} THEN ChunkSizes \cup {None} ELSE {None}

Next ==
  \/ \E m \in Modes : \E n \in Sizes(m) : Start(m, n) \/ Replay(m, n)
  \/ \E k \in 1..(Len(Wire) - arrived), e \in decoded..Len(body) : Pull(k, e)
  \/ Take \/ Exhausted \/ End \/ ReadFails \/ Raise \/ Leave \/ Finalize \/ Close

Spec == Init /\ [][Next]_vars

-----------------------------------------------------------------------------
(***************************************************************************)
(* Properties.                                                             *)
(***************************************************************************)
\* The lines an EventSource sees: those that are ended, and one blank line more
\* when the body ends with a "\r" (the flush of the line decoder).
EventLines(t) ==
  Ended(t) \o (IF t # <<>> /\ Last(t) = "cr" THEN << <<>> >> ELSE <<>>)

IsField(line, c) == line # <<>> /\ Head(line) = c
IsData(line) == IsField(line, "d")
IsId(line) == IsField(line, "i")

\* The lines before place b that no blank line parts from it.
Own(L, b) == {k \in 1..(b - 1) : \A j \in k..(b - 1) : L[j] # <<>>}

HasFields(L, b) == \E k \in Own(L, b) : IsData(L[k]) \/ IsId(L[k])
DataAt(L, b) ==
  LET own == Selected(L, {k \in Own(L, b) : IsData(L[k])})
  IN  [k \in DOMAIN own |-> Tail(own[k])]
IdAt(L, b) ==
  LET ids == {k \in 1..(b - 1) : IsId(L[k])}
  IN  IF ids = {} THEN <<>> ELSE Tail(L[CHOOSE k \in ids : \A j \in ids : j <= k])

\* The events of a text: what stands between two blank lines, with the id in force.
EventsIn(L) ==
  LET ends == Ascending({b \in DOMAIN L : L[b] = <<>> /\ HasFields(L, b)})
  IN  [k \in DOMAIN ends |-> [data |-> DataAt(L, ends[k]), id |-> IdAt(L, ends[k])]]
EventsOf(t) == EventsIn(EventLines(t))

\* What a complete reading gives, as far as it does not depend on the chunk size.
Expected == CASE mode = "lines"  -> SplitLines(body)
              [] mode = "events" -> EventsOf(body)
              [] mode = "raw"    -> Wire
              [] OTHER           -> body
Got == IF mode \in {"lines", "events"} THEN out ELSE FlattenSeq(out)

\* _decoders.py, _sse.py: what the user gets is a function of the body alone: not of
\* where the network cut it, nor of how the decompressor emits it.  Nothing is lost,
\* repeated, moved or handed out before it is known to be complete, and chunks of a
\* fixed size have that size, the last one excepted.  A deflate body is decoded with
\* and without the zlib wrapper, unless the first chunk of one without it is a single
\* byte, which the first attempt accepts.
CutsDoNotMatter ==
  mode # None =>
    /\ failure = "decoding" => format = "deflate" /\ first = 1
    /\ IsPrefix(Got, Expected)
    /\ phase = "done" => Got = Expected
    /\ chunkSize # None =>
         \A k \in DOMAIN out : /\ Len(out[k]) <= chunkSize
                               /\ k < Len(out) => Len(out[k]) = chunkSize

\* Lines that follow each other without a blank one among them: those of an event, or some
\* of them; and how many characters lines have.
Stretches(L) == {S \in {a..b : a, b \in DOMAIN L} : \A k \in S : L[k] # <<>>}
Size(L, S) == Len(FlattenSeq(Selected(L, S)))
NoComments(L, S) == {k \in S : Head(L[k]) # ":"}

\* docs/sse.md: "the limit applies per event rather than to the stream as a whole": a
\* body read to its end has no event over the limit, and one that is refused has an
\* event over it, if the comments in front of it are counted (a comment whose end
\* has not arrived is).
LimitPerEvent ==
  LET L == Split(body)
  IN  mode = "events" =>
        /\ phase = "done" => \A S \in Stretches(L) : ~TooLarge(Size(L, NoComments(L, S)))
        /\ failure = "size" => \E S \in Stretches(L) : TooLarge(Size(L, S))

\* _models.py: content is all of the body or it is not there: after a reading that
\* failed, was left or was started in another way nobody gets a part of it as the whole.
ContentWhole == content # None => content = body

\* _models.py: once an iteration is over the response is closed, so that its connection
\* goes back to the pool; only an asynchronous generator the user left, or the one in
\* which an event was refused, waits for the event loop to close it.
ReleasedAtEnd ==
  phase \in {"done", "failed", "left"} =>
    closed \/ (awaits /\ (phase = "left" \/ failure = "size"))

=============================================================================
