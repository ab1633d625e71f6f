------------------------- MODULE ResponseBodyProofs -------------------------
(***************************************************************************)
(* A body read as bytes, as lines or as events reaches the user whole and  *)
(* in order however it was cut, the limit of an EventSource is for each    *)
(* event, and a response that was read is closed.                          *)
(***************************************************************************)
EXTENDS ResponseBody, SequenceLemmas

-----------------------------------------------------------------------------
(***************************************************************************)
(* The chunker.                                                            *)
(***************************************************************************)
Chars == {"cr", "lf", ":", "i", "d", "z"}
Text == Seq(Chars)

\* The chunker's own part of the state of the decoders is the buffer.
Dec == [buffer : Text, cr : BOOLEAN, data : {<< >>}, id : {<< >>},
        pending : BOOLEAN, size : {0}]

\* The first f chunks of size n.
Cut(u, n, f) == [k \in 1 .. f |-> Chunk(u, n, k)]

\* A chunk follows those before it.
LEMMA ChunkShape ==
  ASSUME NEW u \in Text, NEW n \in Nat \ {0}, NEW f \in Nat, (f + 1) * n <= Len(u)
  PROVE  /\ Chunk(u, n, f + 1) \in Text /\ Len(Chunk(u, n, f + 1)) = n
         /\ f * n <= Len(u)
         /\ SubSeq(u, 1, f * n) \o Chunk(u, n, f + 1) = SubSeq(u, 1, (f + 1) * n)
<1> DEFINE m == f * n
<1>1. /\ m \in Nat /\ (f + 1) * n = m + n /\ ((f + 1) - 1) * n + 1 = m + 1
      /\ Len(u) \in Nat
  BY DEF Text
<1> HIDE DEF m
<1>2. Chunk(u, n, f + 1) = SubSeq(u, m + 1, m + n)
  BY <1>1 DEF Chunk
<1>3. m + n <= Len(u)
  BY <1>1
<1>4. SubSeq(u, m + 1, m + n) \in Text /\ Len(SubSeq(u, m + 1, m + n)) = n
  BY <1>1, <1>3 DEF Text
<1>5. SubSeq(u, 1, m) \o SubSeq(u, m + 1, m + n) = SubSeq(u, 1, m + n)
  BY <1>1, <1>3, ConcatAdjacentSubSeq DEF Text
<1>6. Chunk(u, n, f + 1) \in Text /\ Len(Chunk(u, n, f + 1)) = n
  BY <1>2, <1>4
<1>7. SubSeq(u, 1, m) \o Chunk(u, n, f + 1) = SubSeq(u, 1, (f + 1) * n)
  BY <1>1, <1>2, <1>5
<1>8. m <= Len(u)
  BY <1>1, <1>3
<1>9. QED BY <1>6, <1>7, <1>8 DEF m

\* One chunk more.
LEMMA CutStep ==
  ASSUME NEW u \in Text, NEW n \in Nat \ {0}, NEW f \in Nat, (f + 1) * n <= Len(u),
         Cut(u, n, f) \in Seq(Text), FlattenSeq(Cut(u, n, f)) = SubSeq(u, 1, f * n)
  PROVE  /\ Cut(u, n, f + 1) \in Seq(Text)
         /\ FlattenSeq(Cut(u, n, f + 1)) = SubSeq(u, 1, (f + 1) * n)
<1> DEFINE c == Chunk(u, n, f + 1)
           s == Cut(u, n, f)
           t == Cut(u, n, f + 1)
<1>1. /\ c \in Text
      /\ SubSeq(u, 1, f * n) \o c = SubSeq(u, 1, (f + 1) * n)
  BY ChunkShape
<1>2. Len(s) = f
  BY DEF Cut
<1>3. Append(s, c) \in Seq(Text) /\ Len(Append(s, c)) = f + 1
  BY <1>1, <1>2, AppendProperties
<1>4. t = Append(s, c)
  <2>1. \A k \in 1 .. f : Append(s, c)[k] = Chunk(u, n, k)
    BY <1>1, <1>2, AppendProperties DEF Cut
  <2>2. Append(s, c)[f + 1] = c
    BY <1>1, <1>2, AppendProperties
  <2>3. \A k \in 1 .. (f + 1) : Append(s, c)[k] = t[k]
    BY <2>1, <2>2 DEF Cut
  <2>4. DOMAIN Append(s, c) = 1 .. (f + 1) /\ DOMAIN t = 1 .. (f + 1)
    BY <1>3, LenProperties DEF Cut
  <2>5. Append(s, c) = [k \in 1 .. (f + 1) |-> Append(s, c)[k]]
    BY <1>3, <2>4
  <2> HIDE DEF s, c
  <2>6. QED BY <2>3, <2>5 DEF Cut
<1> HIDE DEF s, c, t
<1>5. s \in Seq(Seq(Chars)) /\ c \in Seq(Chars)
  BY <1>1 DEF s, Text
<1>6. FlattenSeq(t) = FlattenSeq(s) \o c
  BY <1>4, <1>5, FlattenAppend
<1>7. QED BY <1>1, <1>3, <1>4, <1>6 DEF s, t

\* The chunks together are what was cut.
LEMMA CutFlat ==
  ASSUME NEW u \in Text, NEW n \in Nat \ {0}, NEW f \in Nat, f * n <= Len(u)
  PROVE  /\ Cut(u, n, f) \in Seq(Text)
         /\ FlattenSeq(Cut(u, n, f)) = SubSeq(u, 1, f * n)
         /\ \A k \in 1 .. f : Len(Cut(u, n, f)[k]) = n
<1> DEFINE Good(g) == Cut(u, n, g) \in Seq(Text) /\ FlattenSeq(Cut(u, n, g)) = SubSeq(u, 1, g * n)
           Bad == {g \in Nat : g * n <= Len(u) /\ ~Good(g)}
<1>1. Len(u) \in Nat
  BY DEF Text
<1>2. Bad = {}
  <2>1. SUFFICES ASSUME Bad # {} PROVE FALSE
    OBVIOUS
  <2>2. PICK g \in Bad : \A h \in Bad : g <= h
    BY <2>1, LeastNat
  <2>3. CASE g = 0
    <3>1. Cut(u, n, 0) = << >> /\ 0 * n = 0
      BY DEF Cut
    <3>2. SubSeq(u, 1, 0) = << >>
      BY SubSeqEmpty
    <3>3. Good(0)
      <4>1. << >> \in Seq(Text)
        BY EmptyList
      <4>2. FlattenSeq(Cut(u, n, 0)) = << >>
        BY <3>1, FlattenEmpty, Zenon
      <4>3. SubSeq(u, 1, 0 * n) = << >>
        BY <3>1, <3>2, Zenon
      <4>4. QED BY <3>1, <4>1, <4>2, <4>3, Zenon
    <3>4. QED BY <2>2, <2>3, <3>3
  <2>4. CASE g # 0
    <3> DEFINE h == g - 1
    <3>1. h \in Nat /\ g = h + 1 /\ h < g
      BY <2>4
    <3>2. h * n <= Len(u)
      BY <3>1, ChunkShape
    <3>3. Good(h)
      BY <2>2, <3>1, <3>2
    <3> HIDE DEF h
    <3>4. Good(h + 1)
      BY <3>1, <3>3, CutStep
    <3>5. QED BY <3>1, <3>4
  <2>5. QED BY <2>3, <2>4
<1>3. ASSUME NEW k \in 1 .. f PROVE Len(Chunk(u, n, k)) = n
  <2> DEFINE j == k - 1
  <2>1. j \in Nat /\ k = j + 1
    OBVIOUS
  <2>2. (j + 1) * n <= Len(u)
    <3>1. k * n <= f * n
      BY Z3
    <3>2. k * n \in Nat /\ f * n \in Nat
      OBVIOUS
    <3>3. QED BY <1>1, <2>1, <3>1, <3>2
  <2> HIDE DEF j
  <2>3. Len(Chunk(u, n, j + 1)) = n
    BY <2>1, <2>2, ChunkShape
  <2>4. QED BY <2>1, <2>3
<1>4. QED BY <1>2, <1>3 DEF Cut

\* A list of one list.
LEMMA FlattenOne ==
  ASSUME NEW S, NEW t \in Seq(S)
  PROVE  FlattenSeq(<<t>>) = t
<1>1. <<t>> = Append(<< >>, t) /\ << >> \in Seq(Seq(S))
  OBVIOUS
<1>2. FlattenSeq(Append(<< >>, t)) = FlattenSeq(<< >>) \o t
  BY <1>1, FlattenAppend
<1>3. << >> \o t = t
  BY ConcatEmptySeq
<1>4. QED BY <1>1, <1>2, <1>3, FlattenEmpty, Zenon

\* What % leaves is less than one chunk.
LEMMA Division ==
  ASSUME NEW l \in Nat, NEW n \in Nat \ {0}
  PROVE  l \div n \in Nat /\ (l \div n) * n <= l /\ l < (l \div n) * n + n
  OBVIOUS

\* decode(): what was kept and what comes is what is yielded and what is kept.
LEMMA FeedShape ==
  ASSUME NEW d \in Dec,
         NEW t \in Text, t # << >>, NEW n,
         n = None => d.buffer = << >>, n # None => n \in Nat \ {0}
  PROVE  LET r == FeedChunks(d, t, n)
         IN  /\ r.items \in Seq(Text) /\ r.dec.buffer \in Text
             /\ r.dec \in Dec
             /\ FlattenSeq(r.items) \o r.dec.buffer = d.buffer \o t
             /\ r.error = FALSE
             /\ n = None => r.dec.buffer = << >>
             /\ n # None => /\ Len(r.dec.buffer) < n
                            /\ \A k \in 1 .. Len(r.items) : Len(r.items[k]) = n
<1>1. CASE n = None
  <2>1. FeedChunks(d, t, n) = [dec |-> d, items |-> <<t>>, error |-> FALSE]
    BY <1>1 DEF FeedChunks, Result
  <2>2. <<t>> = Append(<< >>, t) /\ << >> \in Seq(Seq(Chars)) /\ t \in Seq(Chars)
    BY DEF Text
  <2>3. FlattenSeq(<<t>>) = t
    <3>1. FlattenSeq(Append(<< >>, t)) = FlattenSeq(<< >>) \o t
      BY <2>2, FlattenAppend
    <3>2. << >> \o t = t
      BY <2>2, ConcatEmptySeq
    <3>3. QED BY <2>2, <3>1, <3>2, FlattenEmpty, Zenon
  <2>4. t \o << >> = t /\ << >> \o t = t
    BY <2>2, ConcatEmptySeq
  <2>5. d.buffer \in Text
    BY DEF Dec
  <2>6. <<t>> \in Seq(Text)
    OBVIOUS
  <2>7. FlattenSeq(<<t>>) \o d.buffer = d.buffer \o t
    BY <1>1, <2>3, <2>4
  <2> DEFINE r == FeedChunks(d, t, n)
  <2>8. r.items = <<t>> /\ r.dec = d /\ r.error = FALSE
    BY <2>1
  <2> HIDE DEF r
  <2>9. QED BY <1>1, <2>5, <2>6, <2>7, <2>8 DEF r
<1>2. CASE n # None
  <2> DEFINE u == d.buffer \o t
             full == Len(u) \div n
  <2>1. n \in Nat \ {0}
    BY <1>2
  <2>2. u \in Text /\ Len(u) \in Nat
    <3>1. d.buffer \in Text
      BY DEF Dec
    <3>2. QED BY <3>1 DEF Text
  <2>3. full \in Nat /\ full * n <= Len(u) /\ Len(u) < full * n + n
    BY <2>1, <2>2, Division
  <2>4. FeedChunks(d, t, n) = [dec |-> [d EXCEPT !.buffer = SubSeq(u, full * n + 1, Len(u))],
                               items |-> Cut(u, n, full), error |-> FALSE]
    BY <1>2 DEF FeedChunks, Result, Cut
  <2> HIDE DEF u, full
  <2> DEFINE m == full * n
  <2>5. m \in Nat /\ m <= Len(u) /\ Len(u) < m + n
    BY <2>1, <2>3
  <2>6. /\ Cut(u, n, full) \in Seq(Text) /\ FlattenSeq(Cut(u, n, full)) = SubSeq(u, 1, m)
        /\ \A k \in 1 .. full : Len(Cut(u, n, full)[k]) = n
    BY <2>1, <2>2, <2>3, CutFlat
  <2>7. Len(Cut(u, n, full)) = full
    BY <2>3 DEF Cut
  <2> HIDE DEF m
  <2> DEFINE rest == SubSeq(u, m + 1, Len(u))
  <2>8. rest \in Text /\ Len(rest) < n
    <3>1. \A i \in (m + 1) .. Len(u) : u[i] \in Chars
      BY <2>2, <2>5 DEF Text
    <3>2. rest \in Seq(Chars) /\ Len(rest) = IF m + 1 <= Len(u) THEN Len(u) - (m + 1) + 1 ELSE 0
      BY <2>2, <2>5, <3>1, SubSeqProperties
    <3>3. QED BY <2>1, <2>2, <2>5, <3>2 DEF Text
  <2>9. SubSeq(u, 1, m) \o SubSeq(u, m + 1, Len(u)) = u
    <3>1. SubSeq(u, 1, m) \o SubSeq(u, m + 1, Len(u)) = SubSeq(u, 1, Len(u))
      <4>1. u \in Seq(Chars)
        BY <2>2 DEF Text
      <4>2. /\ 1 \in 1 .. Len(u) + 1 /\ m \in 1 - 1 .. Len(u) /\ Len(u) \in m .. Len(u)
        BY <2>2, <2>5
      <4>3. QED BY <4>1, <4>2, ConcatAdjacentSubSeq
    <3>2. QED BY <2>2, <3>1, SubSeqFull DEF Text
  <2> DEFINE r == FeedChunks(d, t, n)
             items == Cut(u, n, full)
  <2>10. r.dec = [d EXCEPT !.buffer = rest] /\ r.items = items /\ r.error = FALSE
    BY <2>4 DEF m
  <2> HIDE DEF r, items, rest
  <2>11. r.dec.buffer = rest /\ r.dec \in Dec
    BY <2>8, <2>10 DEF Dec
  <2>12. /\ items \in Seq(Text) /\ FlattenSeq(items) \o rest = d.buffer \o t
         /\ \A k \in 1 .. Len(items) : Len(items[k]) = n
    BY <2>6, <2>7, <2>9 DEF items, rest, u
  <2>13. QED BY <1>2, <2>8, <2>10, <2>11, <2>12 DEF r
<1>3. QED BY <1>1, <1>2


\* flush(): what was kept is yielded.
LEMMA FlushShape ==
  ASSUME NEW d \in Dec
  PROVE  LET r == FlushChunks(d)
         IN  /\ r.items \in Seq(Text) /\ r.dec = NoDecoding /\ r.error = FALSE
             /\ FlattenSeq(r.items) = d.buffer
             /\ r.items = << >> \/ r.items = <<d.buffer>>
<1> DEFINE r == FlushChunks(d)
<1>1. d.buffer \in Text /\ << >> \in Seq(Text)
  BY EmptyList DEF Dec
<1>2. r.dec = NoDecoding /\ r.error = FALSE
      /\ r.items = IF d.buffer = << >> THEN << >> ELSE <<d.buffer>>
  BY DEF FlushChunks, Result
<1> HIDE DEF r
<1>3. CASE d.buffer = << >>
  BY <1>1, <1>2, <1>3, FlattenEmpty DEF r
<1>4. CASE d.buffer # << >>
  <2>1. r.items = <<d.buffer>> /\ <<d.buffer>> \in Seq(Text)
    BY <1>1, <1>2, <1>4
  <2>2. FlattenSeq(<<d.buffer>>) = d.buffer
    BY <1>1, FlattenOne DEF Text
  <2>3. QED BY <1>2, <2>1, <2>2 DEF r
<1>5. QED BY <1>3, <1>4

\* The decoder at the start.
LEMMA NoDecodingShape == NoDecoding \in Dec /\ NoDecoding.buffer = << >> /\ << >> \in Text
  BY EmptyList DEF NoDecoding, Dec, Text

-----------------------------------------------------------------------------
(***************************************************************************)
(* Lines, character by character.                                          *)
(***************************************************************************)
\* A stretch of a text and one more character.
LEMMA SubSeqWithin ==
  ASSUME NEW S, NEW t \in Seq(S), NEW c \in S, NEW a \in Nat \ {0}, NEW b \in Int, b <= Len(t)
  PROVE  SubSeq(t, a, b) \in Seq(S) /\ SubSeq(Append(t, c), a, b) = SubSeq(t, a, b)
<1> DEFINE u == Append(t, c)
<1>1. /\ u \in Seq(S) /\ Len(u) = Len(t) + 1 /\ Len(t) \in Nat
      /\ \A i \in 1 .. Len(t) : u[i] = t[i]
  BY AppendOf
<1> HIDE DEF u
<1>2. \A i \in a .. b : i \in 1 .. Len(t)
  BY <1>1
<1>3. \A i \in a .. b : t[i] \in S /\ u[i] \in S /\ u[i] = t[i]
  BY <1>1, <1>2
<1>4. /\ SubSeq(t, a, b) \in Seq(S)
      /\ Len(SubSeq(t, a, b)) = IF a <= b THEN b - a + 1 ELSE 0
      /\ \A i \in 1 .. b - a + 1 : SubSeq(t, a, b)[i] = t[a + i - 1]
  BY <1>3, SubSeqProperties
<1>5. /\ SubSeq(u, a, b) \in Seq(S)
      /\ Len(SubSeq(u, a, b)) = IF a <= b THEN b - a + 1 ELSE 0
      /\ \A i \in 1 .. b - a + 1 : SubSeq(u, a, b)[i] = u[a + i - 1]
  BY <1>3, SubSeqProperties
<1>6. \A i \in 1 .. Len(SubSeq(u, a, b)) : SubSeq(u, a, b)[i] = SubSeq(t, a, b)[i]
  <2>1. ASSUME NEW i \in 1 .. Len(SubSeq(u, a, b)) PROVE SubSeq(u, a, b)[i] = SubSeq(t, a, b)[i]
    <3>1. i \in 1 .. b - a + 1 /\ a + i - 1 \in a .. b
      BY <1>5
    <3>2. QED BY <1>3, <1>4, <1>5, <3>1
  <2>2. QED BY <2>1
<1>7. SubSeq(u, a, b) = SubSeq(t, a, b)
  BY <1>4, <1>5, <1>6, SeqEqual
<1>8. QED BY <1>4, <1>7 DEF u

\* The end of a list and one element more.
LEMMA SubSeqToEnd ==
  ASSUME NEW S, NEW t \in Seq(S), NEW c \in S, NEW a \in Nat \ {0}, a <= Len(t) + 1
  PROVE  SubSeq(Append(t, c), a, Len(t) + 1) = Append(SubSeq(t, a, Len(t)), c)
<1> DEFINE u == Append(t, c)
           n == Len(t)
<1>1. /\ u \in Seq(S) /\ Len(u) = n + 1 /\ n \in Nat /\ u[n + 1] = c
  BY AppendOf
<1>2. SubSeq(u, a, n) = SubSeq(t, a, n) /\ SubSeq(t, a, n) \in Seq(S)
  BY <1>1, SubSeqWithin
<1>3. SubSeq(u, a, n + 1) = SubSeq(u, a, (n + 1) - 1) \o << u[n + 1] >>
  <2>1. a \in 1 .. Len(u) /\ n + 1 \in a .. Len(u)
    BY <1>1
  <2> HIDE DEF u, n
  <2>2. QED BY <1>1, <2>1, SubSeqRecursiveSecond
<1>4. (n + 1) - 1 = n
  BY <1>1
<1>5. Append(SubSeq(t, a, n), c) = SubSeq(t, a, n) \o <<c>>
  BY <1>2, AppendIsConcat
<1>6. QED BY <1>1, <1>2, <1>3, <1>4, <1>5

\* Where the lines of a text end.
LEMMA EndsTyped ==
  ASSUME NEW t \in Text
  PROVE  /\ LineEnds(t) \in SUBSET (1 .. Len(t)) /\ Len(t) \in Nat
         /\ Ascending(LineEnds(t)) \in Seq(1 .. Len(t))
<1>1. DOMAIN t = 1 .. Len(t) /\ Len(t) \in Nat
  BY LenProperties DEF Text
<1>2. LineEnds(t) \in SUBSET (1 .. Len(t))
  BY <1>1 DEF LineEnds
<1>3. Ascending(LineEnds(t)) \in Seq(LineEnds(t))
  BY <1>1, <1>2, AscendingEnumerates
<1>4. QED BY <1>1, <1>2, <1>3, SeqMonotonic

\* One more character ends a line, belongs to the end before it, or ends nothing.
LEMMA EndsStep ==
  ASSUME NEW t \in Text, NEW c \in Chars
  PROVE  LET n == Len(t)
         IN  LineEnds(Append(t, c)) =
               IF c \notin Newlines THEN LineEnds(t)
               ELSE IF c = "lf" /\ n > 0 /\ t[n] = "cr" THEN (LineEnds(t) \ {n}) \cup {n + 1}
               ELSE LineEnds(t) \cup {n + 1}
<1> DEFINE n == Len(t)
           u == Append(t, c)
           E == LineEnds(t)
           F == LineEnds(u)
<1>1. /\ n \in Nat /\ DOMAIN t = 1 .. n /\ DOMAIN u = 1 .. (n + 1) /\ Len(u) = n + 1
      /\ \A i \in 1 .. n : u[i] = t[i]
      /\ u[n + 1] = c
  BY AppendOf, LenProperties DEF Text
<1>2. \A i : i \in E <=> i \in 1 .. n /\ (t[i] = "lf" \/ (t[i] = "cr" /\ ~(i < n /\ t[i + 1] = "lf")))
  BY <1>1 DEF LineEnds
<1>3. \A i : i \in F <=> i \in 1 .. (n + 1) /\ (u[i] = "lf" \/ (u[i] = "cr" /\ ~(i < n + 1 /\ u[i + 1] = "lf")))
  BY <1>1 DEF LineEnds
<1> HIDE DEF n, u, E, F
<1>4. \A i \in 1 .. n : i < n => (i \in F <=> i \in E)
  <2>1. ASSUME NEW i \in 1 .. n, i < n PROVE i \in F <=> i \in E
    <3>1. i \in 1 .. (n + 1) /\ i + 1 \in 1 .. n /\ i < n + 1
      BY <1>1, <2>1
    <3>2. u[i] = t[i] /\ u[i + 1] = t[i + 1]
      BY <1>1, <3>1
    <3>3. QED BY <1>2, <1>3, <2>1, <3>1, <3>2
  <2>2. QED BY <2>1
<1>5. n + 1 \in F <=> c \in Newlines
  <2>1. n + 1 \in 1 .. (n + 1) /\ ~ (n + 1 < n + 1)
    BY <1>1
  <2>2. QED BY <1>1, <1>3, <2>1 DEF Newlines
<1>6. n > 0 => (n \in E <=> t[n] \in Newlines) /\ (n \in F <=> t[n] = "lf" \/ (t[n] = "cr" /\ c # "lf"))
  <2>1. SUFFICES ASSUME n > 0
                 PROVE  (n \in E <=> t[n] \in Newlines)
                        /\ (n \in F <=> t[n] = "lf" \/ (t[n] = "cr" /\ c # "lf"))
    OBVIOUS
  <2>2. n \in 1 .. n /\ n \in 1 .. (n + 1) /\ ~ (n < n) /\ n < n + 1 /\ u[n] = t[n]
    BY <1>1, <2>1
  <2>3. QED BY <1>1, <1>2, <1>3, <2>2 DEF Newlines
<1>7. \A i : i \in F => (i \in 1 .. n /\ i < n) \/ (i = n /\ n > 0) \/ i = n + 1
  BY <1>1, <1>3
<1>8. \A i : i \in E => (i \in 1 .. n /\ i < n) \/ (i = n /\ n > 0)
  BY <1>1, <1>2
<1>9. CASE c \notin Newlines
  <2>1. c # "lf"
    BY <1>9 DEF Newlines
  <2>2. \A i : i \in F <=> i \in E
    BY <1>4, <1>5, <1>6, <1>7, <1>8, <1>9, <2>1 DEF Newlines
  <2>3. QED BY <1>9, <2>2 DEF F, E, u
<1>10. CASE c \in Newlines /\ ~(c = "lf" /\ n > 0 /\ t[n] = "cr")
  <2>1. n > 0 => (n \in F <=> n \in E)
    BY <1>6, <1>10 DEF Newlines
  <2>2. \A i : i \in F <=> i \in E \/ i = n + 1
    BY <1>4, <1>5, <1>7, <1>8, <1>10, <2>1
  <2>3. F = E \cup {n + 1}
    BY <2>2
  <2>4. QED BY <1>10, <2>3 DEF F, E, u, n
<1>11. CASE c \in Newlines /\ c = "lf" /\ n > 0 /\ t[n] = "cr"
  <2>1. n \notin F /\ n \in E
    BY <1>6, <1>11 DEF Newlines
  <2>2. \A i : i \in F <=> (i \in E /\ i # n) \/ i = n + 1
    BY <1>1, <1>4, <1>5, <1>7, <1>8, <1>11, <2>1
  <2>3. F = (E \ {n}) \cup {n + 1}
    BY <2>2
  <2>4. QED BY <1>11, <2>3 DEF F, E, u, n
<1>12. QED BY <1>9, <1>10, <1>11

\* The lines that end at the places e, and where the next one begins.
Cuts(t, e) ==
  [k \in DOMAIN e |-> SubSeq(t, IF k = 1 THEN 1 ELSE e[k - 1] + 1, e[k] - Width(t, e[k]))]
After(e) == IF e = << >> THEN 1 ELSE e[Len(e)] + 1

\* What is cut at some places are texts, and the next one begins inside the text.
LEMMA CutsTyped ==
  ASSUME NEW t \in Text, NEW e \in Seq(1 .. Len(t))
  PROVE  /\ Cuts(t, e) \in Seq(Text) /\ Len(Cuts(t, e)) = Len(e)
         /\ After(e) \in 1 .. (Len(t) + 1)
<1>1. /\ Len(e) \in Nat /\ DOMAIN e = 1 .. Len(e) /\ \A k \in 1 .. Len(e) : e[k] \in 1 .. Len(t)
      /\ Len(t) \in Nat
  BY LenProperties DEF Text
<1>2. ASSUME NEW k \in 1 .. Len(e)
      PROVE  SubSeq(t, IF k = 1 THEN 1 ELSE e[k - 1] + 1, e[k] - Width(t, e[k])) \in Text
  <2> DEFINE a == IF k = 1 THEN 1 ELSE e[k - 1] + 1
             b == e[k] - Width(t, e[k])
  <2>1. a \in Nat \ {0} /\ b \in Int /\ b <= Len(t)
    <3>1. e[k] \in 1 .. Len(t) /\ Width(t, e[k]) \in {1, 2}
      BY <1>1 DEF Width
    <3>2. k # 1 => e[k - 1] \in 1 .. Len(t)
      <4>1. k # 1 => k - 1 \in 1 .. Len(e)
        BY <1>1
      <4>2. QED BY <1>1, <4>1
    <3>3. QED BY <1>1, <3>1, <3>2
  <2> HIDE DEF a, b
  <2>2. t \in Seq(Chars)
    BY DEF Text
  <2>3. "lf" \in Chars
    BY DEF Chars
  <2>4. SubSeq(t, a, b) \in Seq(Chars)
    BY <2>1, <2>2, <2>3, SubSeqWithin
  <2>5. QED BY <2>4 DEF a, b, Text
<1>3. Cuts(t, e) \in Seq(Text) /\ Len(Cuts(t, e)) = Len(e)
  <2>1. \A k \in 1 .. Len(e) : Cuts(t, e)[k] \in Text
    BY <1>1, <1>2 DEF Cuts
  <2>2. Cuts(t, e) = [k \in 1 .. Len(e) |-> Cuts(t, e)[k]]
    BY <1>1 DEF Cuts
  <2> HIDE DEF Text
  <2>3. QED BY <1>1, <2>1, <2>2
<1>4. After(e) \in 1 .. (Len(t) + 1)
  <2>1. e # << >> => Len(e) \in 1 .. Len(e)
    BY <1>1, EmptySeq
  <2>2. QED BY <1>1, <2>1 DEF After
<1>5. QED BY <1>3, <1>4

\* A character behind them changes none of them.
LEMMA CutsSame ==
  ASSUME NEW t \in Text, NEW c \in Chars, NEW e \in Seq(1 .. Len(t))
  PROVE  Cuts(Append(t, c), e) = Cuts(t, e)
<1> DEFINE u == Append(t, c)
<1>1. /\ Len(e) \in Nat /\ DOMAIN e = 1 .. Len(e) /\ \A k \in 1 .. Len(e) : e[k] \in 1 .. Len(t)
      /\ Len(t) \in Nat
  BY LenProperties DEF Text
<1>2. \A i \in 1 .. Len(t) : u[i] = t[i]
  BY AppendOf DEF Text
<1> HIDE DEF u
<1>3. ASSUME NEW k \in 1 .. Len(e)
      PROVE  SubSeq(u, IF k = 1 THEN 1 ELSE e[k - 1] + 1, e[k] - Width(u, e[k]))
             = SubSeq(t, IF k = 1 THEN 1 ELSE e[k - 1] + 1, e[k] - Width(t, e[k]))
  <2> DEFINE a == IF k = 1 THEN 1 ELSE e[k - 1] + 1
             b == e[k] - Width(t, e[k])
  <2>0. Width(u, e[k]) = Width(t, e[k])
    <3>1. e[k] \in 1 .. Len(t) /\ (e[k] > 1 => e[k] - 1 \in 1 .. Len(t))
      BY <1>1
    <3>2. QED BY <1>2, <3>1 DEF Width
  <2>1. a \in Nat \ {0} /\ b \in Int /\ b <= Len(t)
    <3>1. e[k] \in 1 .. Len(t) /\ Width(t, e[k]) \in {1, 2}
      BY <1>1 DEF Width
    <3>2. k # 1 => e[k - 1] \in 1 .. Len(t)
      <4>1. k # 1 => k - 1 \in 1 .. Len(e)
        BY <1>1
      <4>2. QED BY <1>1, <4>1
    <3>3. QED BY <1>1, <3>1, <3>2
  <2> HIDE DEF a, b
  <2>2. t \in Seq(Chars)
    BY DEF Text
  <2>3. SubSeq(u, a, b) = SubSeq(t, a, b)
    BY <2>1, <2>2, SubSeqWithin DEF u
  <2>4. QED BY <2>0, <2>3 DEF a, b
<1> DEFINE X(k) == SubSeq(u, IF k = 1 THEN 1 ELSE e[k - 1] + 1, e[k] - Width(u, e[k]))
           Y(k) == SubSeq(t, IF k = 1 THEN 1 ELSE e[k - 1] + 1, e[k] - Width(t, e[k]))
<1>4. Cuts(u, e) = Cuts(t, e)
  <2>1. \A k \in DOMAIN e : X(k) = Y(k)
    BY <1>1, <1>3
  <2>2. Cuts(u, e) = [k \in DOMAIN e |-> X(k)] /\ Cuts(t, e) = [k \in DOMAIN e |-> Y(k)]
    BY DEF Cuts
  <2> HIDE DEF X, Y
  <2>3. QED BY <2>1, <2>2
<1>5. QED BY <1>4 DEF u

\* One more line.
LEMMA CutsAppend ==
  ASSUME NEW t \in Text, NEW e \in Seq(1 .. Len(t)), NEW m \in 1 .. Len(t)
  PROVE  Cuts(t, Append(e, m)) = Append(Cuts(t, e), SubSeq(t, After(e), m - Width(t, m)))
<1> DEFINE f == Append(e, m)
           n == Len(e)
           x == SubSeq(t, After(e), m - Width(t, m))
<1>1. /\ f \in Seq(1 .. Len(t)) /\ Len(f) = n + 1 /\ n \in Nat /\ DOMAIN e = 1 .. n
      /\ DOMAIN f = 1 .. (n + 1)
      /\ \A i \in 1 .. n : f[i] = e[i]
      /\ f[n + 1] = m
  BY AppendOf, LenProperties
<1>2. Cuts(t, e) \in Seq(Text) /\ Len(Cuts(t, e)) = n
  BY CutsTyped
<1>3. Cuts(t, f) \in Seq(Text) /\ Len(Cuts(t, f)) = n + 1
  BY <1>1, CutsTyped
<1>4. n = 0 <=> e = << >>
  BY EmptySeq
<1> HIDE DEF f, n
<1>5. Cuts(t, f)[n + 1] = x
  <2>1. n + 1 \in DOMAIN f
    BY <1>1
  <2>2. (IF n + 1 = 1 THEN 1 ELSE f[(n + 1) - 1] + 1) = After(e)
    <3>1. CASE n = 0
      BY <1>4, <3>1 DEF After
    <3>2. CASE n # 0
      <4>1. (n + 1) - 1 = n /\ n \in 1 .. n /\ n + 1 # 1
        BY <1>1, <3>2
      <4>2. QED BY <1>1, <1>4, <3>2, <4>1 DEF After, n
    <3>3. QED BY <3>1, <3>2
  <2>3. Cuts(t, f)[n + 1] =
          SubSeq(t, IF n + 1 = 1 THEN 1 ELSE f[(n + 1) - 1] + 1, f[n + 1] - Width(t, f[n + 1]))
    BY <2>1 DEF Cuts
  <2>4. QED BY <1>1, <2>2, <2>3
<1> HIDE DEF x
<1>6. x \in Text
  <2>1. n + 1 \in 1 .. Len(Cuts(t, f))
    BY <1>1, <1>3
  <2> HIDE DEF Text
  <2>2. Cuts(t, f)[n + 1] \in Text
    BY <1>3, <2>1, ElementOfSeq
  <2>3. QED BY <1>5, <2>2
<1>7. \A k \in 1 .. n : Cuts(t, f)[k] = Cuts(t, e)[k]
  <2>1. ASSUME NEW k \in 1 .. n PROVE Cuts(t, f)[k] = Cuts(t, e)[k]
    <3>1. k \in DOMAIN f /\ k \in DOMAIN e /\ f[k] = e[k]
      BY <1>1
    <3>2. k # 1 => f[k - 1] = e[k - 1]
      BY <1>1
    <3>3. QED BY <3>1, <3>2 DEF Cuts
  <2>2. QED BY <2>1
<1> DEFINE a == Append(Cuts(t, e), x)
<1>8. /\ a \in Seq(Text) /\ Len(a) = n + 1 /\ a[n + 1] = x
      /\ \A k \in 1 .. n : a[k] = Cuts(t, e)[k]
  BY <1>2, <1>6, AppendOf
<1> HIDE DEF a
<1>9. \A k \in 1 .. (n + 1) : Cuts(t, f)[k] = a[k]
  <2>1. \A k \in 1 .. (n + 1) : k \in 1 .. n \/ k = n + 1
    BY <1>1
  <2>2. QED BY <1>5, <1>7, <1>8, <2>1
<1>10. Cuts(t, f) = a
  BY <1>3, <1>8, <1>9, SeqEqual
<1>11. QED BY <1>10 DEF a, f, x

\* The last of the places is the largest.
LEMMA ListEnds ==
  ASSUME NEW n \in Nat, NEW S \in SUBSET (1 .. n)
  PROVE  LET e == Ascending(S)
         IN  /\ e \in Seq(S) /\ (e = << >> <=> S = {})
             /\ S # {} => /\ e[Len(e)] \in S /\ \A i \in S : i <= e[Len(e)]
<1> DEFINE e == Ascending(S)
           c == Cardinality(S)
<1>1. c \in Nat /\ Enumerates(e, c, S) /\ e \in Seq(S) /\ Len(e) = c
  BY AscendingEnumerates
<1> HIDE DEF e, c
<1>2. e = << >> <=> c = 0
  BY <1>1, EmptySeq
<1>3. ASSUME c # 0 PROVE e[c] \in S /\ \A i \in S : i <= e[c]
  <2>1. c \in 1 .. c
    BY <1>1, <1>3
  <2>2. e[c] \in S /\ S \subseteq Int
    BY <1>1, <2>1 DEF Enumerates
  <2>3. ASSUME NEW i \in S PROVE i <= e[c]
    <3>1. PICK k \in 1 .. c : e[k] = i
      BY <1>1 DEF Enumerates
    <3>2. k = c \/ k < c
      BY <1>1
    <3>3. k < c => e[k] < e[c]
      BY <1>1, <2>1 DEF Enumerates
    <3>4. e[c] \in Int /\ i \in Int
      BY <2>2
    <3>5. QED BY <3>1, <3>2, <3>3, <3>4
  <2>4. QED BY <2>2, <2>3
<1>4. c = 0 => S = {}
  BY <1>1 DEF Enumerates
<1>5. c # 0 => S # {}
  BY <1>3
<1>6. QED BY <1>1, <1>2, <1>3, <1>4, <1>5 DEF e, c

\* The lines of a text and what follows them, by where its lines end.
LEMMA LinesCut ==
  ASSUME NEW t \in Text
  PROVE  LET e == Ascending(LineEnds(t))
         IN  /\ e \in Seq(1 .. Len(t))
             /\ Ended(t) = Cuts(t, e) /\ Rest(t) = SubSeq(t, After(e), Len(t))
             /\ Ended(t) \in Seq(Text) /\ Rest(t) \in Text
<1> DEFINE S == LineEnds(t)
           e == Ascending(S)
           last == CHOOSE i \in S \cup {0} : \A j \in S : j <= i
<1>1. S \in SUBSET (1 .. Len(t)) /\ Len(t) \in Nat /\ e \in Seq(1 .. Len(t))
  BY EndsTyped
<1>2. Ended(t) = Cuts(t, e)
  BY DEF Ended, Cuts
<1>3. Rest(t) = SubSeq(t, last + 1, Len(t))
  BY DEF Rest
<1>4. Cuts(t, e) \in Seq(Text) /\ After(e) \in 1 .. (Len(t) + 1)
  BY <1>1, CutsTyped
<1>5. last + 1 = After(e)
  <2>1. /\ e = << >> <=> S = {}
        /\ S # {} => /\ e[Len(e)] \in S /\ \A i \in S : i <= e[Len(e)]
    BY <1>1, ListEnds
  <2> HIDE DEF S, e
  <2>2. CASE S = {}
    <3>1. last = 0
      BY <2>2
    <3>2. QED BY <2>1, <2>2, <3>1 DEF After
  <2>3. CASE S # {}
    <3> DEFINE m == e[Len(e)]
    <3>1. m \in S \cup {0} /\ \A j \in S : j <= m
      BY <2>1, <2>3
    <3>2. m \in S /\ \A i \in S \cup {0} : i \in Int /\ i <= m
      <4>1. m \in S /\ \A i \in S : i <= m
        BY <2>1, <2>3
      <4> HIDE DEF m
      <4>2. \A i \in S : i \in 1 .. Len(t)
        BY <1>1
      <4>3. QED BY <4>1, <4>2
    <3> HIDE DEF m
    <3>3. \A i \in S \cup {0} : (\A j \in S : j <= i) => i = m
      BY <3>1, <3>2
    <3>4. last = m
      BY <3>1, <3>3
    <3>5. After(e) = m + 1
      BY <2>1, <2>3 DEF After, m
    <3>6. QED BY <3>4, <3>5
  <2>4. QED BY <2>2, <2>3
<1> HIDE DEF last, S
<1>6. SubSeq(t, After(e), Len(t)) \in Text
  <2>1. "lf" \in Chars /\ t \in Seq(Chars) /\ After(e) \in Nat \ {0} /\ Len(t) \in Int
    BY <1>1, <1>4 DEF Chars, Text
  <2> HIDE DEF e
  <2>2. QED BY <2>1, SubSeqWithin DEF Text
<1>7. QED BY <1>1, <1>2, <1>3, <1>4, <1>5, <1>6 DEF S

\* An empty text has no lines.
LEMMA NoLines == Ended(<< >>) = << >> /\ Rest(<< >>) = << >>
<1>1. << >> \in Text /\ Len(<< >>) = 0
  BY EmptyList DEF Text
<1>2. LineEnds(<< >>) \in SUBSET (1 .. 0)
  BY <1>1, EndsTyped
<1>3. LineEnds(<< >>) = {}
  BY <1>2
<1>4. Ascending(LineEnds(<< >>)) = << >>
  BY <1>3, AscendingEmpty
<1>5. Rest(<< >>) = SubSeq(<< >>, 1, 0) /\ Ended(<< >>) = Cuts(<< >>, << >>)
  BY <1>1, <1>4, LinesCut DEF After
<1>6. Cuts(<< >>, << >>) = << >>
  BY DEF Cuts
<1>7. QED BY <1>5, <1>6, SubSeqEmpty

EndsInCr(t) == t # << >> /\ Last(t) = "cr"
\* c behind t ends no line of its own.
Continues(t, c) == c \notin Newlines \/ (c = "lf" /\ EndsInCr(t))

\* The lines of a text and one character more.
LEMMA LinesStep ==
  ASSUME NEW t \in Text, NEW c \in Chars
  PROVE  /\ Ended(Append(t, c)) = IF Continues(t, c) THEN Ended(t) ELSE Append(Ended(t), Rest(t))
         /\ Rest(Append(t, c)) = IF c \in Newlines THEN << >> ELSE Append(Rest(t), c)
         /\ EndsInCr(t) /\ c = "lf" => Rest(t) = << >>
<1> DEFINE n == Len(t)
           u == Append(t, c)
           E == LineEnds(t)
           F == LineEnds(u)
           e == Ascending(E)
           f == Ascending(F)
<1>1. /\ n \in Nat /\ DOMAIN t = 1 .. n /\ DOMAIN u = 1 .. (n + 1) /\ Len(u) = n + 1
      /\ \A i \in 1 .. n : u[i] = t[i]
      /\ u[n + 1] = c /\ u \in Text
  BY AppendOf, LenProperties DEF Text
<1>2. EndsInCr(t) <=> n > 0 /\ t[n] = "cr"
  BY <1>1, EmptySeq DEF EndsInCr, Last, Text
<1>3. F = IF c \notin Newlines THEN E
          ELSE IF c = "lf" /\ n > 0 /\ t[n] = "cr" THEN (E \ {n}) \cup {n + 1}
          ELSE E \cup {n + 1}
  BY EndsStep
<1>4. /\ E \in SUBSET (1 .. n) /\ e \in Seq(1 .. n)
      /\ Ended(t) = Cuts(t, e) /\ Rest(t) = SubSeq(t, After(e), n)
      /\ Ended(t) \in Seq(Text) /\ Rest(t) \in Text
      /\ After(e) \in 1 .. (n + 1)
  BY LinesCut, EndsTyped, CutsTyped
<1>5. /\ f \in Seq(1 .. (n + 1))
      /\ Ended(u) = Cuts(u, f) /\ Rest(u) = SubSeq(u, After(f), n + 1)
  <2>1. LET h == Ascending(LineEnds(u))
         IN  /\ h \in Seq(1 .. Len(u))
             /\ Ended(u) = Cuts(u, h) /\ Rest(u) = SubSeq(u, After(h), Len(u))
    <3> HIDE DEF u
    <3>1. QED BY <1>1, LinesCut
  <2>2. QED BY <1>1, <2>1
<1>6. t \in Seq(Chars) /\ Cuts(u, e) = Cuts(t, e)
  BY <1>4, CutsSame DEF Text
<1>7. CASE c \notin Newlines
  <2>1. f = e
    BY <1>3, <1>7
  <2>2. SubSeq(u, After(e), n + 1) = Append(SubSeq(t, After(e), n), c)
    BY <1>1, <1>4, <1>6, SubSeqToEnd
  <2>3. Continues(t, c) /\ c # "lf"
    BY <1>7 DEF Continues, Newlines
  <2>4. QED BY <1>4, <1>5, <1>6, <1>7, <2>1, <2>2, <2>3
<1>8. CASE c \in Newlines /\ ~(c = "lf" /\ n > 0 /\ t[n] = "cr")
  <2>1. f = Append(e, n + 1)
    <3>1. F = E \cup {n + 1} /\ n + 1 \in Nat /\ n < n + 1
      BY <1>1, <1>3, <1>8
    <3>2. f = Ascending(F) /\ e = Ascending(E)
      OBVIOUS
    <3> HIDE DEF E, F, e, f
    <3>3. QED BY <1>1, <1>4, <3>1, <3>2, AscendingStep
  <2>2. Cuts(u, Append(e, n + 1)) = Append(Cuts(u, e), SubSeq(u, After(e), (n + 1) - Width(u, n + 1)))
    <3>1. e \in Seq(1 .. Len(u)) /\ n + 1 \in 1 .. Len(u)
      BY <1>1, <1>4, SeqMonotonic
    <3> HIDE DEF e, u
    <3>2. QED BY <1>1, <3>1, CutsAppend
  <2>3. Width(u, n + 1) = 1
    <3>1. (n + 1) - 1 = n
      BY <1>1
    <3>2. n > 0 => n \in 1 .. n
      BY <1>1
    <3> HIDE DEF u
    <3>3. QED BY <1>1, <1>8, <3>1, <3>2 DEF Width
  <2>4. SubSeq(u, After(e), n) = SubSeq(t, After(e), n)
    BY <1>1, <1>4, <1>6, SubSeqWithin
  <2>5. After(f) = n + 2
    <3>1. Append(e, n + 1) # << >> /\ Len(Append(e, n + 1)) = Len(e) + 1 /\ Append(e, n + 1)[Len(e) + 1] = n + 1
      <4>1. e \in Seq(Nat) /\ n + 1 \in Nat
        BY <1>1, <1>4, SeqMonotonic
      <4> HIDE DEF e
      <4>2. QED BY <4>1, AppendOf, EmptySeq
    <3> HIDE DEF e, f
    <3>2. QED BY <1>1, <2>1, <3>1 DEF After
  <2>6. Rest(u) = << >>
    BY <1>1, <1>5, <2>5, SubSeqEmpty
  <2>7. ~Continues(t, c)
    BY <1>2, <1>8 DEF Continues
  <2>8. (n + 1) - 1 = n
    BY <1>1
  <2> HIDE DEF e, f, u
  <2>9. Ended(u) = Append(Ended(t), Rest(t))
    BY <1>4, <1>5, <1>6, <2>1, <2>2, <2>3, <2>4, <2>8
  <2>10. QED BY <1>2, <1>8, <2>6, <2>7, <2>9 DEF u
<1>9. CASE c \in Newlines /\ c = "lf" /\ n > 0 /\ t[n] = "cr"
  <2> DEFINE D == E \ {n}
             d == Ascending(D)
  <2>1. n \in E
    BY <1>1, <1>9 DEF LineEnds
  <2>2. D \in SUBSET (1 .. (n - 1)) /\ n - 1 \in Nat /\ E = D \cup {n} /\ F = D \cup {n + 1}
    BY <1>1, <1>3, <1>4, <1>9, <2>1
  <2>3. e = Append(d, n) /\ f = Append(d, n + 1)
    <3>1. n \in Nat /\ n + 1 \in Nat /\ n - 1 < n /\ n - 1 < n + 1
      BY <1>1
    <3>2. f = Ascending(F) /\ e = Ascending(E) /\ d = Ascending(D)
      OBVIOUS
    <3> HIDE DEF D, E, F, d, e, f
    <3>3. QED BY <2>2, <3>1, <3>2, AscendingStep
  <2>4. d \in Seq(1 .. (n - 1))
    <3>1. d \in Seq(D)
      BY <2>2, AscendingEnumerates
    <3> HIDE DEF d, D
    <3>2. QED BY <2>2, <3>1, SeqMonotonic
  <2>5. d \in Seq(1 .. n) /\ d \in Seq(1 .. (n + 1)) /\ n \in 1 .. n /\ n + 1 \in 1 .. (n + 1)
        /\ d \in Seq(Nat)
    <3> HIDE DEF d, D
    <3>1. QED BY <1>1, <1>9, <2>2, <2>4, SeqMonotonic
  <2> HIDE DEF d, D, e, f, E, F
  <2>6. Ended(t) = Append(Cuts(t, d), SubSeq(t, After(d), n - 1))
    <3>1. Width(t, n) = 1
      BY <1>9 DEF Width
    <3>2. Cuts(t, Append(d, n)) = Append(Cuts(t, d), SubSeq(t, After(d), n - Width(t, n)))
      BY <2>5, CutsAppend
    <3>3. QED BY <1>4, <2>3, <3>1, <3>2
  <2>7. Ended(u) = Append(Cuts(u, d), SubSeq(u, After(d), n - 1))
    <3>1. Width(u, n + 1) = 2
      <4>1. (n + 1) - 1 = n /\ n + 1 > 1 /\ n \in 1 .. n
        BY <1>1, <1>9
      <4> HIDE DEF u
      <4>2. QED BY <1>1, <1>9, <4>1 DEF Width
    <3>2. Cuts(u, Append(d, n + 1)) = Append(Cuts(u, d), SubSeq(u, After(d), (n + 1) - Width(u, n + 1)))
      <4> HIDE DEF u
      <4>1. QED BY <1>1, <2>5, CutsAppend
    <3>3. (n + 1) - 2 = n - 1
      BY <1>1
    <3>4. QED BY <1>5, <2>3, <3>1, <3>2, <3>3
  <2>8. Cuts(u, d) = Cuts(t, d) /\ SubSeq(u, After(d), n - 1) = SubSeq(t, After(d), n - 1)
    <3>1. After(d) \in 1 .. (n + 1)
      BY <2>5, CutsTyped
    <3>2. QED BY <1>1, <1>6, <2>2, <2>5, <3>1, CutsSame, SubSeqWithin
  <2>9. After(e) = n + 1 /\ After(f) = n + 2
    <3>1. \A m \in Nat : Append(d, m) # << >> /\ Len(Append(d, m)) = Len(d) + 1 /\ Append(d, m)[Len(d) + 1] = m
      BY <2>5, AppendOf, EmptySeq
    <3>2. QED BY <1>1, <2>3, <3>1 DEF After
  <2>10. Rest(t) = << >> /\ Rest(u) = << >>
    BY <1>1, <1>4, <1>5, <2>9, SubSeqEmpty
  <2>11. Continues(t, c)
    BY <1>2, <1>9 DEF Continues
  <2>12. Ended(u) = Ended(t)
    BY <2>6, <2>7, <2>8
  <2>13. QED BY <1>9, <2>10, <2>11, <2>12 DEF u
<1>10. QED BY <1>7, <1>8, <1>9

\* A text that ends with a "cr" has a line that is ended.
LEMMA CrEnds ==
  ASSUME NEW t \in Text, EndsInCr(t)
  PROVE  Ended(t) # << >> /\ Rest(t) = << >>
<1>1. PICK b \in Text, c \in Chars : t = Append(b, c)
  BY SequenceEmptyOrAppend DEF EndsInCr, Text
<1>2. c = "cr"
  BY <1>1, AppendOf DEF EndsInCr, Last, Text
<1>3. Ended(t) = Append(Ended(b), Rest(b)) /\ Rest(t) = << >>
  BY <1>1, <1>2, LinesStep DEF Continues, Newlines
<1>4. Ended(b) \in Seq(Text) /\ Rest(b) \in Text
  BY LinesCut
<1>5. Append(Ended(b), Rest(b)) # << >>
  <2> HIDE DEF Text
  <2>1. QED BY <1>4, AppendOf, EmptySeq
<1>6. QED BY <1>3, <1>5

\* x in front of the first of some lines.
Glue(x, L) == IF L = << >> THEN << >> ELSE <<x \o Head(L)>> \o Tail(L)

\* Text in front of the first of some lines stays there when a line is added.
LEMMA GlueShape ==
  ASSUME NEW x \in Text, NEW L \in Seq(Text), NEW y \in Text
  PROVE  /\ Glue(x, L) \in Seq(Text) /\ (Glue(x, L) = << >> <=> L = << >>)
         /\ Glue(x, Append(L, y)) = IF L = << >> THEN <<x \o y>> ELSE Append(Glue(x, L), y)
<1>1. CASE L = << >>
  <2>1. Append(L, y) = <<y>> /\ <<y>> # << >> /\ Head(<<y>>) = y /\ Tail(<<y>>) = << >>
    BY <1>1
  <2>2. x \o y \in Text
    BY DEF Text
  <2> DEFINE z == x \o y
  <2>3. Glue(x, Append(L, y)) = <<z>> \o << >>
    BY <2>1 DEF Glue
  <2> HIDE DEF z, Text
  <2>4. <<z>> \o << >> = <<z>>
    OBVIOUS
  <2>5. QED BY <1>1, <2>2, <2>3, <2>4, EmptyList DEF Glue, z
<1>2. CASE L # << >>
  <2> DEFINE h == x \o Head(L)
  <2>1. Head(L) \in Text /\ Tail(L) \in Seq(Text)
    <3> HIDE DEF Text
    <3>1. QED BY <1>2
  <2>2. h \in Text
    BY <2>1 DEF Text
  <2> HIDE DEF h, Text
  <2>3. /\ Append(L, y) # << >> /\ Head(Append(L, y)) = Head(L)
        /\ Tail(Append(L, y)) = Append(Tail(L), y)
    BY <1>2, AppendOf, EmptySeq
  <2>4. Glue(x, L) = <<h>> \o Tail(L) /\ Glue(x, Append(L, y)) = <<h>> \o Append(Tail(L), y)
    BY <1>2, <2>3 DEF Glue, h
  <2>5. <<h>> \in Seq(Text) /\ <<h>> \o Tail(L) \in Seq(Text) /\ Len(<<h>> \o Tail(L)) = 1 + Len(Tail(L))
        /\ Len(Tail(L)) \in Nat
    BY <2>1, <2>2
  <2>6. <<h>> \o Append(Tail(L), y) = Append(<<h>> \o Tail(L), y)
    BY <2>1, <2>5, ConcatAppend
  <2>7. <<h>> \o Tail(L) # << >>
    BY <2>5, EmptySeq
  <2>8. QED BY <1>2, <2>4, <2>5, <2>6, <2>7
<1>3. QED BY <1>1, <1>2

\* A "cr" and the "lf" behind it are not parted.
Parted(a, b) == EndsInCr(a) /\ b # << >> /\ Head(b) = "lf"

Glued(a, b) ==
  /\ Ended(a \o b) = Ended(a) \o Glue(Rest(a), Ended(b))
  /\ Rest(a \o b) = IF Ended(b) = << >> THEN Rest(a) \o Rest(b) ELSE Rest(b)

\* One more character of the second part.
LEMMA LinesConcatStep ==
  ASSUME NEW a \in Text, NEW b \in Text, NEW c \in Chars, Glued(a, b), ~Parted(a, Append(b, c))
  PROVE  Glued(a, Append(b, c))
<1> DEFINE t == a \o b
           d == Append(b, c)
<1>1. /\ t \in Text /\ a \o d = Append(t, c) /\ d \in Text /\ d # << >>
      /\ b # << >> => Head(d) = Head(b)
      /\ b = << >> => Head(d) = c /\ t = a
  <2>1. t \in Text /\ a \o d = Append(t, c)
    BY ConcatAppend, ConcatProperties DEF Text
  <2>2. d \in Text /\ d # << >> /\ (b # << >> => Head(d) = Head(b)) /\ (b = << >> => Head(d) = c)
    <3>1. /\ d \in Seq(Chars) /\ Len(b) \in Nat /\ Len(d) = Len(b) + 1
          /\ d[Len(b) + 1] = c /\ \A i \in 1 .. Len(b) : d[i] = b[i]
      BY AppendOf DEF Text
    <3>2. d # << >> /\ Head(d) = d[1]
      <4> HIDE DEF d
      <4>1. QED BY <3>1, EmptySeq
    <3>3. b # << >> => Head(b) = b[1] /\ 1 \in 1 .. Len(b)
      BY <3>1, EmptySeq DEF Text
    <3>4. b = << >> => Len(b) + 1 = 1
      BY EmptySeq
    <3> HIDE DEF d
    <3>5. QED BY <3>1, <3>2, <3>3, <3>4 DEF Text
  <2>3. b = << >> => t = a
    BY ConcatEmptySeq DEF Text
  <2>4. QED BY <2>1, <2>2, <2>3
<1>2. b # << >> => (EndsInCr(t) <=> EndsInCr(b))
  <2> SUFFICES ASSUME b # << >> PROVE EndsInCr(t) <=> EndsInCr(b)
    OBVIOUS
  <2>1. Len(b) \in Nat \ {0} /\ Len(a) \in Nat /\ Len(t) = Len(a) + Len(b)
    BY EmptySeq, ConcatProperties DEF Text
  <2>2. Len(t) > Len(a) /\ Len(t) \in 1 .. Len(a) + Len(b) /\ Len(t) - Len(a) = Len(b)
    BY <2>1
  <2>3. t[Len(t)] = b[Len(t) - Len(a)]
    BY <2>1, <2>2, ConcatProperties DEF Text
  <2>4. Last(t) = Last(b) /\ t # << >>
    BY <1>1, <2>1, <2>2, <2>3, EmptySeq DEF Last, Text
  <2>5. QED BY <2>4 DEF EndsInCr
<1>3. Continues(t, c) <=> Continues(b, c)
  <2>1. CASE b # << >>
    BY <1>2, <2>1 DEF Continues
  <2>2. CASE b = << >>
    <3>1. ~EndsInCr(b)
      BY <2>2 DEF EndsInCr
    <3>2. ~(EndsInCr(a) /\ c = "lf")
      BY <1>1, <2>2 DEF Parted
    <3>3. QED BY <1>1, <2>2, <3>1, <3>2 DEF Continues
  <2>3. QED BY <2>1, <2>2
<1>4. /\ Ended(a \o d) = IF Continues(b, c) THEN Ended(t) ELSE Append(Ended(t), Rest(t))
      /\ Rest(a \o d) = IF c \in Newlines THEN << >> ELSE Append(Rest(t), c)
      /\ Ended(d) = IF Continues(b, c) THEN Ended(b) ELSE Append(Ended(b), Rest(b))
      /\ Rest(d) = IF c \in Newlines THEN << >> ELSE Append(Rest(b), c)
  <2> HIDE DEF t
  <2>1. /\ Ended(Append(t, c)) = IF Continues(t, c) THEN Ended(t) ELSE Append(Ended(t), Rest(t))
        /\ Rest(Append(t, c)) = IF c \in Newlines THEN << >> ELSE Append(Rest(t), c)
    BY <1>1, LinesStep
  <2>2. QED BY <1>1, <1>3, <2>1, LinesStep
<1> DEFINE ea == Ended(a)
           eb == Ended(b)
           ra == Rest(a)
           rb == Rest(b)
<1>5. ea \in Seq(Text) /\ eb \in Seq(Text) /\ ra \in Text /\ rb \in Text
  BY LinesCut
<1>6. Ended(t) = ea \o Glue(ra, eb) /\ Rest(t) = IF eb = << >> THEN ra \o rb ELSE rb
  BY DEF Glued
<1> HIDE DEF t, d, ea, eb, ra, rb
<1>7. Glue(ra, eb) \in Seq(Text) /\ ra \o rb \in Text /\ rb \in Text
  <2>1. ra \o rb \in Text
    BY <1>5, ConcatProperties DEF Text
  <2>2. QED BY <1>5, <2>1, GlueShape
<1>8. CASE c \notin Newlines
  <2>1. Continues(b, c)
    BY <1>8 DEF Continues
  <2>2. Append(ra \o rb, c) = ra \o Append(rb, c)
    <3>1. ra \in Seq(Chars) /\ rb \in Seq(Chars)
      BY <1>5 DEF Text
    <3>2. \A p, q \in Seq(Chars) : p \o Append(q, c) = Append(p \o q, c)
      BY ConcatAppend
    <3>3. QED BY <3>1, <3>2
  <2>3. Ended(d) = eb /\ Rest(d) = Append(rb, c) /\ Ended(a \o d) = Ended(t) /\ Rest(a \o d) = Append(Rest(t), c)
    BY <1>4, <1>8, <2>1 DEF eb, rb
  <2>4. QED BY <1>6, <2>2, <2>3 DEF Glued, d, ea, ra
<1>9. CASE c \in Newlines /\ Continues(b, c)
  <2>1. eb # << >>
    BY <1>9, CrEnds DEF Continues, eb
  <2>2. Ended(d) = eb /\ Rest(d) = << >> /\ Ended(a \o d) = Ended(t) /\ Rest(a \o d) = << >>
    BY <1>4, <1>9 DEF eb
  <2>3. QED BY <1>6, <2>1, <2>2 DEF Glued, d, ea, ra
<1>10. CASE ~Continues(b, c)
  <2>1. c \in Newlines
    BY <1>10 DEF Continues
  <2>2. /\ Ended(d) = Append(eb, rb) /\ Rest(d) = << >>
        /\ Ended(a \o d) = Append(Ended(t), Rest(t)) /\ Rest(a \o d) = << >>
    BY <1>4, <1>10, <2>1 DEF eb, rb
  <2>3. Append(eb, rb) # << >>
    <3> HIDE DEF Text
    <3>1. QED BY <1>5, AppendOf, EmptySeq
  <2>4. Append(Ended(t), Rest(t)) = ea \o Glue(ra, Append(eb, rb))
    <3>1. CASE eb = << >>
      <4>1. Glue(ra, eb) = << >> /\ Glue(ra, Append(eb, rb)) = <<ra \o rb>>
        BY <1>5, <3>1, GlueShape DEF Glue
      <4> DEFINE z == ra \o rb
      <4>2. z \in Text /\ Ended(t) = ea \o << >> /\ Rest(t) = z
        BY <1>6, <1>7, <3>1, <4>1
      <4> HIDE DEF z, Text
      <4>3. ea \o << >> = ea /\ Append(ea, z) = ea \o <<z>>
        BY <1>5, <4>2, ConcatEmptySeq, AppendIsConcat
      <4>4. QED BY <4>1, <4>2, <4>3 DEF z
    <3>2. CASE eb # << >>
      <4>1. Glue(ra, Append(eb, rb)) = Append(Glue(ra, eb), rb)
        BY <1>5, <3>2, GlueShape
      <4> DEFINE g == Glue(ra, eb)
      <4>2. g \in Seq(Text) /\ Ended(t) = ea \o g /\ Rest(t) = rb
        BY <1>6, <1>7, <3>2
      <4> HIDE DEF g, Text
      <4>3. ea \o Append(g, rb) = Append(ea \o g, rb)
        BY <1>5, <4>2, ConcatAppend
      <4>4. QED BY <4>1, <4>2, <4>3 DEF g
    <3>3. QED BY <3>1, <3>2
  <2>5. QED BY <2>2, <2>3, <2>4 DEF Glued, d, ea, ra
<1>11. QED BY <1>8, <1>9, <1>10

\* The lines of two texts, one behind the other, unless a line end is cut.
LEMMA LinesConcat ==
  ASSUME NEW a \in Text, NEW b \in Text, ~Parted(a, b)
  PROVE  Glued(a, b)
<1> DEFINE Fails(x) == x \in Text /\ ~Parted(a, x) /\ ~Glued(a, x)
           Bad == {n \in Nat : \E x : Len(x) = n /\ Fails(x)}
<1>1. SUFFICES ASSUME Bad # {} PROVE FALSE
  <2>1. Len(b) \in Nat
    BY DEF Text
  <2>2. Fails(b) => Len(b) \in Bad
    BY <2>1
  <2>3. QED BY <2>2
<1>2. PICK n \in Bad : \A m \in Bad : n <= m
  BY <1>1, LeastNat
<1>3. PICK x : Len(x) = n /\ Fails(x)
  OBVIOUS
<1>4. CASE x = << >>
  <2>1. a \o << >> = a
    BY ConcatEmptySeq DEF Text
  <2>2. Ended(a) \in Seq(Text) /\ Rest(a) \in Text
    BY LinesCut
  <2>3. Ended(a) \o << >> = Ended(a) /\ Rest(a) \o << >> = Rest(a)
    <3>1. Rest(a) \o << >> = Rest(a)
      BY <2>2, ConcatEmptySeq DEF Text
    <3> HIDE DEF Text
    <3>2. QED BY <2>2, <3>1, ConcatEmptySeq
  <2>4. Glued(a, << >>)
    BY <2>1, <2>3, NoLines DEF Glued, Glue
  <2>5. QED BY <1>3, <1>4, <2>4
<1>5. CASE x # << >>
  <2>1. PICK y \in Text, e \in Chars : x = Append(y, e)
    BY <1>3, <1>5, SequenceEmptyOrAppend DEF Text
  <2>2. ~Parted(a, y)
    <3>1. y # << >> => Head(x) = Head(y) /\ x # << >>
      BY <1>5, <2>1, AppendOf, EmptySeq DEF Text
    <3>2. QED BY <1>3, <3>1 DEF Parted
  <2>3. ~Fails(y)
    <3>1. Len(y) \in Nat /\ Len(y) + 1 = n
      BY <1>3, <2>1, AppendProperties DEF Text
    <3>2. Len(y) \notin Bad
      BY <1>2, <3>1
    <3>3. QED BY <3>1, <3>2
  <2>4. Glued(a, y) /\ ~Parted(a, x)
    BY <1>3, <2>1, <2>2, <2>3
  <2>5. QED BY <1>3, <2>1, <2>4, LinesConcatStep
<1>6. QED BY <1>4, <1>5

\* Texts put together.
LEMMA TextAssociative == \A a, b, c \in Text : (a \o b) \o c = a \o (b \o c)
  BY ConcatAssociative DEF Text

\* A text and its last character.
LEMMA TextAppend ==
  ASSUME NEW t \in Text, NEW c \in Chars
  PROVE  /\ Append(t, c) \in Text /\ Append(t, c) # << >> /\ Last(Append(t, c)) = c
         /\ Front(Append(t, c)) = t /\ t \o <<c>> = Append(t, c)
<1> DEFINE u == Append(t, c)
<1>1. /\ u \in Seq(Chars) /\ Len(u) = Len(t) + 1 /\ Len(t) \in Nat /\ u[Len(t) + 1] = c
      /\ \A i \in 1 .. Len(t) : u[i] = t[i]
  BY AppendOf DEF Text
<1>2. t \o <<c>> = u
  BY AppendIsConcat DEF Text
<1> HIDE DEF u
<1>3. u # << >>
  BY <1>1, EmptySeq
<1>4. Front(u) = t
  <2>1. Front(u) \in Seq(Chars) /\ Len(Front(u)) = Len(u) - 1 /\ \A i \in 1 .. (Len(u) - 1) : Front(u)[i] = u[i]
    BY <1>1, <1>3, FrontOf
  <2>2. t \in Seq(Chars)
    BY DEF Text
  <2>3. Len(Front(u)) = Len(t) /\ \A i \in 1 .. Len(Front(u)) : Front(u)[i] = t[i]
    BY <1>1, <2>1
  <2>4. QED BY <2>1, <2>2, <2>3, SeqEqual
<1>5. QED BY <1>1, <1>2, <1>3, <1>4 DEF Last, Text, u

\* A text is all but its last character, and its last character.
LEMMA FrontLast ==
  ASSUME NEW t \in Text, t # << >>
  PROVE  /\ Front(t) \in Text /\ Last(t) \in Chars /\ t = Append(Front(t), Last(t))
         /\ Front(t) # << >> => Head(Front(t)) = Head(t)
<1>1. PICK s \in Text, c \in Chars : t = Append(s, c)
  BY SequenceEmptyOrAppend DEF Text
<1>2. Front(t) = s /\ Last(t) = c
  BY <1>1, TextAppend
<1>3. ASSUME s # << >> PROVE Head(s) = Head(t)
  <2>1. /\ Len(s) \in Nat /\ Len(s) # 0 /\ t[1] = s[1]
    <3>1. Len(s) \in Nat \ {0}
      BY <1>3, EmptySeq DEF Text
    <3>2. 1 \in 1 .. Len(s)
      BY <3>1
    <3>3. QED BY <1>1, <3>1, <3>2, AppendOf DEF Text
  <2>2. QED BY <1>3, <2>1
<1>4. QED BY <1>1, <1>2, <1>3

\* What the decoders know of a text: all of it but a "cr" that ends it.
Known(t) == IF EndsInCr(t) THEN Front(t) ELSE t
Kept(cr) == IF cr THEN <<"cr">> ELSE << >>

\* What is known and the character that is kept are the text.
LEMMA KnownShape ==
  ASSUME NEW t \in Text
  PROVE  Known(t) \in Text /\ Known(t) \o Kept(EndsInCr(t)) = t
<1>1. CASE EndsInCr(t)
  <2>1. t # << >> /\ Last(t) = "cr"
    BY <1>1 DEF EndsInCr
  <2>2. Front(t) \in Text /\ t = Append(Front(t), "cr")
    BY <2>1, FrontLast
  <2>3. Front(t) \o <<"cr">> = Append(Front(t), "cr")
    BY <2>2, TextAppend DEF Chars
  <2>4. QED BY <1>1, <2>2, <2>3 DEF Known, Kept
<1>2. CASE ~EndsInCr(t)
  BY <1>2, ConcatEmptySeq DEF Known, Kept, Text
<1>3. QED BY <1>1, <1>2

\* A piece makes known what Due says: the character kept before it, and all but the one kept now.
LEMMA KnownStep ==
  ASSUME NEW p \in Text, NEW t \in Text, t # << >>, NEW d, d.cr = EndsInCr(p)
  PROVE  /\ Due(d, t) \in Text
         /\ Held(d, t) <=> EndsInCr(p \o t)
         /\ Known(p \o t) = Known(p) \o Due(d, t)
         /\ ~Parted(Known(p), Due(d, t))
<1> DEFINE k == Kept(EndsInCr(p))
           u == k \o t
           v == Due(d, t)
           q == Known(p)
<1>1. k \in Text /\ u \in Text /\ q \in Text /\ q \o k = p
  <2>1. q \in Text /\ q \o k = p
    BY KnownShape
  <2>2. k \in Seq(Chars)
    <3>1. "cr" \in Chars /\ << >> \in Seq(Chars)
      BY EmptyList DEF Chars
    <3>2. <<"cr">> \in Seq(Chars)
      BY <3>1
    <3>3. QED BY <3>1, <3>2 DEF Kept
  <2>3. t \in Seq(Chars)
    BY DEF Text
  <2> HIDE DEF k
  <2>4. k \o t \in Seq(Chars)
    BY <2>2, <2>3, ConcatProperties
  <2>5. QED BY <2>1, <2>2, <2>4 DEF Text
<1>2. Held(d, t) <=> Last(u) = "cr"
  BY DEF Held, Kept
<1>3. v = IF Held(d, t) THEN Front(u) ELSE u
  BY DEF Due, Kept
<1> HIDE DEF u, v
<1>4. q \o u = p \o t
  <2>1. q \in Seq(Chars) /\ k \in Seq(Chars) /\ t \in Seq(Chars)
    BY <1>1 DEF Text
  <2> HIDE DEF q, k
  <2>2. (q \o k) \o t = q \o (k \o t)
    BY <2>1, ConcatAssociative
  <2>3. QED BY <1>1, <2>2 DEF u
<1>5. \A s \in Text : s \o t \in Text /\ s \o t # << >> /\ Last(s \o t) = Last(t)
  <2>1. SUFFICES ASSUME NEW s \in Text PROVE s \o t \in Text /\ s \o t # << >> /\ Last(s \o t) = Last(t)
    OBVIOUS
  <2>2. PICK w \in Text, c \in Chars : t = Append(w, c)
    BY SequenceEmptyOrAppend DEF Text
  <2>3. s \o Append(w, c) = Append(s \o w, c) /\ s \o w \in Text
    BY ConcatAppend, ConcatProperties DEF Text
  <2>4. Last(t) = c
    BY <2>2, TextAppend
  <2> DEFINE z == s \o w
  <2>5. z \in Text /\ s \o t = Append(z, c)
    BY <2>2, <2>3
  <2> HIDE DEF z
  <2>6. QED BY <2>4, <2>5, TextAppend
<1>6. u # << >> /\ Last(u) = Last(p \o t) /\ p \o t # << >>
  BY <1>1, <1>5 DEF u
<1>7. Held(d, t) <=> EndsInCr(p \o t)
  BY <1>2, <1>6 DEF EndsInCr
<1>8. v \in Text /\ (v # << >> => Head(v) = Head(u))
  BY <1>1, <1>3, <1>6, FrontLast
<1>9. Known(p \o t) = q \o v
  <2>1. CASE Held(d, t)
    <3>1. u = Append(v, "cr") /\ "cr" \in Chars
      BY <1>1, <1>2, <1>3, <1>6, <2>1, FrontLast DEF Chars
    <3>2. q \o Append(v, "cr") = Append(q \o v, "cr") /\ q \o v \in Text
      <4>1. q \in Seq(Chars) /\ v \in Seq(Chars)
        BY <1>1, <1>8 DEF Text
      <4> HIDE DEF q
      <4>2. QED BY <3>1, <4>1, ConcatAppend, ConcatProperties DEF Text
    <3>3. Front(p \o t) = q \o v
      <4> DEFINE z == q \o v
      <4>1. z \in Text /\ p \o t = Append(z, "cr")
        BY <1>4, <3>1, <3>2
      <4> HIDE DEF z
      <4>2. Front(p \o t) = z
        BY <3>1, <4>1, TextAppend
      <4>3. QED BY <4>2 DEF z
    <3>4. QED BY <1>7, <2>1, <3>3 DEF Known
  <2>2. CASE ~Held(d, t)
    BY <1>3, <1>4, <1>7, <2>2 DEF Known
  <2>3. QED BY <2>1, <2>2
<1>10. ~Parted(q, v)
  <2>1. CASE EndsInCr(p)
    <3>1. u = <<"cr">> \o t
      BY <2>1 DEF u, Kept
    <3>2. Head(u) = "cr"
      BY <3>1 DEF Text
    <3>3. QED BY <1>8, <3>2 DEF Parted
  <2>2. CASE ~EndsInCr(p)
    BY <2>2 DEF Parted, Known
  <2>3. QED BY <2>1, <2>2
<1>11. QED BY <1>7, <1>8, <1>9, <1>10 DEF v, q

\* A text ends with a line end or has something after the last.
LEMMA WholeLines ==
  ASSUME NEW u \in Text, u # << >>
  PROVE  /\ Last(u) \in Newlines <=> Rest(u) = << >>
         /\ Rest(u) = << >> => Ended(u) # << >>
<1>1. PICK b \in Text, c \in Chars : u = Append(b, c)
  BY SequenceEmptyOrAppend DEF Text
<1>2. Last(u) = c
  BY <1>1, TextAppend
<1>3. Rest(u) = IF c \in Newlines THEN << >> ELSE Append(Rest(b), c)
  BY <1>1, LinesStep
<1>4. Append(Rest(b), c) # << >>
  BY LinesCut, TextAppend
<1>5. ASSUME c \in Newlines PROVE Ended(u) # << >>
  <2>1. CASE Continues(b, c)
    <3>1. EndsInCr(b) /\ Ended(u) = Ended(b)
      BY <1>1, <1>5, <2>1, LinesStep DEF Continues
    <3>2. QED BY <3>1, CrEnds
  <2>2. CASE ~Continues(b, c)
    <3>1. Ended(u) = Append(Ended(b), Rest(b))
      BY <1>1, <2>2, LinesStep
    <3>2. Ended(b) \in Seq(Text) /\ Rest(b) \in Text
      BY LinesCut
    <3> HIDE DEF Text
    <3>3. QED BY <3>1, <3>2, AppendOf, EmptySeq
  <2>3. QED BY <2>1, <2>2
<1>6. QED BY <1>2, <1>3, <1>4, <1>5

\* The last of a list of texts.
LEMMA ListAppend ==
  ASSUME NEW L \in Seq(Text), NEW y \in Text
  PROVE  /\ Append(L, y) \in Seq(Text) /\ Append(L, y) # << >>
         /\ Front(Append(L, y)) = L /\ Last(Append(L, y)) = y
         /\ Append(L, y) = L \o <<y>>
<1> DEFINE u == Append(L, y)
<1> HIDE DEF Text
<1>1. /\ u \in Seq(Text) /\ Len(u) = Len(L) + 1 /\ Len(L) \in Nat /\ u[Len(L) + 1] = y
      /\ \A i \in 1 .. Len(L) : u[i] = L[i]
  BY AppendOf
<1>2. u = L \o <<y>>
  BY AppendIsConcat
<1> HIDE DEF u
<1>3. u # << >>
  BY <1>1, EmptySeq
<1>4. Front(u) = L
  <2>1. Front(u) \in Seq(Text) /\ Len(Front(u)) = Len(u) - 1 /\ \A i \in 1 .. (Len(u) - 1) : Front(u)[i] = u[i]
    BY <1>1, <1>3, FrontOf
  <2>2. Len(Front(u)) = Len(L) /\ \A i \in 1 .. Len(Front(u)) : Front(u)[i] = L[i]
    BY <1>1, <2>1
  <2>3. QED BY <2>1, <2>2, SeqEqual
<1>5. QED BY <1>1, <1>2, <1>3, <1>4 DEF Last, u

\* What is kept goes in front of the first line; the last is kept.
LEMMA JoinSplit ==
  ASSUME NEW x \in Text, NEW u \in Text
  PROVE  LET joined == Glue(x, Split(u))
         IN  /\ joined = <<x \o Head(Split(u))>> \o Tail(Split(u))
             /\ joined \in Seq(Text) /\ Front(joined) = Glue(x, Ended(u))
             /\ Last(joined) = IF Ended(u) = << >> THEN x \o Rest(u) ELSE Rest(u)
             /\ Last(joined) \in Text
<1> DEFINE L == Ended(u)
           y == Rest(u)
           g == Glue(x, L)
<1>1. L \in Seq(Text) /\ y \in Text
  BY LinesCut
<1>2. x \o y \in Text
  BY <1>1, ConcatProperties DEF Text
<1>3. /\ g \in Seq(Text) /\ (g = << >> <=> L = << >>)
      /\ Glue(x, Append(L, y)) = IF L = << >> THEN <<x \o y>> ELSE Append(g, y)
  BY <1>1, GlueShape
<1>4. Split(u) = Append(L, y) /\ Append(L, y) # << >>
  BY <1>1, ListAppend DEF Split
<1> HIDE DEF L, y, g
<1>5. Glue(x, Split(u)) = <<x \o Head(Split(u))>> \o Tail(Split(u))
  BY <1>4 DEF Glue
<1>6. Glue(x, Split(u)) = Append(g, IF L = << >> THEN x \o y ELSE y)
  <2> DEFINE z == x \o y
  <2>1. <<z>> = Append(<< >>, z)
    OBVIOUS
  <2> HIDE DEF z
  <2>2. QED BY <1>3, <1>4, <2>1 DEF z
<1> DEFINE z == IF L = << >> THEN x \o y ELSE y
<1>7. z \in Text
  BY <1>1, <1>2
<1>8. Glue(x, Split(u)) = Append(g, z)
  BY <1>6
<1> HIDE DEF z
<1>9. /\ Glue(x, Split(u)) \in Seq(Text)
      /\ Front(Glue(x, Split(u))) = g /\ Last(Glue(x, Split(u))) = z
  BY <1>3, <1>7, <1>8, ListAppend
<1>10. QED BY <1>5, <1>7, <1>9 DEF L, y, g, z

\* decode(): the lines of what was known and of what is due.
LEMMA FeedLinesShape ==
  ASSUME NEW p \in Text, NEW t \in Text, t # << >>, NEW d \in Dec,
         d.cr = EndsInCr(p), d.buffer = Rest(Known(p))
  PROVE  LET r == FeedLines(d, t)
         IN  /\ r.items \in Seq(Text) /\ r.dec \in Dec /\ r.error = FALSE
             /\ Ended(Known(p)) \o r.items = Ended(Known(p \o t))
             /\ r.dec.cr = EndsInCr(p \o t) /\ r.dec.buffer = Rest(Known(p \o t))
<1> DEFINE q == Known(p)
           u == Due(d, t)
           x == d.buffer
           kept == [d EXCEPT !.cr = Held(d, t)]
           lines == SplitLines(u)
           joined == <<x \o Head(lines)>> \o Tail(lines)
           r == FeedLines(d, t)
<1>1. q \in Text /\ Ended(q) \in Seq(Text) /\ Rest(q) \in Text /\ x = Rest(q)
  BY KnownShape, LinesCut
<1>2. /\ u \in Text /\ (Held(d, t) <=> EndsInCr(p \o t)) /\ Known(p \o t) = q \o u
      /\ ~Parted(q, u)
  BY KnownStep
<1>3. Ended(u) \in Seq(Text) /\ Rest(u) \in Text
  BY <1>2, LinesCut
<1>4. Glued(q, u)
  BY <1>1, <1>2, LinesConcat
<1>5. kept \in Dec /\ kept.cr = EndsInCr(p \o t) /\ kept.buffer = x
  <2> DEFINE h == Held(d, t)
  <2>1. h \in BOOLEAN /\ h = EndsInCr(p \o t)
    <3>1. h \in BOOLEAN
      BY DEF Held
    <3>2. EndsInCr(p \o t) \in BOOLEAN
      BY DEF EndsInCr
    <3>3. QED BY <1>2, <3>1, <3>2
  <2> HIDE DEF h
  <2>2. [d EXCEPT !.cr = h] \in Dec /\ [d EXCEPT !.cr = h].cr = h /\ [d EXCEPT !.cr = h].buffer = d.buffer
    BY <2>1 DEF Dec
  <2>3. QED BY <2>1, <2>2 DEF h
<1>6. r = IF u = << >> THEN Result(kept, << >>, FALSE)
          ELSE IF Last(u) \in Newlines THEN Result([kept EXCEPT !.buffer = << >>], joined, FALSE)
          ELSE Result([kept EXCEPT !.buffer = Last(joined)], Front(joined), FALSE)
  BY DEF FeedLines
<1>7. \A b \in Text : [kept EXCEPT !.buffer = b] \in Dec /\ [kept EXCEPT !.buffer = b].buffer = b
                      /\ [kept EXCEPT !.buffer = b].cr = kept.cr
  BY <1>5 DEF Dec
<1> HIDE DEF q, u, x, kept, r
<1>8. CASE u = << >>
  <2>1. Known(p \o t) = q
    BY <1>1, <1>2, <1>8, ConcatEmptySeq DEF Text
  <2>2. r.items = << >> /\ r.dec = kept /\ r.error = FALSE
    BY <1>6, <1>8 DEF Result
  <2>3. Ended(q) \o << >> = Ended(q) /\ << >> \in Seq(Text)
    <3> HIDE DEF Text
    <3>1. QED BY <1>1, ConcatEmptySeq, EmptyList
  <2>4. QED BY <1>1, <1>5, <2>1, <2>2, <2>3 DEF r, q
<1>9. CASE u # << >> /\ Last(u) \in Newlines
  <2>1. Rest(u) = << >> /\ Ended(u) # << >>
    BY <1>2, <1>9, WholeLines
  <2>2. lines = Ended(u) /\ joined = Glue(x, Ended(u))
    BY <2>1 DEF SplitLines, Glue
  <2> HIDE DEF joined
  <2>3. r.items = joined /\ r.dec = [kept EXCEPT !.buffer = << >>] /\ r.error = FALSE
    BY <1>6, <1>9 DEF Result
  <2>4. joined \in Seq(Text)
    BY <1>1, <1>3, <2>2, GlueShape
  <2>5. Ended(Known(p \o t)) = Ended(q) \o joined /\ Rest(Known(p \o t)) = << >>
    BY <1>1, <1>2, <1>4, <2>1, <2>2 DEF Glued
  <2>6. << >> \in Text
    BY EmptyList DEF Text
  <2>7. r.dec \in Dec /\ r.dec.buffer = << >> /\ r.dec.cr = kept.cr
    BY <1>7, <2>3, <2>6
  <2>8. QED BY <1>5, <2>3, <2>4, <2>5, <2>7 DEF r, q
<1>10. CASE u # << >> /\ Last(u) \notin Newlines
  <2>1. Rest(u) # << >>
    BY <1>2, <1>10, WholeLines
  <2>2. lines = Split(u)
    BY <2>1 DEF SplitLines
  <2>3. /\ joined \in Seq(Text) /\ Front(joined) = Glue(x, Ended(u))
        /\ Last(joined) = (IF Ended(u) = << >> THEN x \o Rest(u) ELSE Rest(u))
        /\ Last(joined) \in Text
    <3> DEFINE g == Glue(x, Split(u))
    <3>1. /\ g = <<x \o Head(Split(u))>> \o Tail(Split(u))
          /\ g \in Seq(Text) /\ Front(g) = Glue(x, Ended(u))
          /\ Last(g) = IF Ended(u) = << >> THEN x \o Rest(u) ELSE Rest(u)
          /\ Last(g) \in Text
      BY <1>1, <1>2, JoinSplit
    <3>2. joined = g
      BY <2>2, <3>1
    <3> HIDE DEF g, joined
    <3>3. QED BY <3>1, <3>2
  <2> HIDE DEF joined
  <2>4. r.items = Front(joined) /\ r.dec = [kept EXCEPT !.buffer = Last(joined)] /\ r.error = FALSE
    BY <1>6, <1>10 DEF Result
  <2>5. Front(joined) \in Seq(Text)
    BY <1>1, <1>3, <2>3, GlueShape
  <2>6. Ended(Known(p \o t)) = Ended(q) \o Front(joined) /\ Rest(Known(p \o t)) = Last(joined)
    BY <1>1, <1>2, <1>4, <2>3 DEF Glued
  <2>7. r.dec \in Dec /\ r.dec.buffer = Last(joined) /\ r.dec.cr = kept.cr
    BY <1>7, <2>3, <2>4
  <2>8. QED BY <1>5, <2>4, <2>5, <2>6, <2>7 DEF r, q
<1>11. QED BY <1>8, <1>9, <1>10

\* flush(): what was kept is the last line.
LEMMA FlushLinesShape ==
  ASSUME NEW p \in Text, NEW d \in Dec, d.cr = EndsInCr(p), d.buffer = Rest(Known(p))
  PROVE  LET r == FlushLines(d)
         IN  /\ r.items \in Seq(Text) /\ r.dec = NoDecoding /\ r.error = FALSE
             /\ Ended(Known(p)) \o r.items = SplitLines(p)
<1> DEFINE q == Known(p)
           x == d.buffer
           r == FlushLines(d)
<1>1. q \in Text /\ Ended(q) \in Seq(Text) /\ x \in Text /\ x = Rest(q) /\ q \o Kept(EndsInCr(p)) = p
  BY KnownShape, LinesCut
<1>2. r.items = (IF x = << >> /\ ~EndsInCr(p) THEN << >> ELSE <<x>>) /\ r.dec = NoDecoding /\ r.error = FALSE
  BY DEF FlushLines, Result
<1> HIDE DEF q, x, r
<1>3. r.items \in Seq(Text)
  <2> HIDE DEF Text
  <2>1. QED BY <1>1, <1>2, EmptyList
<1>4. Append(Ended(q), x) = Ended(q) \o <<x>>
  BY <1>1, ListAppend
<1>5. CASE EndsInCr(p)
  <2>1. p = Append(q, "cr") /\ "cr" \in Chars
    BY <1>1, <1>5, TextAppend DEF Kept, Chars
  <2>2. Ended(p) = Append(Ended(q), Rest(q)) /\ Rest(p) = << >>
    BY <1>1, <2>1, LinesStep DEF Continues, Newlines
  <2>3. SplitLines(p) = Ended(q) \o <<x>>
    BY <1>1, <1>4, <2>2 DEF SplitLines
  <2>4. QED BY <1>2, <1>3, <1>5, <2>3 DEF q, r
<1>6. CASE ~EndsInCr(p)
  <2>1. q = p
    BY <1>6 DEF q, Known
  <2>2. SplitLines(p) = IF x = << >> THEN Ended(q) ELSE Append(Ended(q), x)
    BY <1>1, <2>1 DEF SplitLines, Split
  <2>3. Ended(q) \o << >> = Ended(q)
    <3> HIDE DEF Text
    <3>1. QED BY <1>1, ConcatEmptySeq
  <2>4. QED BY <1>2, <1>3, <1>4, <1>6, <2>2, <2>3 DEF q, r
<1>7. QED BY <1>5, <1>6

\* What is decoded so far begins what is decoded in the end.
LEMMA LinesBegin ==
  ASSUME NEW p \in Text, NEW s \in Text
  PROVE  /\ \E r \in Seq(Text) : Ended(Known(p)) \o r = Ended(Known(p \o s))
         /\ \E r \in Seq(Text) : Ended(Known(p)) \o r = SplitLines(p \o s)
<1> DEFINE D(t) == [buffer |-> Rest(Known(t)), cr |-> EndsInCr(t), data |-> << >>, id |-> << >>,
                    pending |-> FALSE, size |-> 0]
<1>1. \A t \in Text : D(t) \in Dec /\ D(t).cr = EndsInCr(t) /\ D(t).buffer = Rest(Known(t))
  <2>1. SUFFICES ASSUME NEW t \in Text PROVE D(t) \in Dec
    OBVIOUS
  <2>2. Rest(Known(t)) \in Text /\ EndsInCr(t) \in BOOLEAN
    BY KnownShape, LinesCut DEF EndsInCr
  <2>3. QED BY <2>2 DEF Dec
<1> HIDE DEF D
<1>2. Ended(Known(p)) \in Seq(Text) /\ p \o s \in Text /\ << >> \in Seq(Text)
  <2>1. p \o s \in Text
    BY ConcatProperties DEF Text
  <2>2. QED BY <2>1, KnownShape, LinesCut, EmptyList
<1>3. \E r \in Seq(Text) : Ended(Known(p)) \o r = Ended(Known(p \o s))
  <2>1. CASE s = << >>
    <3>1. p \o s = p
      BY <2>1, ConcatEmptySeq DEF Text
    <3> HIDE DEF Text
    <3>2. Ended(Known(p)) \o << >> = Ended(Known(p))
      BY <1>2, ConcatEmptySeq
    <3>3. QED BY <1>2, <3>1, <3>2
  <2>2. CASE s # << >>
    <3>1. LET r == FeedLines(D(p), s)
          IN  r.items \in Seq(Text) /\ Ended(Known(p)) \o r.items = Ended(Known(p \o s))
      BY <1>1, <2>2, FeedLinesShape
    <3>2. QED BY <3>1
  <2>3. QED BY <2>1, <2>2
<1>4. PICK r \in Seq(Text) : Ended(Known(p)) \o r = Ended(Known(p \o s))
  BY <1>3
<1>5. PICK f \in Seq(Text) : Ended(Known(p \o s)) \o f = SplitLines(p \o s)
  <2>1. LET g == FlushLines(D(p \o s))
        IN  g.items \in Seq(Text) /\ Ended(Known(p \o s)) \o g.items = SplitLines(p \o s)
    BY <1>1, <1>2, FlushLinesShape
  <2>2. QED BY <2>1
<1>6. Ended(Known(p)) \o (r \o f) = SplitLines(p \o s) /\ r \o f \in Seq(Text)
  <2> HIDE DEF Text
  <2> DEFINE L == Ended(Known(p))
  <2>1. L \in Seq(Text) /\ L \o r = Ended(Known(p \o s))
    BY <1>2, <1>4
  <2> HIDE DEF L
  <2>2. (L \o r) \o f = L \o (r \o f) /\ r \o f \in Seq(Text)
    <3>1. \A a, b, c \in Seq(Text) : (a \o b) \o c = a \o (b \o c) /\ b \o c \in Seq(Text)
      BY ConcatAssociative, ConcatProperties
    <3>2. QED BY <2>1, <3>1
  <2>3. QED BY <1>5, <2>1, <2>2 DEF L
<1>7. QED BY <1>3, <1>6

-----------------------------------------------------------------------------
(***************************************************************************)
(* The events of some lines, line by line.                                 *)
(***************************************************************************)
\* Lines as a body has them.
Line == Seq({":", "i", "d"})
Shown == Seq({"cr", "lf", ":", "i", "d"})

\* A text without the character of the chunker has lines of plain characters.
LEMMA LinesPlain ==
  ASSUME NEW t \in Shown
  PROVE  t \in Text /\ Ended(t) \in Seq(Line) /\ Rest(t) \in Line /\ Known(t) \in Shown
<1> DEFINE C == {"cr", "lf", ":", "i", "d"}
           P == {":", "i", "d"}
           Fails(x) == x \in Shown /\ ~(Ended(x) \in Seq(Line) /\ Rest(x) \in Line)
           Bad == {n \in Nat : \E x : Len(x) = n /\ Fails(x)}
<1>1. \A x \in Shown : x \in Text /\ Len(x) \in Nat
  BY DEF Shown, Text, Chars
<1>2. Known(t) \in Shown
  <2>1. t # << >> => Front(t) \in Seq(C)
    BY FrontOf DEF Shown
  <2>2. QED BY <2>1 DEF Known, EndsInCr, Shown
<1>3. SUFFICES ASSUME Bad # {} PROVE FALSE
  <2>1. Fails(t) => Len(t) \in Bad
    BY <1>1
  <2>2. QED BY <1>1, <1>2, <2>1
<1>4. PICK n \in Bad : \A m \in Bad : n <= m
  BY <1>3, LeastNat
<1>5. PICK x : Len(x) = n /\ Fails(x)
  OBVIOUS
<1>6. CASE x = << >>
  <2>1. << >> \in Seq(Line) /\ << >> \in Line
    BY EmptyList DEF Line
  <2>2. QED BY <1>5, <1>6, <2>1, NoLines
<1>7. CASE x # << >>
  <2>1. PICK y \in Seq(C), e \in C : x = Append(y, e)
    <3>1. x \in Seq(C)
      BY <1>5 DEF Shown
    <3> HIDE DEF C
    <3>2. QED BY <1>7, <3>1, SequenceEmptyOrAppend
  <2>2. ~Fails(y) /\ y \in Shown
    <3>1. Len(y) \in Nat /\ Len(y) + 1 = n
      BY <1>5, <2>1, AppendProperties
    <3>2. Len(y) \notin Bad
      BY <1>4, <3>1
    <3>3. QED BY <2>1, <3>1, <3>2 DEF Shown
  <2>3. Ended(y) \in Seq(Line) /\ Rest(y) \in Line /\ y \in Text /\ e \in Chars
    BY <1>1, <2>2 DEF Chars
  <2>4. /\ Ended(x) = (IF Continues(y, e) THEN Ended(y) ELSE Append(Ended(y), Rest(y)))
        /\ Rest(x) = IF e \in Newlines THEN << >> ELSE Append(Rest(y), e)
    BY <2>1, <2>3, LinesStep
  <2>5. << >> \in Line /\ (e \notin Newlines => Append(Rest(y), e) \in Line)
    <3>1. e \notin Newlines => e \in P
      BY <2>1 DEF Newlines
    <3>2. QED BY <2>3, <3>1, EmptyList, AppendOf DEF Line
  <2>6. Append(Ended(y), Rest(y)) \in Seq(Line)
    <3> HIDE DEF Line
    <3>1. QED BY <2>3, AppendOf
  <2>7. QED BY <1>5, <2>3, <2>4, <2>5, <2>6
<1>8. QED BY <1>6, <1>7

\* What stands at some places of a list, and at one more behind it.
LEMMA SelectedStep ==
  ASSUME NEW S, NEW s \in Seq(S), NEW x \in S, NEW K \in SUBSET (1 .. Len(s))
  PROVE  /\ Selected(Append(s, x), K) = Selected(s, K) /\ Selected(s, K) \in Seq(S)
         /\ Selected(Append(s, x), K \cup {Len(s) + 1}) = Append(Selected(s, K), x)
<1> DEFINE n == Len(s)
           u == Append(s, x)
           e == Ascending(K)
           f == Append(e, n + 1)
<1>1. /\ n \in Nat /\ u \in Seq(S) /\ u[n + 1] = x /\ \A i \in 1 .. n : u[i] = s[i] /\ s[i] \in S
  BY AppendOf
<1>2. e \in Seq(K) /\ e \in Seq(1 .. n) /\ e \in Seq(Nat) /\ Len(e) \in Nat /\ DOMAIN e = 1 .. Len(e)
      /\ \A k \in 1 .. Len(e) : e[k] \in 1 .. n
  <2>1. e \in Seq(K)
    BY <1>1, AscendingEnumerates
  <2>2. K \subseteq 1 .. n /\ K \subseteq Nat
    BY <1>1
  <2> HIDE DEF e, n
  <2>3. e \in Seq(1 .. n) /\ e \in Seq(Nat)
    BY <2>1, <2>2, SeqMonotonic
  <2>4. QED BY <2>1, <2>3, LenProperties
<1>3. Ascending(K \cup {n + 1}) = f
  <2>1. K \in SUBSET (1 .. n) /\ n + 1 \in Nat /\ n < n + 1
    BY <1>1
  <2> HIDE DEF n
  <2>2. QED BY <1>1, <2>1, AscendingStep
<1>4. /\ Len(f) = Len(e) + 1 /\ DOMAIN f = 1 .. (Len(e) + 1)
      /\ f[Len(e) + 1] = n + 1 /\ \A k \in 1 .. Len(e) : f[k] = e[k]
  <2>1. n + 1 \in Nat
    BY <1>1
  <2> HIDE DEF e
  <2>2. f \in Seq(Nat)
    BY <1>2, <2>1, AppendOf
  <2>3. QED BY <1>2, <2>1, <2>2, AppendOf, LenProperties
<1>5. /\ Selected(s, K) = [k \in 1 .. Len(e) |-> s[e[k]]]
      /\ Selected(u, K) = [k \in 1 .. Len(e) |-> u[e[k]]]
  BY <1>2 DEF Selected
<1>6. Selected(u, K \cup {n + 1}) = [k \in 1 .. (Len(e) + 1) |-> u[f[k]]]
  BY <1>3, <1>4 DEF Selected
<1> HIDE DEF e, f, u, n
<1>7. Selected(u, K) = Selected(s, K)
  <2>1. \A k \in 1 .. Len(e) : u[e[k]] = s[e[k]]
    BY <1>1, <1>2
  <2>2. QED BY <1>5, <2>1
<1> DEFINE a == [k \in 1 .. Len(e) |-> s[e[k]]]
           b == [k \in 1 .. (Len(e) + 1) |-> u[f[k]]]
           c == Append(a, x)
<1>8. a \in Seq(S) /\ Len(a) = Len(e)
  <2>1. \A k \in 1 .. Len(e) : s[e[k]] \in S
    BY <1>1, <1>2
  <2>2. QED BY <1>2, <2>1
<1>9. b \in Seq(S) /\ Len(b) = Len(e) + 1
  <2>1. \A k \in 1 .. (Len(e) + 1) : u[f[k]] \in S
    <3>1. \A k \in 1 .. (Len(e) + 1) : k \in 1 .. Len(e) \/ k = Len(e) + 1
      BY <1>2
    <3>2. QED BY <1>1, <1>2, <1>4, <3>1
  <2>2. QED BY <1>2, <2>1
<1>10. \A k \in 1 .. Len(e) : a[k] = s[e[k]] /\ b[k] = u[f[k]]
  BY <1>2
<1>11. b[Len(e) + 1] = u[f[Len(e) + 1]]
  BY <1>2
<1> HIDE DEF a, b
<1>12. c \in Seq(S) /\ Len(c) = Len(e) + 1 /\ c[Len(e) + 1] = x /\ \A k \in 1 .. Len(e) : c[k] = a[k]
  BY <1>8, AppendOf
<1> HIDE DEF c
<1>13. b = c
  <2>1. \A k \in 1 .. (Len(e) + 1) : b[k] = c[k]
    <3>1. \A k \in 1 .. (Len(e) + 1) : k \in 1 .. Len(e) \/ k = Len(e) + 1
      BY <1>2
    <3>2. \A k \in 1 .. Len(e) : b[k] = c[k]
      <4>1. \A k \in 1 .. Len(e) : a[k] = s[e[k]] /\ b[k] = u[f[k]] /\ f[k] = e[k] /\ c[k] = a[k]
        BY <1>4, <1>10, <1>12
      <4>2. \A k \in 1 .. Len(e) : u[e[k]] = s[e[k]]
        BY <1>1, <1>2
      <4>3. ASSUME NEW k \in 1 .. Len(e) PROVE b[k] = c[k]
        <5>1. b[k] = u[f[k]] /\ f[k] = e[k]
          BY <4>1
        <5>2. c[k] = a[k] /\ a[k] = s[e[k]]
          BY <4>1
        <5>3. u[e[k]] = s[e[k]]
          BY <4>2
        <5>4. QED BY <5>1, <5>2, <5>3
      <4>4. QED BY <4>3
    <3>3. b[Len(e) + 1] = c[Len(e) + 1]
      BY <1>1, <1>4, <1>11, <1>12
    <3>4. QED BY <3>1, <3>2, <3>3
  <2>2. QED BY <1>9, <1>12, <2>1, SeqEqual
<1>14. QED BY <1>5, <1>6, <1>7, <1>8, <1>13 DEF a, b, c, u, n

\* Places of a list do not see an element that is added.
LEMMA SelectedSame ==
  ASSUME NEW S, NEW s \in Seq(S), NEW x \in S, NEW K \in SUBSET (1 .. Len(s))
  PROVE  Selected(Append(s, x), K) = Selected(s, K)
<1> DEFINE n == Len(s)
           u == Append(s, x)
<1>1. u = Append(s, x) /\ n = Len(s) /\ K \in SUBSET (1 .. n)
  OBVIOUS
<1> HIDE DEF u, n
<1>2. /\ Selected(u, K) = Selected(s, K) /\ Selected(s, K) \in Seq(S)
      /\ Selected(u, K \cup {n + 1}) = Append(Selected(s, K), x)
  BY <1>1, SelectedStep
<1>3. QED BY <1>2 DEF u

\* The lines of the event at place b, of a list that goes on.
LEMMA OwnStep ==
  ASSUME NEW L \in Seq(Line), NEW x \in Line
  PROVE  LET n == Len(L)
             M == Append(L, x)
         IN  /\ \A b \in 1 .. (n + 1) : Own(M, b) = Own(L, b) /\ Own(L, b) \in SUBSET (1 .. (b - 1))
             /\ Own(M, n + 2) = IF x = << >> THEN {} ELSE Own(L, n + 1) \cup {n + 1}
<1> DEFINE n == Len(L)
           M == Append(L, x)
<1> HIDE DEF Line
<1>1. n \in Nat /\ M[n + 1] = x /\ \A i \in 1 .. n : M[i] = L[i]
  BY AppendOf
<1> HIDE DEF n, M
<1>2. ASSUME NEW b \in 1 .. (n + 1) PROVE Own(M, b) = Own(L, b) /\ Own(L, b) \in SUBSET (1 .. (b - 1))
  <2>1. \A k \in 1 .. (b - 1) : \A j \in k .. (b - 1) : j \in 1 .. n
    BY <1>1
  <2>2. \A k \in 1 .. (b - 1) : \A j \in k .. (b - 1) : M[j] = L[j]
    BY <1>1, <2>1
  <2>3. QED BY <2>2 DEF Own
<1>3. (n + 2) - 1 = n + 1 /\ (n + 1) - 1 = n
  BY <1>1
<1>4. CASE x = << >>
  <2>1. \A k \in 1 .. (n + 1) : n + 1 \in k .. (n + 1)
    BY <1>1
  <2>2. QED BY <1>1, <1>2, <1>3, <1>4, <2>1 DEF Own, M, n
<1>5. CASE x # << >>
  <2>1. \A k \in 1 .. (n + 1) : k \in Own(M, n + 2) <=> k \in Own(L, n + 1) \cup {n + 1}
    <3>1. SUFFICES ASSUME NEW k \in 1 .. (n + 1)
                   PROVE  k \in Own(M, n + 2) <=> k \in Own(L, n + 1) \cup {n + 1}
      OBVIOUS
    <3>2. k \in Own(M, n + 2) <=> \A j \in k .. (n + 1) : M[j] # << >>
      BY <1>3 DEF Own
    <3>3. k \in Own(L, n + 1) <=> k \in 1 .. n /\ \A j \in k .. n : L[j] # << >>
      BY <1>3 DEF Own
    <3>4. CASE k = n + 1
      <4>1. \A j \in k .. (n + 1) : j = n + 1
        BY <1>1, <3>4
      <4>2. QED BY <1>1, <1>5, <3>2, <3>4, <4>1
    <3>5. CASE k # n + 1
      <4>1. k \in 1 .. n
        BY <1>1, <3>5
      <4>2. \A j \in k .. (n + 1) : j \in k .. n \/ j = n + 1
        BY <1>1
      <4>3. \A j \in k .. n : j \in k .. (n + 1) /\ M[j] = L[j]
        BY <1>1, <4>1
      <4>4. n + 1 \in k .. (n + 1)
        BY <1>1
      <4>5. QED BY <1>1, <1>5, <3>2, <3>3, <3>5, <4>1, <4>2, <4>3, <4>4
    <3>6. QED BY <3>4, <3>5
  <2>2. Own(M, n + 2) \subseteq 1 .. (n + 1) /\ Own(L, n + 1) \cup {n + 1} \subseteq 1 .. (n + 1)
    BY <1>1, <1>3 DEF Own
  <2>3. Own(M, n + 2) = Own(L, n + 1) \cup {n + 1}
    BY <2>1, <2>2
  <2>4. QED BY <1>2, <1>5, <2>3 DEF M, n
<1>6. QED BY <1>4, <1>5

Tails(s) == [k \in DOMAIN s |-> Tail(s[k])]

\* The values of some fields and of one field more.
LEMMA TailsStep ==
  ASSUME NEW s \in Seq(Line), NEW x \in Line
  PROVE  Tails(Append(s, x)) = Append(Tails(s), Tail(x)) /\ Tails(<< >>) = << >>
<1> DEFINE S == {Tail(l) : l \in Line}
           u == Append(s, x)
           a == Tails(u)
           b == Append(Tails(s), Tail(x))
<1> HIDE DEF Line
<1>1. /\ Len(s) \in Nat /\ DOMAIN s = 1 .. Len(s) /\ DOMAIN u = 1 .. (Len(s) + 1)
      /\ u[Len(s) + 1] = x /\ \A k \in 1 .. Len(s) : u[k] = s[k] /\ s[k] \in Line
  BY AppendOf, LenProperties
<1>2. Tail(x) \in S /\ \A k \in 1 .. Len(s) : Tail(s[k]) \in S
  BY <1>1
<1> HIDE DEF S, u
<1>3. Tails(s) \in Seq(S) /\ Len(Tails(s)) = Len(s) /\ \A k \in 1 .. Len(s) : Tails(s)[k] = Tail(s[k])
  <2>1. Tails(s) = [k \in 1 .. Len(s) |-> Tail(s[k])]
    BY <1>1 DEF Tails
  <2>2. QED BY <1>1, <1>2, <2>1
<1>4. b \in Seq(S) /\ Len(b) = Len(s) + 1 /\ b[Len(s) + 1] = Tail(x)
      /\ \A k \in 1 .. Len(s) : b[k] = Tail(s[k])
  BY <1>2, <1>3, AppendOf
<1>5. a = [k \in 1 .. (Len(s) + 1) |-> Tail(u[k])]
  BY <1>1 DEF Tails
<1> HIDE DEF a, b
<1>6. \A k \in 1 .. (Len(s) + 1) : k \in 1 .. Len(s) \/ k = Len(s) + 1
  BY <1>1
<1>7. \A k \in 1 .. (Len(s) + 1) : a[k] = Tail(u[k])
  BY <1>5
<1>8. \A k \in 1 .. (Len(s) + 1) : a[k] = b[k]
  <2>1. \A k \in 1 .. Len(s) : k \in 1 .. (Len(s) + 1)
    BY <1>1
  <2>2. \A k \in 1 .. Len(s) : a[k] = b[k]
    BY <1>1, <1>4, <1>7, <2>1
  <2>3. a[Len(s) + 1] = b[Len(s) + 1]
    BY <1>1, <1>4, <1>7
  <2>4. QED BY <1>6, <2>2, <2>3
<1>9. a \in Seq(S) /\ Len(a) = Len(s) + 1
  <2>1. \A k \in 1 .. (Len(s) + 1) : Tail(u[k]) \in S
    BY <1>1, <1>2, <1>6
  <2>2. QED BY <1>1, <1>5, <2>1
<1>10. a = b
  BY <1>4, <1>8, <1>9, SeqEqual
<1>11. Tails(<< >>) = << >>
  BY DEF Tails
<1>12. QED BY <1>10, <1>11 DEF a, b, u

\* What the fields at place b say, of a list that goes on.
LEMMA FieldsSame ==
  ASSUME NEW L \in Seq(Line), NEW x \in Line, NEW b \in 1 .. (Len(L) + 1)
  PROVE  LET M == Append(L, x)
         IN  /\ HasFields(M, b) = HasFields(L, b)
             /\ DataAt(M, b) = DataAt(L, b)
             /\ IdAt(M, b) = IdAt(L, b)
<1> DEFINE n == Len(L)
           M == Append(L, x)
           K == {k \in Own(L, b) : IsData(L[k])}
           I == {k \in 1 .. (b - 1) : IsId(L[k])}
<1>1. /\ n \in Nat /\ M[n + 1] = x /\ \A i \in 1 .. n : M[i] = L[i]
  <2> HIDE DEF Line
  <2>1. QED BY AppendOf
<1>2. Own(M, b) = Own(L, b) /\ Own(L, b) \in SUBSET (1 .. (b - 1))
  BY OwnStep
<1>3. 1 .. (b - 1) \subseteq 1 .. n
  BY <1>1
<1> HIDE DEF M
<1>4. \A k \in 1 .. (b - 1) : M[k] = L[k]
  BY <1>1, <1>3
<1>5. HasFields(M, b) = HasFields(L, b)
  BY <1>2, <1>4 DEF HasFields
<1>6. DataAt(M, b) = DataAt(L, b)
  <2>1. {k \in Own(M, b) : IsData(M[k])} = K
    BY <1>2, <1>4
  <2>2. K \in SUBSET (1 .. n)
    BY <1>2, <1>3
  <2> HIDE DEF K, Line, n
  <2>3. Selected(M, K) = Selected(L, K)
    <3>1. K \in SUBSET (1 .. Len(L))
      BY <2>2 DEF n
    <3>2. Selected(Append(L, x), K) = Selected(L, K)
      BY <3>1, SelectedSame
    <3>3. QED BY <3>2 DEF M
  <2>4. QED BY <2>1, <2>3 DEF DataAt, K
<1>7. IdAt(M, b) = IdAt(L, b)
  <2>1. {k \in 1 .. (b - 1) : IsId(M[k])} = I
    BY <1>4
  <2>2. ASSUME I # {} PROVE \E k \in I : \A j \in I : j <= k
    <3>1. I \in SUBSET (1 .. n)
      BY <1>3
    <3> HIDE DEF I
    <3>2. QED BY <1>1, <2>2, <3>1, ListEnds
  <2>3. ASSUME I # {} PROVE LET m == CHOOSE k \in I : \A j \in I : j <= k IN M[m] = L[m]
    <3> DEFINE m == CHOOSE k \in I : \A j \in I : j <= k
    <3>1. m \in I
      <4> HIDE DEF I
      <4>1. QED BY <2>2, <2>3
    <3> HIDE DEF m
    <3>2. M[m] = L[m]
      BY <1>4, <3>1
    <3>3. QED BY <3>2 DEF m
  <2> DEFINE J == {k \in 1 .. (b - 1) : IsId(M[k])}
  <2>4. /\ IdAt(M, b) = IF J = {} THEN << >> ELSE Tail(M[CHOOSE k \in J : \A j \in J : j <= k])
        /\ IdAt(L, b) = IF I = {} THEN << >> ELSE Tail(L[CHOOSE k \in I : \A j \in I : j <= k])
    BY DEF IdAt
  <2>5. J = I
    BY <2>1
  <2> HIDE DEF I, J
  <2>6. QED BY <2>3, <2>4, <2>5
<1>8. QED BY <1>5, <1>6, <1>7 DEF M

\* And behind one more line.
LEMMA FieldsNext ==
  ASSUME NEW L \in Seq(Line), NEW x \in Line
  PROVE  LET n == Len(L)
             M == Append(L, x)
         IN  /\ HasFields(M, n + 2) = IF x = << >> THEN FALSE
                                      ELSE HasFields(L, n + 1) \/ IsData(x) \/ IsId(x)
             /\ DataAt(M, n + 2) = IF x = << >> THEN << >>
                                   ELSE IF IsData(x) THEN Append(DataAt(L, n + 1), Tail(x))
                                   ELSE DataAt(L, n + 1)
             /\ IdAt(M, n + 2) = IF IsId(x) THEN Tail(x) ELSE IdAt(L, n + 1)
<1> DEFINE n == Len(L)
           M == Append(L, x)
           O == Own(L, n + 1)
           K == {k \in O : IsData(L[k])}
           I == {k \in 1 .. n : IsId(L[k])}
<1>1. /\ n \in Nat /\ M[n + 1] = x /\ \A i \in 1 .. n : M[i] = L[i]
  <2> HIDE DEF Line
  <2>1. QED BY AppendOf
<1>2. /\ Own(M, n + 2) = (IF x = << >> THEN {} ELSE O \cup {n + 1}) /\ O \in SUBSET (1 .. n)
      /\ (n + 2) - 1 = n + 1 /\ (n + 1) - 1 = n
  <2>1. (n + 2) - 1 = n + 1 /\ (n + 1) - 1 = n /\ n + 1 \in 1 .. (n + 1)
    BY <1>1
  <2> HIDE DEF Line
  <2>2. QED BY <2>1, OwnStep
<1> HIDE DEF M, n, O
<1>3. HasFields(M, n + 2) = IF x = << >> THEN FALSE ELSE HasFields(L, n + 1) \/ IsData(x) \/ IsId(x)
  <2>1. CASE x = << >>
    BY <1>2, <2>1 DEF HasFields
  <2>2. CASE x # << >>
    <3>1. HasFields(M, n + 2) <=> \E k \in O \cup {n + 1} : IsData(M[k]) \/ IsId(M[k])
      BY <1>2, <2>2 DEF HasFields
    <3>2. HasFields(L, n + 1) <=> \E k \in O : IsData(L[k]) \/ IsId(L[k])
      BY DEF HasFields, O
    <3>3. \A k \in O : M[k] = L[k]
      BY <1>1, <1>2
    <3>4. HasFields(M, n + 2) <=> (HasFields(L, n + 1) \/ IsData(x) \/ IsId(x))
      BY <1>1, <3>1, <3>2, <3>3
    <3>5. HasFields(M, n + 2) \in BOOLEAN /\ HasFields(L, n + 1) \in BOOLEAN
      BY DEF HasFields
    <3>6. QED BY <2>2, <3>4, <3>5
  <2>3. QED BY <2>1, <2>2
<1>4. DataAt(M, n + 2) = IF x = << >> THEN << >>
                         ELSE IF IsData(x) THEN Append(DataAt(L, n + 1), Tail(x))
                         ELSE DataAt(L, n + 1)
  <2> DEFINE J == {k \in Own(M, n + 2) : IsData(M[k])}
  <2>1. DataAt(M, n + 2) = Tails(Selected(M, J)) /\ DataAt(L, n + 1) = Tails(Selected(L, K))
    BY DEF DataAt, Tails, O
  <2>2. J = IF x = << >> THEN {} ELSE IF IsData(x) THEN K \cup {n + 1} ELSE K
    <3>1. \A k \in O : M[k] = L[k]
      BY <1>1, <1>2
    <3>2. CASE x = << >>
      BY <1>2, <3>2
    <3>3. CASE x # << >>
      BY <1>1, <1>2, <3>1, <3>3
    <3>4. QED BY <3>2, <3>3
  <2>3. K \in SUBSET (1 .. n)
    BY <1>2
  <2> HIDE DEF J, K
  <2>4. /\ Selected(M, K) = Selected(L, K) /\ Selected(L, K) \in Seq(Line)
        /\ Selected(M, K \cup {n + 1}) = Append(Selected(L, K), x)
    <3> HIDE DEF Line
    <3>1. QED BY <2>3, SelectedStep DEF M, n
  <2>5. Selected(M, {}) = << >>
    BY AscendingEmpty DEF Selected
  <2>6. QED BY <2>1, <2>2, <2>4, <2>5, TailsStep
<1>5. IdAt(M, n + 2) = IF IsId(x) THEN Tail(x) ELSE IdAt(L, n + 1)
  <2> DEFINE J == {k \in 1 .. (n + 1) : IsId(M[k])}
  <2>1. J = IF IsId(x) THEN I \cup {n + 1} ELSE I
    <3>1. \A k \in 1 .. (n + 1) : k \in 1 .. n \/ k = n + 1
      BY <1>1
    <3>2. \A k \in 1 .. n : k \in 1 .. (n + 1)
      BY <1>1
    <3>3. n + 1 \in 1 .. (n + 1)
      BY <1>1
    <3>4. QED BY <1>1, <3>1, <3>2, <3>3
  <2>2. /\ IdAt(M, n + 2) = IF J = {} THEN << >> ELSE Tail(M[CHOOSE k \in J : \A j \in J : j <= k])
        /\ IdAt(L, n + 1) = IF I = {} THEN << >> ELSE Tail(L[CHOOSE k \in I : \A j \in I : j <= k])
    <3> DEFINE G == {k \in 1 .. ((n + 2) - 1) : IsId(M[k])}
               H == {k \in 1 .. ((n + 1) - 1) : IsId(L[k])}
    <3>1. /\ IdAt(M, n + 2) = IF G = {} THEN << >> ELSE Tail(M[CHOOSE k \in G : \A j \in G : j <= k])
          /\ IdAt(L, n + 1) = IF H = {} THEN << >> ELSE Tail(L[CHOOSE k \in H : \A j \in H : j <= k])
      BY DEF IdAt
    <3>2. G = J /\ H = I
      BY <1>2
    <3> HIDE DEF G, H, I, J
    <3>3. QED BY <3>1, <3>2
  <2>3. I \in SUBSET (1 .. n)
    OBVIOUS
  <2>4. CASE IsId(x)
    <3>1. n + 1 \in J /\ \A j \in J : j \in 1 .. (n + 1)
      BY <1>1, <2>1, <2>4
    <3> HIDE DEF J
    <3>2. (CHOOSE k \in J : \A j \in J : j <= k) = n + 1
      <4>1. n + 1 \in J /\ \A j \in J : j <= n + 1
        BY <1>1, <3>1
      <4>2. \A k \in J : (\A j \in J : j <= k) => k = n + 1
        BY <1>1, <3>1
      <4>3. QED BY <4>1, <4>2
    <3>3. QED BY <1>1, <2>2, <2>4, <3>1, <3>2
  <2>5. CASE ~IsId(x)
    <3> DEFINE m == CHOOSE k \in I : \A j \in I : j <= k
    <3>1. J = I
      BY <2>1, <2>5
    <3> HIDE DEF J
    <3>2. CASE I = {}
      BY <2>2, <2>5, <3>1, <3>2
    <3>3. CASE I # {}
      <4> HIDE DEF I
      <4>1. \E k \in I : \A j \in I : j <= k
        BY <1>1, <2>3, <3>3, ListEnds
      <4>2. m \in I
        BY <4>1
      <4>3. M[m] = L[m]
        BY <1>1, <2>3, <4>2
      <4>4. QED BY <2>2, <2>5, <3>1, <3>3, <4>3
    <3>4. QED BY <3>2, <3>3
  <2>6. QED BY <2>4, <2>5
<1>6. QED BY <1>3, <1>4, <1>5 DEF M, n

\* The events of a list with one line more.
LEMMA EventsStep ==
  ASSUME NEW L \in Seq(Line), NEW x \in Line
  PROVE  LET n == Len(L)
             event == [data |-> DataAt(L, n + 1), id |-> IdAt(L, n + 1)]
         IN  EventsIn(Append(L, x)) =
               IF x = << >> /\ HasFields(L, n + 1) THEN Append(EventsIn(L), event) ELSE EventsIn(L)
<1> DEFINE n == Len(L)
           M == Append(L, x)
           event == [data |-> DataAt(L, n + 1), id |-> IdAt(L, n + 1)]
           At(N, b) == [data |-> DataAt(N, b), id |-> IdAt(N, b)]
           B == {b \in 1 .. n : L[b] = << >> /\ HasFields(L, b)}
           C == {b \in 1 .. (n + 1) : M[b] = << >> /\ HasFields(M, b)}
           e == Ascending(B)
           f == Ascending(C)
<1>1. /\ n \in Nat /\ DOMAIN L = 1 .. n /\ DOMAIN M = 1 .. (n + 1)
      /\ M[n + 1] = x /\ \A i \in 1 .. n : M[i] = L[i]
  <2> HIDE DEF Line
  <2>1. QED BY AppendOf, LenProperties
<1>2. EventsIn(L) = [k \in DOMAIN e |-> At(L, e[k])] /\ EventsIn(M) = [k \in DOMAIN f |-> At(M, f[k])]
  BY <1>1 DEF EventsIn
<1>3. \A b \in 1 .. (n + 1) : HasFields(M, b) = HasFields(L, b) /\ At(M, b) = At(L, b)
  BY FieldsSame
<1>4. C = IF x = << >> /\ HasFields(L, n + 1) THEN B \cup {n + 1} ELSE B
  <2>1. \A b \in 1 .. (n + 1) : b \in 1 .. n \/ b = n + 1
    BY <1>1
  <2>2. \A b \in 1 .. n : b \in 1 .. (n + 1)
    BY <1>1
  <2>3. n + 1 \in 1 .. (n + 1)
    BY <1>1
  <2> HIDE DEF M, At
  <2>4. QED BY <1>1, <1>3, <2>1, <2>2, <2>3
<1>5. /\ e \in Seq(B) /\ Len(e) \in Nat /\ DOMAIN e = 1 .. Len(e)
      /\ \A k \in 1 .. Len(e) : e[k] \in 1 .. n
  <2>1. B \in SUBSET (1 .. n)
    OBVIOUS
  <2> HIDE DEF B
  <2>2. e \in Seq(B)
    BY <1>1, <2>1, AscendingEnumerates
  <2> HIDE DEF e
  <2>3. QED BY <2>1, <2>2, LenProperties
<1>6. B \in SUBSET (1 .. n) /\ n + 1 \in Nat /\ n < n + 1
  BY <1>1
<1> DEFINE X == {At(L, b) : b \in 1 .. (n + 1)}
<1>7. \A b \in 1 .. (n + 1) : At(L, b) \in X
  OBVIOUS
<1>8. event = At(L, n + 1)
  OBVIOUS
<1> HIDE DEF M, At, B, C, e, n, X, event
<1>9. \A b \in 1 .. n : b \in 1 .. (n + 1)
  BY <1>1
<1>10. n + 1 \in 1 .. (n + 1)
  BY <1>1
<1> DEFINE a == [k \in 1 .. Len(e) |-> At(L, e[k])]
<1>11. a \in Seq(X) /\ Len(a) = Len(e) /\ EventsIn(L) = a
  <2>1. \A k \in 1 .. Len(e) : At(L, e[k]) \in X
    BY <1>5, <1>7, <1>9
  <2>2. QED BY <1>2, <1>5, <2>1
<1>12. \A k \in 1 .. Len(e) : a[k] = At(L, e[k])
  OBVIOUS
<1>13. CASE x = << >> /\ HasFields(L, n + 1)
  <2>1. f = Append(e, n + 1)
    <3>1. C = B \cup {n + 1}
      BY <1>4, <1>13
    <3> HIDE DEF f
    <3>2. QED BY <1>1, <1>6, <3>1, AscendingStep DEF e, f
  <2>2. /\ DOMAIN f = 1 .. (Len(e) + 1) /\ f[Len(e) + 1] = n + 1
        /\ \A k \in 1 .. Len(e) : f[k] = e[k]
    <3>1. e \in Seq(Nat)
      <4>1. B \subseteq Nat
        BY <1>6
      <4>2. QED BY <1>5, <4>1, SeqMonotonic
    <3>2. /\ Append(e, n + 1) \in Seq(Nat) /\ Len(Append(e, n + 1)) = Len(e) + 1
          /\ \A k \in 1 .. Len(e) : Append(e, n + 1)[k] = e[k]
          /\ Append(e, n + 1)[Len(e) + 1] = n + 1
      BY <1>6, <3>1, AppendOf
    <3> HIDE DEF f
    <3>3. QED BY <2>1, <3>2, LenProperties
  <2> HIDE DEF f
  <2> DEFINE b == [k \in 1 .. (Len(e) + 1) |-> At(M, f[k])]
             c == Append(a, event)
  <2>3. EventsIn(M) = b
    BY <1>2, <2>2
  <2>4. \A k \in 1 .. (Len(e) + 1) : b[k] = At(M, f[k])
    OBVIOUS
  <2>5. \A k \in 1 .. (Len(e) + 1) : k \in 1 .. Len(e) \/ k = Len(e) + 1
    BY <1>5
  <2>6. \A k \in 1 .. Len(e) : k \in 1 .. (Len(e) + 1)
    BY <1>5
  <2>7. Len(e) + 1 \in 1 .. (Len(e) + 1)
    BY <1>5
  <2>8. \A k \in 1 .. Len(e) : At(M, f[k]) = At(L, e[k]) /\ At(L, e[k]) \in X
    BY <1>3, <1>5, <1>7, <1>9, <2>2
  <2>9. At(M, f[Len(e) + 1]) = event /\ event \in X
    BY <1>3, <1>7, <1>8, <1>10, <2>2
  <2>10. \A k \in 1 .. (Len(e) + 1) : At(M, f[k]) \in X
    BY <2>5, <2>8, <2>9
  <2>11. b \in Seq(X) /\ Len(b) = Len(e) + 1
    BY <1>5, <2>10
  <2> HIDE DEF a, b
  <2>12. /\ c \in Seq(X) /\ Len(c) = Len(e) + 1 /\ c[Len(e) + 1] = event
         /\ \A k \in 1 .. Len(e) : c[k] = a[k]
    BY <1>11, <2>9, AppendOf
  <2> HIDE DEF c
  <2>13. \A k \in 1 .. Len(e) : b[k] = c[k]
    BY <1>12, <2>4, <2>6, <2>8, <2>12
  <2>14. b[Len(e) + 1] = c[Len(e) + 1]
    BY <2>4, <2>7, <2>9, <2>12
  <2>15. \A k \in 1 .. (Len(e) + 1) : b[k] = c[k]
    BY <2>5, <2>13, <2>14
  <2>16. b = c
    BY <2>11, <2>12, <2>15, SeqEqual
  <2>17. QED BY <1>11, <1>13, <2>3, <2>16 DEF c, M, event, n
<1>14. CASE ~(x = << >> /\ HasFields(L, n + 1))
  <2>1. f = e
    BY <1>4, <1>14 DEF e
  <2> HIDE DEF f
  <2>2. \A k \in 1 .. Len(e) : At(M, e[k]) = At(L, e[k])
    BY <1>3, <1>5, <1>9
  <2>3. EventsIn(M) = EventsIn(L)
    BY <1>2, <1>5, <2>1, <2>2
  <2>4. QED BY <1>14, <2>3 DEF M, n
<1>15. QED BY <1>13, <1>14

\* No lines, no events.
LEMMA NoEvents == EventsIn(<< >>) = << >> /\ DataAt(<< >>, 1) = << >> /\ IdAt(<< >>, 1) = << >>
                  /\ HasFields(<< >>, 1) = FALSE /\ Own(<< >>, 1) = {}
<1>1. DOMAIN << >> = {} /\ 1 .. (1 - 1) = {}
  OBVIOUS
<1>2. Own(<< >>, 1) = {}
  BY <1>1 DEF Own
<1>3. Selected(<< >>, {}) = << >>
  BY AscendingEmpty DEF Selected
<1>4. {k \in Own(<< >>, 1) : IsData(<< >>[k])} = {} /\ {k \in 1 .. (1 - 1) : IsId(<< >>[k])} = {}
  BY <1>1, <1>2
<1>5. DataAt(<< >>, 1) = << >>
  <2> DEFINE K == {k \in Own(<< >>, 1) : IsData(<< >>[k])}
  <2>1. DataAt(<< >>, 1) = Tails(Selected(<< >>, K))
    BY DEF DataAt, Tails
  <2>2. K = {}
    BY <1>4
  <2> HIDE DEF K
  <2>3. Tails(<< >>) = << >>
    BY DEF Tails
  <2>4. QED BY <1>3, <2>1, <2>2, <2>3
<1>6. IdAt(<< >>, 1) = << >>
  BY <1>4 DEF IdAt
<1>7. {b \in DOMAIN << >> : << >>[b] = << >> /\ HasFields(<< >>, b)} = {}
  BY <1>1
<1>8. EventsIn(<< >>) = << >>
  BY <1>7, AscendingEmpty DEF EventsIn
<1>9. HasFields(<< >>, 1) = FALSE
  BY <1>2 DEF HasFields
<1>10. QED BY <1>2, <1>5, <1>6, <1>8, <1>9

-----------------------------------------------------------------------------
(***************************************************************************)
(* How many characters lines have.                                         *)
(***************************************************************************)
\* The length of two lists put together.
LEMMA Concatenated ==
  ASSUME NEW S, NEW s \in Seq(S), NEW t \in Seq(S)
  PROVE  Len(s \o t) = Len(s) + Len(t) /\ Len(s) \in Nat /\ Len(t) \in Nat
  BY ConcatProperties

\* One more place, behind the others, in the list.
LEMMA SelectedNext ==
  ASSUME NEW S, NEW s \in Seq(S), NEW m \in 1 .. Len(s), NEW K \in SUBSET (1 .. (m - 1))
  PROVE  Selected(s, K) \in Seq(S) /\ Selected(s, K \cup {m}) = Append(Selected(s, K), s[m])
<1> DEFINE e == Ascending(K)
           f == Append(e, m)
           n == Len(s)
<1>1. /\ n \in Nat /\ m \in Nat /\ m - 1 \in Nat /\ m - 1 < m /\ s[m] \in S
      /\ \A i \in 1 .. n : s[i] \in S
  OBVIOUS
<1>2. e \in Seq(K) /\ Ascending(K \cup {m}) = f
  <2> HIDE DEF n
  <2>1. QED BY <1>1, AscendingEnumerates, AscendingStep
<1>3. e \in Seq(Nat) /\ Len(e) \in Nat /\ DOMAIN e = 1 .. Len(e) /\ \A k \in 1 .. Len(e) : e[k] \in 1 .. n
  <2>1. K \subseteq Nat /\ K \subseteq 1 .. n
    OBVIOUS
  <2> HIDE DEF e, n
  <2>2. QED BY <1>2, <2>1, SeqMonotonic, LenProperties
<1>4. /\ Len(f) = Len(e) + 1 /\ DOMAIN f = 1 .. (Len(e) + 1)
      /\ f[Len(e) + 1] = m /\ \A k \in 1 .. Len(e) : f[k] = e[k]
  <2> HIDE DEF e
  <2>1. f \in Seq(Nat)
    BY <1>1, <1>3, AppendOf
  <2>2. QED BY <1>1, <1>3, <2>1, AppendOf, LenProperties
<1> DEFINE a == [k \in 1 .. Len(e) |-> s[e[k]]]
           b == [k \in 1 .. (Len(e) + 1) |-> s[f[k]]]
           c == Append(a, s[m])
<1>5. Selected(s, K) = a /\ Selected(s, K \cup {m}) = b
  BY <1>2, <1>3, <1>4 DEF Selected
<1> HIDE DEF e, f, n
<1>6. a \in Seq(S) /\ Len(a) = Len(e)
  <2>1. \A k \in 1 .. Len(e) : s[e[k]] \in S
    BY <1>1, <1>3
  <2>2. QED BY <1>3, <2>1
<1>7. b \in Seq(S) /\ Len(b) = Len(e) + 1
  <2>1. \A k \in 1 .. (Len(e) + 1) : s[f[k]] \in S
    <3>1. \A k \in 1 .. (Len(e) + 1) : k \in 1 .. Len(e) \/ k = Len(e) + 1
      BY <1>3
    <3>2. QED BY <1>1, <1>3, <1>4, <3>1
  <2>2. QED BY <1>3, <2>1
<1>8. \A k \in 1 .. Len(e) : a[k] = s[e[k]] /\ b[k] = s[f[k]]
  BY <1>3
<1>9. b[Len(e) + 1] = s[f[Len(e) + 1]]
  BY <1>3
<1> HIDE DEF a, b
<1>10. c \in Seq(S) /\ Len(c) = Len(e) + 1 /\ c[Len(e) + 1] = s[m] /\ \A k \in 1 .. Len(e) : c[k] = a[k]
  BY <1>1, <1>6, AppendOf
<1> HIDE DEF c
<1>11. b = c
  <2>1. \A k \in 1 .. (Len(e) + 1) : k \in 1 .. Len(e) \/ k = Len(e) + 1
    BY <1>3
  <2>2. \A k \in 1 .. Len(e) : b[k] = c[k]
    BY <1>4, <1>8, <1>10
  <2>3. b[Len(e) + 1] = c[Len(e) + 1]
    BY <1>4, <1>9, <1>10
  <2>4. \A k \in 1 .. (Len(e) + 1) : b[k] = c[k]
    BY <2>1, <2>2, <2>3
  <2>5. QED BY <1>7, <1>10, <2>4, SeqEqual
<1>12. QED BY <1>5, <1>6, <1>11 DEF c

\* The characters of some lines and of one behind them.
LEMMA SizeNext ==
  ASSUME NEW L \in Seq(Line), NEW m \in 1 .. Len(L), NEW K \in SUBSET (1 .. (m - 1))
  PROVE  Size(L, K) \in Nat /\ Size(L, K \cup {m}) = Size(L, K) + Len(L[m]) /\ Len(L[m]) \in Nat
<1> DEFINE a == Selected(L, K)
           x == L[m]
<1>1. a \in Seq(Line) /\ Selected(L, K \cup {m}) = Append(a, x) /\ x \in Line
  <2> HIDE DEF Line
  <2>1. QED BY SelectedNext
<1> HIDE DEF a, x
<1>2. /\ FlattenSeq(a) \in Line /\ FlattenSeq(Append(a, x)) = FlattenSeq(a) \o x
  BY <1>1, FlattenAppend DEF Line
<1>3. Len(FlattenSeq(a) \o x) = Len(FlattenSeq(a)) + Len(x) /\ Len(FlattenSeq(a)) \in Nat /\ Len(x) \in Nat
  BY <1>1, <1>2, Concatenated DEF Line
<1>4. QED BY <1>1, <1>2, <1>3 DEF Size, a, x

\* No lines have no characters.
LEMMA SizeNone == \A L : Size(L, {}) = 0
<1>1. \A L : Selected(L, {}) = << >>
  BY AscendingEmpty DEF Selected
<1>2. QED BY <1>1, FlattenEmpty, EmptyList DEF Size

\* The characters of lines that a list has before it goes on.
LEMMA SizeSame ==
  ASSUME NEW L \in Seq(Line), NEW x \in Line, NEW K \in SUBSET (1 .. Len(L))
  PROVE  Size(Append(L, x), K) = Size(L, K)
<1>1. Selected(Append(L, x), K) = Selected(L, K)
  <2> HIDE DEF Line
  <2>1. QED BY SelectedSame
<1>2. QED BY <1>1 DEF Size

\* Every line of L is in M, at the same place, and no longer there than in M.
Within(L, M) == Len(L) <= Len(M) /\ \A i \in 1 .. Len(L) : Len(L[i]) <= Len(M[i])

\* More and longer lines have more characters.
LEMMA SizeGrows ==
  ASSUME NEW L \in Seq(Line), NEW M \in Seq(Line), Within(L, M),
         NEW T \in SUBSET (1 .. Len(L)), NEW S \in SUBSET T
  PROVE  Size(L, S) <= Size(M, T) /\ Size(L, S) \in Nat /\ Size(M, T) \in Nat
<1> DEFINE n == Len(L)
           A(m) == Size(L, S \cap (1 .. m))
           B(m) == Size(M, T \cap (1 .. m))
           Good == {m \in 0 .. n : A(m) \in Nat /\ B(m) \in Nat /\ A(m) <= B(m)}
<1>1. n \in Nat /\ n <= Len(M) /\ Len(M) \in Nat /\ \A i \in 1 .. n : Len(L[i]) <= Len(M[i])
  <2> HIDE DEF Line
  <2>1. QED BY DEF Within
<1>2. 0 \in Good
  <2>1. S \cap (1 .. 0) = {} /\ T \cap (1 .. 0) = {}
    OBVIOUS
  <2>2. A(0) = 0 /\ B(0) = 0
    BY <2>1, SizeNone
  <2>3. QED BY <1>1, <2>2
<1>3. ASSUME NEW m \in 0 .. (n - 1), m \in Good PROVE m + 1 \in Good
  <2> DEFINE j == m + 1
             X == S \cap (1 .. m)
             Y == T \cap (1 .. m)
  <2>1. j \in 1 .. n /\ j \in 1 .. Len(M) /\ j - 1 = m /\ j \in 0 .. n
    BY <1>1
  <2>2. X \in SUBSET (1 .. (j - 1)) /\ Y \in SUBSET (1 .. (j - 1))
    BY <2>1
  <2>3. /\ S \cap (1 .. j) = IF j \in S THEN X \cup {j} ELSE X
        /\ T \cap (1 .. j) = IF j \in T THEN Y \cup {j} ELSE Y
    <3>1. \A i : i \in 1 .. j <=> i \in 1 .. m \/ i = j
      BY <1>1
    <3> HIDE DEF j
    <3>2. QED BY <3>1
  <2> HIDE DEF j, X, Y
  <2>4. Size(L, X) \in Nat /\ Size(L, X \cup {j}) = Size(L, X) + Len(L[j]) /\ Len(L[j]) \in Nat
    <3> HIDE DEF Line
    <3>1. QED BY <2>1, <2>2, SizeNext
  <2>5. Size(M, Y) \in Nat /\ Size(M, Y \cup {j}) = Size(M, Y) + Len(M[j]) /\ Len(M[j]) \in Nat
    <3> HIDE DEF Line
    <3>1. QED BY <2>1, <2>2, SizeNext
  <2>6. Size(L, X) <= Size(M, Y)
    BY <1>3 DEF X, Y
  <2>7. Len(L[j]) <= Len(M[j]) /\ (j \in S => j \in T)
    BY <1>1, <2>1
  <2>8. A(j) \in Nat /\ B(j) \in Nat /\ A(j) <= B(j)
    <3>1. A(j) = (IF j \in S THEN Size(L, X) + Len(L[j]) ELSE Size(L, X))
      BY <2>3, <2>4
    <3>2. B(j) = (IF j \in T THEN Size(M, Y) + Len(M[j]) ELSE Size(M, Y))
      BY <2>3, <2>5
    <3> DEFINE a == Size(L, X)
               b == Size(M, Y)
               k == Len(L[j])
               l == Len(M[j])
    <3>3. a \in Nat /\ b \in Nat /\ k \in Nat /\ l \in Nat /\ a <= b /\ k <= l
      BY <2>4, <2>5, <2>6, <2>7
    <3> HIDE DEF A, B, a, b, k, l
    <3>4. a + k \in Nat /\ b + l \in Nat /\ a <= b + l /\ a + k <= b + l
      BY <3>3
    <3>5. A(j) = (IF j \in S THEN a + k ELSE a) /\ B(j) = (IF j \in T THEN b + l ELSE b)
      BY <3>1, <3>2 DEF a, b, k, l
    <3>6. CASE j \in S
      <4>1. A(j) = a + k /\ B(j) = b + l
        BY <2>7, <3>5, <3>6
      <4>2. QED BY <3>4, <4>1
    <3>7. CASE j \notin S /\ j \in T
      <4>1. A(j) = a /\ B(j) = b + l
        BY <3>5, <3>7
      <4>2. QED BY <3>3, <3>4, <4>1
    <3>8. CASE j \notin S /\ j \notin T
      <4>1. A(j) = a /\ B(j) = b
        BY <3>5, <3>8
      <4>2. QED BY <3>3, <4>1
    <3>9. QED BY <3>6, <3>7, <3>8
  <2> HIDE DEF A, B
  <2>9. j \in Good
    BY <2>1, <2>8
  <2>10. QED BY <2>9 DEF j
<1>4. n \in Good
  <2> HIDE DEF Good, n
  <2>1. 0 .. n \subseteq Good
    BY <1>1, <1>2, <1>3, FirstNumbers
  <2>2. QED BY <1>1, <2>1
<1>5. S \cap (1 .. n) = S /\ T \cap (1 .. n) = T
  OBVIOUS
<1>6. QED BY <1>4, <1>5

\* What counts of the event at place b: not its comments.
Count(L, b) == Size(L, NoComments(L, Own(L, b)))

\* The count, line by line.
LEMMA CountStep ==
  ASSUME NEW L \in Seq(Line), NEW x \in Line
  PROVE  LET n == Len(L)
             M == Append(L, x)
         IN  /\ \A b \in 1 .. (n + 1) : Count(M, b) = Count(L, b) /\ Count(L, b) \in Nat
             /\ Count(M, n + 2) = IF x = << >> THEN 0
                                  ELSE IF Head(x) = ":" THEN Count(L, n + 1)
                                  ELSE Count(L, n + 1) + Len(x)
<1> DEFINE n == Len(L)
           M == Append(L, x)
<1>1. /\ n \in Nat /\ M \in Seq(Line) /\ Len(M) = n + 1 /\ M[n + 1] = x /\ \A i \in 1 .. n : M[i] = L[i]
  <2> HIDE DEF Line
  <2>1. QED BY AppendOf
<1>2. /\ \A b \in 1 .. (n + 1) : Own(M, b) = Own(L, b) /\ Own(L, b) \in SUBSET (1 .. (b - 1))
      /\ Own(M, n + 2) = IF x = << >> THEN {} ELSE Own(L, n + 1) \cup {n + 1}
  <2> HIDE DEF Line
  <2>1. QED BY OwnStep
<1>3. \A K \in SUBSET (1 .. n) : Size(M, K) = Size(L, K)
  <2> HIDE DEF Line
  <2>1. QED BY SizeSame
<1>4. \A K \in SUBSET (1 .. n) : Size(M, K) \in Nat /\ Size(M, K \cup {n + 1}) = Size(M, K) + Len(x)
  <2> HIDE DEF Line
  <2>1. n + 1 \in 1 .. Len(M) /\ (n + 1) - 1 = n
    BY <1>1
  <2> HIDE DEF n, M
  <2>2. QED BY <1>1, <2>1, SizeNext
<1> HIDE DEF n, M
<1>5. ASSUME NEW b \in 1 .. (n + 1) PROVE Count(M, b) = Count(L, b) /\ Count(L, b) \in Nat
  <2> DEFINE K == NoComments(L, Own(L, b))
  <2>1. Own(L, b) \subseteq 1 .. n
    BY <1>1, <1>2
  <2>2. NoComments(M, Own(M, b)) = K
    BY <1>1, <1>2, <2>1 DEF NoComments
  <2>3. K \in SUBSET (1 .. n)
    BY <2>1 DEF NoComments
  <2> HIDE DEF K
  <2>4. Size(M, K) = Size(L, K) /\ Size(M, K) \in Nat
    BY <1>3, <1>4, <2>3
  <2>5. QED BY <2>2, <2>4 DEF Count, K
<1>6. CASE x = << >>
  <2>1. NoComments(M, Own(M, n + 2)) = {}
    BY <1>2, <1>6 DEF NoComments
  <2>2. Count(M, n + 2) = 0
    BY <2>1, SizeNone DEF Count
  <2>3. QED BY <1>5, <1>6, <2>2 DEF M, n
<1>7. CASE x # << >>
  <2> DEFINE O == Own(L, n + 1)
             K == NoComments(L, O)
  <2>1. O \subseteq 1 .. n
    <3>1. (n + 1) - 1 = n /\ n + 1 \in 1 .. (n + 1)
      BY <1>1
    <3>2. QED BY <1>2, <3>1
  <2>2. NoComments(M, Own(M, n + 2)) = IF Head(x) = ":" THEN K ELSE K \cup {n + 1}
    <3>1. NoComments(M, O \cup {n + 1}) = {k \in O \cup {n + 1} : Head(M[k]) # ":"}
      BY DEF NoComments
    <3>2. K = {k \in O : Head(M[k]) # ":"}
      BY <1>1, <2>1 DEF NoComments
    <3> HIDE DEF O, K
    <3>3. QED BY <1>1, <1>2, <1>7, <3>1, <3>2 DEF O
  <2>3. K \in SUBSET (1 .. n)
    BY <2>1 DEF NoComments
  <2> HIDE DEF K
  <2>4. Size(M, K) = Size(L, K) /\ Size(M, K) \in Nat /\ Size(M, K \cup {n + 1}) = Size(M, K) + Len(x)
    BY <1>3, <1>4, <2>3
  <2>5. Count(M, n + 2) = IF Head(x) = ":" THEN Count(L, n + 1) ELSE Count(L, n + 1) + Len(x)
    BY <2>2, <2>4 DEF Count, K
  <2>6. QED BY <1>5, <1>7, <2>5 DEF M, n
<1>8. QED BY <1>6, <1>7

\* No event is over the limit.
Small(L) == \A b \in 1 .. (Len(L) + 1) : ~TooLarge(Count(L, b))
\* Some stretch of lines is.
Over(L) == \E S \in Stretches(L) : TooLarge(Size(L, S))

\* A line that leaves its event within the limit leaves all of them within it.
LEMMA SmallStep ==
  ASSUME NEW L \in Seq(Line), NEW x \in Line, Small(L), ~TooLarge(Count(Append(L, x), Len(L) + 2))
  PROVE  Small(Append(L, x))
<1> DEFINE n == Len(L)
           M == Append(L, x)
<1>1. n \in Nat /\ Len(M) = n + 1
  <2> HIDE DEF Line
  <2>1. QED BY AppendOf
<1>2. \A b \in 1 .. (n + 1) : Count(M, b) = Count(L, b)
  BY CountStep
<1> HIDE DEF n, M
<1>3. SUFFICES ASSUME NEW b \in 1 .. (n + 2) PROVE ~TooLarge(Count(M, b))
  <2>1. (n + 1) + 1 = n + 2
    BY <1>1
  <2>2. QED BY <1>1, <2>1 DEF Small, M
<1>4. CASE b = n + 2
  BY <1>4 DEF M, n
<1>5. CASE b # n + 2
  <2>1. b \in 1 .. (n + 1)
    BY <1>1, <1>5
  <2>2. QED BY <1>2, <2>1 DEF Small, n
<1>6. QED BY <1>4, <1>5

\* No lines are within the limit.
LEMMA SmallNone == Small(<< >>)
<1>1. Own(<< >>, 1) = {}
  BY NoEvents
<1>2. NoComments(<< >>, {}) = {}
  BY DEF NoComments
<1>3. Count(<< >>, 1) = 0
  BY <1>1, <1>2, SizeNone DEF Count
<1>4. ~TooLarge(0)
  BY BodyAssumption DEF TooLarge
<1>5. \A b \in 1 .. (Len(<< >>) + 1) : b = 1
  BY EmptyList
<1>6. QED BY <1>3, <1>4, <1>5 DEF Small

\* Lines without a blank one among them belong to one event.
LEMMA SmallStretches ==
  ASSUME NEW L \in Seq(Line), Small(L), NEW S \in Stretches(L)
  PROVE  ~TooLarge(Size(L, NoComments(L, S)))
<1> DEFINE n == Len(L)
<1>1. n \in Nat /\ DOMAIN L = 1 .. n
  <2> HIDE DEF Line
  <2>1. QED BY LenProperties
<1>2. PICK a \in 1 .. n, b \in 1 .. n : S = a .. b
  BY <1>1 DEF Stretches
<1>3. \A k \in S : L[k] # << >>
  BY DEF Stretches
<1>4. b + 1 \in 1 .. (n + 1) /\ (b + 1) - 1 = b
  BY <1>1
<1> HIDE DEF n
<1>5. S \subseteq Own(L, b + 1)
  <2>1. \A k \in S : k \in 1 .. b /\ \A j \in k .. b : j \in S
    BY <1>1, <1>2
  <2>2. QED BY <1>3, <1>4, <2>1 DEF Own
<1> DEFINE A == NoComments(L, S)
           B == NoComments(L, Own(L, b + 1))
<1>6. A \subseteq B /\ B \subseteq 1 .. n
  <2>1. Own(L, b + 1) \subseteq 1 .. b
    BY <1>4 DEF Own
  <2>2. 1 .. b \subseteq 1 .. n
    BY <1>1
  <2>3. QED BY <1>5, <2>1, <2>2 DEF NoComments
<1> HIDE DEF A, B
<1>7. Within(L, L)
  <2>1. \A i \in 1 .. Len(L) : L[i] \in Line /\ Len(L[i]) \in Nat
    <3>1. \A i \in 1 .. Len(L) : L[i] \in Line
      <4> HIDE DEF Line
      <4>1. QED OBVIOUS
    <3>2. QED BY <3>1 DEF Line
  <2>2. QED BY <1>1, <2>1 DEF Within, n
<1>8. Size(L, A) <= Size(L, B) /\ Size(L, A) \in Nat /\ Size(L, B) \in Nat
  <2>1. B \in SUBSET (1 .. Len(L)) /\ A \in SUBSET B
    BY <1>6 DEF n
  <2> HIDE DEF Line
  <2>2. QED BY <1>7, <2>1, SizeGrows
<1>9. ~TooLarge(Size(L, B))
  BY <1>4 DEF Small, Count, B, n
<1>10. QED BY <1>8, <1>9, BodyAssumption DEF TooLarge, A

\* The lines of an event are next to each other.
LEMMA OwnTogether ==
  ASSUME NEW L, NEW b \in Nat \ {0}
  PROVE  \E a \in 1 .. b : Own(L, b) = a .. (b - 1)
<1> DEFINE O == Own(L, b)
<1>1. CASE O = {}
  <2>1. b .. (b - 1) = {} /\ b \in 1 .. b
    OBVIOUS
  <2>2. QED BY <1>1, <2>1
<1>2. CASE O # {}
  <2>1. O \in SUBSET Nat /\ O \subseteq 1 .. (b - 1)
    BY DEF Own
  <2>2. PICK a \in O : \A m \in O : a <= m
    <3> HIDE DEF O
    <3>1. QED BY <1>2, <2>1, LeastNat
  <2>3. a \in 1 .. (b - 1) /\ \A j \in a .. (b - 1) : L[j] # << >>
    BY DEF Own
  <2>4. \A k \in a .. (b - 1) : k \in O
    <3>1. \A k \in a .. (b - 1) : k \in 1 .. (b - 1) /\ \A j \in k .. (b - 1) : j \in a .. (b - 1)
      BY <2>3
    <3>2. QED BY <2>3, <3>1 DEF Own
  <2>5. \A k \in O : k \in a .. (b - 1)
    BY <2>1, <2>2
  <2>6. O = a .. (b - 1) /\ a \in 1 .. b
    <3>1. a \in 1 .. b
      BY <2>3
    <3> HIDE DEF O
    <3>2. \A k : k \in O <=> k \in a .. (b - 1)
      BY <2>4, <2>5
    <3>3. QED BY <3>1, <3>2
  <2>7. QED BY <2>6
<1>3. QED BY <1>1, <1>2

\* A line that brings the count over the limit ends a stretch that is over it.
LEMMA OverStep ==
  ASSUME NEW L \in Seq(Line), NEW x \in Line, x # << >>, TooLarge(Count(L, Len(L) + 1) + Len(x))
  PROVE  Over(Append(L, x))
<1> DEFINE n == Len(L)
           M == Append(L, x)
           O == Own(L, n + 1)
           S == O \cup {n + 1}
<1>1. /\ n \in Nat /\ M \in Seq(Line) /\ Len(M) = n + 1 /\ DOMAIN M = 1 .. (n + 1)
      /\ M[n + 1] = x /\ \A i \in 1 .. n : M[i] = L[i]
  <2> HIDE DEF Line
  <2>1. QED BY AppendOf, LenProperties
<1>2. PICK a \in 1 .. (n + 1) : O = a .. n
  <2>1. n + 1 \in Nat \ {0} /\ (n + 1) - 1 = n
    BY <1>1
  <2> HIDE DEF n
  <2>2. QED BY <2>1, OwnTogether
<1>3. S = a .. (n + 1)
  BY <1>1, <1>2
<1>4. \A k \in S : M[k] # << >>
  <2>1. \A k \in O : k \in 1 .. n /\ L[k] # << >>
    <3>1. \A k \in O : k \in 1 .. n /\ k \in k .. ((n + 1) - 1)
      BY <1>1, <1>2
    <3>2. QED BY <3>1 DEF Own
  <2> HIDE DEF M, n, O
  <2>2. QED BY <1>1, <2>1
<1>5. S \in Stretches(M)
  <2>1. a \in DOMAIN M /\ n + 1 \in DOMAIN M
    BY <1>1
  <2> HIDE DEF M, n, S
  <2>2. QED BY <1>3, <1>4, <2>1 DEF Stretches
<1> DEFINE K == NoComments(L, O)
<1>6. K \in SUBSET O /\ O \in SUBSET (1 .. n)
  BY <1>1, <1>2 DEF NoComments
<1> HIDE DEF M, n, O, S, K
<1>7. Size(M, S) = Size(M, O) + Len(x) /\ Len(x) \in Nat
  <2>1. n + 1 \in 1 .. Len(M) /\ O \in SUBSET (1 .. ((n + 1) - 1))
    BY <1>1, <1>6
  <2> HIDE DEF Line
  <2>2. Size(M, O \cup {n + 1}) = Size(M, O) + Len(M[n + 1]) /\ Len(M[n + 1]) \in Nat
    BY <1>1, <2>1, SizeNext
  <2>3. QED BY <1>1, <2>2 DEF S
<1>8. Size(L, K) <= Size(M, O) /\ Size(L, K) \in Nat /\ Size(M, O) \in Nat
  <2>1. Within(L, M)
    <3>1. \A i \in 1 .. n : Len(L[i]) \in Nat
      <4>1. \A i \in 1 .. n : L[i] \in Line
        <5> HIDE DEF Line
        <5>1. QED BY DEF n
      <4>2. QED BY <4>1 DEF Line
    <3>2. QED BY <1>1, <3>1 DEF Within, n
  <2>2. O \in SUBSET (1 .. Len(L))
    BY <1>6 DEF n
  <2> HIDE DEF Line
  <2>3. QED BY <1>1, <1>6, <2>1, <2>2, SizeGrows
<1>9. TooLarge(Size(L, K) + Len(x))
  BY DEF Count, K, O, n
<1>10. TooLarge(Size(M, S))
  BY <1>7, <1>8, <1>9, BodyAssumption DEF TooLarge
<1>11. QED BY <1>5, <1>10 DEF Over, M

\* Lines that are over the limit stay over it when more comes.
LEMMA OverGrows ==
  ASSUME NEW L \in Seq(Line), NEW M \in Seq(Line), Within(L, M), Over(L)
  PROVE  Over(M)
<1>1. /\ DOMAIN L = 1 .. Len(L) /\ DOMAIN M = 1 .. Len(M) /\ Len(L) \in Nat /\ Len(M) \in Nat
      /\ \A i \in 1 .. Len(L) : L[i] \in Line
      /\ \A i \in 1 .. Len(M) : M[i] \in Line
  <2> HIDE DEF Line
  <2>1. QED BY LenProperties
<1>2. PICK S \in Stretches(L) : TooLarge(Size(L, S))
  BY DEF Over
<1>3. PICK a \in DOMAIN L, b \in DOMAIN L : S = a .. b
  BY DEF Stretches
<1>4. S \in SUBSET (1 .. Len(L)) /\ \A k \in S : L[k] # << >>
  BY <1>1, <1>3 DEF Stretches
<1>5. \A k \in S : M[k] # << >>
  <2>1. SUFFICES ASSUME NEW k \in S, M[k] = << >> PROVE FALSE
    OBVIOUS
  <2>2. Len(L[k]) <= Len(M[k]) /\ L[k] \in Line /\ L[k] # << >>
    BY <1>1, <1>4 DEF Within
  <2>3. Len(L[k]) \in Nat /\ Len(L[k]) # 0
    BY <2>2, EmptySeq DEF Line
  <2>4. Len(M[k]) = 0
    BY <2>1, EmptyList
  <2>5. QED BY <2>2, <2>3, <2>4
<1>6. a \in DOMAIN M /\ b \in DOMAIN M
  BY <1>1, <1>3 DEF Within
<1>7. S \in Stretches(M)
  BY <1>3, <1>5, <1>6 DEF Stretches
<1>8. Size(L, S) <= Size(M, S) /\ Size(L, S) \in Nat /\ Size(M, S) \in Nat
  <2>1. S \in SUBSET S
    OBVIOUS
  <2> HIDE DEF Line
  <2>2. QED BY <1>4, <2>1, SizeGrows
<1>9. TooLarge(Size(M, S))
  BY <1>2, <1>8, BodyAssumption DEF TooLarge
<1>10. QED BY <1>7, <1>9 DEF Over

\* Lists of lines put together.
LEMMA LinesAssociative == \A a, b, c \in Seq(Line) : (a \o b) \o c = a \o (b \o c)
<1> HIDE DEF Line
<1>1. QED BY ConcatAssociative

\* Lines have lengths.
LEMMA LineList ==
  ASSUME NEW L \in Seq(Line)
  PROVE  Len(L) \in Nat /\ \A i \in 1 .. Len(L) : L[i] \in Line /\ Len(L[i]) \in Nat
<1>1. Len(L) \in Nat /\ \A i \in 1 .. Len(L) : L[i] \in Line
  <2> HIDE DEF Line
  <2>1. QED OBVIOUS
<1>2. QED BY <1>1 DEF Line

\* Lines that follow leave those before them as they are.
LEMMA WithinConcat ==
  ASSUME NEW L \in Seq(Line), NEW R \in Seq(Line)
  PROVE  L \o R \in Seq(Line) /\ Within(L, L \o R)
<1>1. /\ L \o R \in Seq(Line) /\ Len(L) <= Len(L \o R) /\ \A i \in 1 .. Len(L) : (L \o R)[i] = L[i]
  <2> HIDE DEF Line
  <2>1. QED BY ConcatProperties
<1>2. QED BY <1>1, LineList DEF Within

\* Lines that begin lines that begin others begin the others.
LEMMA WithinTrans ==
  ASSUME NEW L \in Seq(Line), NEW M \in Seq(Line), NEW N \in Seq(Line), Within(L, M), Within(M, N)
  PROVE  Within(L, N)
<1>1. /\ Len(L) \in Nat /\ Len(M) \in Nat /\ Len(N) \in Nat
      /\ \A i \in 1 .. Len(L) : Len(L[i]) \in Nat
      /\ \A i \in 1 .. Len(M) : Len(M[i]) \in Nat
      /\ \A i \in 1 .. Len(N) : Len(N[i]) \in Nat
  BY LineList
<1>2. \A i \in 1 .. Len(L) : i \in 1 .. Len(M) /\ i \in 1 .. Len(N)
  BY <1>1 DEF Within
<1>3. QED BY <1>1, <1>2 DEF Within

\* A list with another last line, and one more behind it perhaps.
LEMMA WithinLast ==
  ASSUME NEW L \in Seq(Line), NEW x \in Line, NEW y \in Line, Len(x) <= Len(y)
  PROVE  Within(Append(L, x), Append(L, y)) /\ Within(L, Append(L, x))
<1>1. /\ Append(L, x) \in Seq(Line) /\ Len(Append(L, x)) = Len(L) + 1 /\ Append(L, x)[Len(L) + 1] = x
      /\ \A i \in 1 .. Len(L) : Append(L, x)[i] = L[i]
      /\ Append(L, y) \in Seq(Line) /\ Len(Append(L, y)) = Len(L) + 1 /\ Append(L, y)[Len(L) + 1] = y
      /\ \A i \in 1 .. Len(L) : Append(L, y)[i] = L[i]
  <2> HIDE DEF Line
  <2>1. QED BY AppendOf
<1>2. Len(L) \in Nat /\ \A i \in 1 .. Len(L) : Len(L[i]) \in Nat
  BY LineList
<1>3. \A i \in 1 .. (Len(L) + 1) : i \in 1 .. Len(L) \/ i = Len(L) + 1
  BY <1>2
<1> DEFINE a == Append(L, x)
           b == Append(L, y)
<1> HIDE DEF a, b
<1>4. QED BY <1>1, <1>2, <1>3 DEF Within

\* All lines of a plain text, the one that is not ended too.
LEMMA SplitPlain ==
  ASSUME NEW t \in Shown
  PROVE  Split(t) \in Seq(Line)
<1>1. Ended(t) \in Seq(Line) /\ Rest(t) \in Line
  BY LinesPlain
<1> HIDE DEF Line
<1>2. QED BY <1>1, AppendOf DEF Split

\* One more character only makes lines longer or more.
LEMMA SplitStep ==
  ASSUME NEW t \in Shown, NEW c \in {"cr", "lf", ":", "i", "d"}
  PROVE  Append(t, c) \in Shown /\ Within(Split(t), Split(Append(t, c)))
<1> DEFINE u == Append(t, c)
           L == Ended(t)
           x == Rest(t)
<1>1. u \in Shown /\ c \in Chars
  BY AppendOf DEF Shown, Chars
<1>2. L \in Seq(Line) /\ x \in Line /\ Rest(u) \in Line /\ t \in Text /\ Len(x) \in Nat
  <2> HIDE DEF u
  <2>1. L \in Seq(Line) /\ x \in Line /\ Rest(u) \in Line /\ t \in Text
    BY <1>1, LinesPlain
  <2>2. QED BY <2>1 DEF Line
<1>3. /\ Ended(u) = (IF Continues(t, c) THEN L ELSE Append(L, x))
      /\ Rest(u) = (IF c \in Newlines THEN << >> ELSE Append(x, c))
      /\ EndsInCr(t) /\ c = "lf" => x = << >>
  BY <1>1, <1>2, LinesStep
<1> HIDE DEF u, L, x
<1>4. CASE c \notin Newlines
  <2>1. Ended(u) = L /\ Rest(u) = Append(x, c)
    BY <1>3, <1>4 DEF Continues
  <2>2. Len(x) <= Len(Rest(u))
    <3>1. c \in {":", "i", "d"}
      BY <1>4 DEF Newlines
    <3>2. Len(Append(x, c)) = Len(x) + 1
      BY <1>2, <3>1, AppendOf DEF Line
    <3>3. QED BY <1>2, <2>1, <3>2
  <2>3. QED BY <1>1, <1>2, <2>1, <2>2, WithinLast DEF Split, u, L, x
<1>5. CASE c \in Newlines /\ Continues(t, c)
  <2>1. Ended(u) = L /\ Rest(u) = x
    BY <1>3, <1>5 DEF Continues
  <2>2. Len(x) <= Len(x)
    BY <1>2
  <2>3. QED BY <1>1, <1>2, <2>1, <2>2, WithinLast DEF Split, u, L, x
<1>6. CASE ~Continues(t, c)
  <2>1. Split(u) = Append(Append(L, x), Rest(u))
    BY <1>3, <1>6 DEF Split
  <2>2. Append(L, x) \in Seq(Line)
    <3> HIDE DEF Line
    <3>1. QED BY <1>2, AppendOf
  <2> DEFINE M == Append(L, x)
  <2>3. Len(Rest(u)) <= Len(Rest(u))
    BY <1>2 DEF Line
  <2> HIDE DEF M
  <2>4. Within(M, Append(M, Rest(u)))
    BY <1>2, <2>2, <2>3, WithinLast DEF M
  <2>5. QED BY <1>1, <2>1, <2>4 DEF Split, u, L, x, M
<1>7. QED BY <1>4, <1>5, <1>6

\* What comes behind a text makes its lines longer or more.
LEMMA SplitGrows ==
  ASSUME NEW t \in Shown, NEW s \in Shown
  PROVE  t \o s \in Shown /\ Within(Split(t), Split(t \o s))
<1> DEFINE C == {"cr", "lf", ":", "i", "d"}
           Fails(x) == x \in Shown /\ ~(t \o x \in Shown /\ Within(Split(t), Split(t \o x)))
           Bad == {n \in Nat : \E x : Len(x) = n /\ Fails(x)}
<1>1. SUFFICES ASSUME Bad # {} PROVE FALSE
  <2>1. Len(s) \in Nat
    BY DEF Shown
  <2>2. Fails(s) => Len(s) \in Bad
    BY <2>1
  <2>3. QED BY <2>2
<1>2. PICK n \in Bad : \A m \in Bad : n <= m
  BY <1>1, LeastNat
<1>3. PICK x : Len(x) = n /\ Fails(x)
  OBVIOUS
<1>4. CASE x = << >>
  <2>1. t \o << >> = t
    BY ConcatEmptySeq DEF Shown
  <2>2. Split(t) \in Seq(Line)
    BY SplitPlain
  <2>3. Within(Split(t), Split(t))
    <3> DEFINE L == Split(t)
    <3>1. Len(L) \in Nat /\ \A i \in 1 .. Len(L) : Len(L[i]) \in Nat
      BY <2>2, LineList
    <3> HIDE DEF L
    <3>2. Within(L, L)
      BY <3>1 DEF Within
    <3>3. QED BY <3>2 DEF L
  <2>4. QED BY <1>3, <1>4, <2>1, <2>3
<1>5. CASE x # << >>
  <2>1. PICK y \in Seq(C), e \in C : x = Append(y, e)
    <3>1. x \in Seq(C)
      BY <1>3 DEF Shown
    <3> HIDE DEF C
    <3>2. QED BY <1>5, <3>1, SequenceEmptyOrAppend
  <2>2. ~Fails(y) /\ y \in Shown
    <3>1. Len(y) \in Nat /\ Len(y) + 1 = n
      BY <1>3, <2>1, AppendProperties
    <3>2. Len(y) \notin Bad
      BY <1>2, <3>1
    <3>3. QED BY <2>1, <3>1, <3>2 DEF Shown
  <2> DEFINE z == t \o y
  <2>3. z \in Shown /\ Within(Split(t), Split(z)) /\ t \o x = Append(z, e)
    <3>1. t \o Append(y, e) = Append(t \o y, e)
      <4>1. t \in Seq(C) /\ y \in Seq(C)
        BY <2>1 DEF Shown
      <4> HIDE DEF C
      <4>2. QED BY <2>1, <4>1, ConcatAppend
    <3>2. QED BY <2>1, <2>2, <3>1
  <2> HIDE DEF z
  <2>4. Append(z, e) \in Shown /\ Within(Split(z), Split(Append(z, e)))
    BY <2>1, <2>3, SplitStep
  <2>5. Within(Split(t), Split(Append(z, e)))
    <3>1. Split(t) \in Seq(Line) /\ Split(z) \in Seq(Line) /\ Split(Append(z, e)) \in Seq(Line)
      BY <2>3, <2>4, SplitPlain
    <3>2. QED BY <2>3, <2>4, <3>1, WithinTrans
  <2>6. QED BY <1>3, <2>3, <2>4, <2>5
<1>6. QED BY <1>4, <1>5

-----------------------------------------------------------------------------
(***************************************************************************)
(* The decoder of events.                                                  *)
(***************************************************************************)
Event == [data : Seq(Line), id : Line]
DecE == [buffer : Text, cr : BOOLEAN, data : Seq(Line), id : Line, pending : BOOLEAN, size : Nat]
Outcome == [dec : DecE, items : Seq(Event), error : BOOLEAN]

\* What is empty is a line, a list of lines, of events, and a text.
LEMMA NoLine == << >> \in Line /\ << >> \in Seq(Line) /\ << >> \in Seq(Event) /\ << >> \in Text
  BY EmptyList DEF Line, Text

\* A field without its first character is plain.
LEMMA LineTail ==
  ASSUME NEW x \in Line, x # << >>
  PROVE  Tail(x) \in Line /\ Len(x) \in Nat
  BY DEF Line

\* Fields and events are lines.
LEMMA EventsTyped ==
  ASSUME NEW L \in Seq(Line)
  PROVE  /\ DataAt(L, Len(L) + 1) \in Seq(Line) /\ IdAt(L, Len(L) + 1) \in Line
         /\ EventsIn(L) \in Seq(Event)
<1> DEFINE Good(M) == /\ DataAt(M, Len(M) + 1) \in Seq(Line) /\ IdAt(M, Len(M) + 1) \in Line
                      /\ EventsIn(M) \in Seq(Event)
           Fails(M) == M \in Seq(Line) /\ ~Good(M)
           Bad == {n \in Nat : \E M : Len(M) = n /\ Fails(M)}
<1>1. SUFFICES ASSUME Bad # {} PROVE FALSE
  <2>1. Len(L) \in Nat
    BY LineList
  <2>2. Fails(L) => Len(L) \in Bad
    BY <2>1
  <2>3. QED BY <2>2
<1>2. PICK n \in Bad : \A m \in Bad : n <= m
  BY <1>1, LeastNat
<1>3. PICK M : Len(M) = n /\ Fails(M)
  OBVIOUS
<1>4. CASE M = << >>
  <2>1. Len(<< >>) + 1 = 1
    BY EmptyList
  <2> HIDE DEF Line
  <2>2. Good(<< >>)
    BY <2>1, NoEvents, NoLine
  <2>3. QED BY <1>3, <1>4, <2>2
<1>5. CASE M # << >>
  <2>1. PICK N \in Seq(Line), x \in Line : M = Append(N, x)
    <3> HIDE DEF Line
    <3>1. QED BY <1>3, <1>5, SequenceEmptyOrAppend
  <2>2. ~Fails(N) /\ Len(M) = Len(N) + 1 /\ Len(N) \in Nat
    <3>1. Len(N) \in Nat /\ Len(N) + 1 = n
      <4> HIDE DEF Line
      <4>1. QED BY <1>3, <2>1, AppendProperties
    <3>2. Len(N) \notin Bad
      BY <1>2, <3>1
    <3>3. QED BY <1>3, <3>1, <3>2
  <2> DEFINE k == Len(N)
             d == DataAt(N, k + 1)
             i == IdAt(N, k + 1)
             v == EventsIn(N)
  <2>3. d \in Seq(Line) /\ i \in Line /\ v \in Seq(Event)
    BY <2>1, <2>2
  <2>4. /\ DataAt(M, k + 2) = IF x = << >> THEN << >> ELSE IF IsData(x) THEN Append(d, Tail(x)) ELSE d
        /\ IdAt(M, k + 2) = IF IsId(x) THEN Tail(x) ELSE i
    BY <2>1, FieldsNext
  <2>5. EventsIn(M) = IF x = << >> /\ HasFields(N, k + 1) THEN Append(v, [data |-> d, id |-> i]) ELSE v
    BY <2>1, EventsStep
  <2>6. Len(M) + 1 = k + 2
    BY <2>2
  <2>7. IsData(x) \/ IsId(x) => Tail(x) \in Line
    BY LineTail DEF IsData, IsId, IsField
  <2> HIDE DEF k, d, i, v, Line
  <2>8. [data |-> d, id |-> i] \in Event
    BY <2>3 DEF Event
  <2> HIDE DEF Event
  <2> DEFINE event == [data |-> d, id |-> i]
             w == Append(v, event)
             e == Append(d, Tail(x))
  <2> HIDE DEF event
  <2>9. w \in Seq(Event)
    BY <2>3, <2>8, AppendOf DEF event
  <2>10. IsData(x) => e \in Seq(Line)
    BY <2>3, <2>7, AppendOf
  <2>11. EventsIn(M) \in Seq(Event)
    <3> HIDE DEF w
    <3>1. EventsIn(M) = w \/ EventsIn(M) = v
      BY <2>5 DEF w, event
    <3>2. QED BY <2>3, <2>9, <3>1
  <2>12. DataAt(M, Len(M) + 1) \in Seq(Line)
    <3> HIDE DEF e
    <3>1. DataAt(M, Len(M) + 1) = << >> \/ (IsData(x) /\ DataAt(M, Len(M) + 1) = e) \/ DataAt(M, Len(M) + 1) = d
      BY <2>4, <2>6 DEF e
    <3>2. QED BY <2>3, <2>10, <3>1, NoLine
  <2>13. IdAt(M, Len(M) + 1) \in Line
    BY <2>3, <2>4, <2>6, <2>7
  <2>14. Good(M)
    BY <2>11, <2>12, <2>13
  <2>15. QED BY <1>3, <2>14
<1>6. QED BY <1>4, <1>5

\* The decoder knows of the lines L what the next one needs.
Reflects(d, L) ==
  /\ d.data = DataAt(L, Len(L) + 1) /\ d.id = IdAt(L, Len(L) + 1)
  /\ d.pending = HasFields(L, Len(L) + 1) /\ d.size = Count(L, Len(L) + 1)

\* r is what becomes of the lines L, the events E of which were given before.
Tracks(E, L, r) ==
  IF r.error THEN Over(L) /\ \E y \in Seq(Event) : (E \o r.items) \o y = EventsIn(L)
  ELSE Reflects(r.dec, L) /\ Small(L) /\ E \o r.items = EventsIn(L)

\* A line leaves the decoder in one of its states, and its buffer alone.
LEMMA DecodeTyped ==
  ASSUME NEW r \in Outcome, NEW x \in Line
  PROVE  /\ DecodeLine(r, x) \in Outcome
         /\ DecodeLine(r, x).dec.buffer = r.dec.buffer /\ DecodeLine(r, x).dec.cr = r.dec.cr
<1>1. r.dec \in DecE /\ r.items \in Seq(Event) /\ r.error \in BOOLEAN
  BY DEF Outcome
<1>2. /\ r.dec.data \in Seq(Line) /\ r.dec.id \in Line /\ r.dec.size \in Nat
  BY <1>1 DEF DecE
<1> HIDE DEF Line, Text
<1>3. CASE r.error
  BY <1>3 DEF DecodeLine
<1>4. CASE ~r.error /\ x = << >>
  <2> DEFINE ev == [data |-> r.dec.data, id |-> r.dec.id]
             q == IF r.dec.pending THEN Append(r.items, ev) ELSE r.items
             d == [r.dec EXCEPT !.size = 0, !.data = << >>, !.pending = FALSE]
  <2>1. DecodeLine(r, x) = [dec |-> d, items |-> q, error |-> FALSE]
    BY <1>4 DEF DecodeLine, Dispatch, Result
  <2>2. ev \in Event
    BY <1>2 DEF Event
  <2>3. q \in Seq(Event)
    <3> HIDE DEF ev, Event
    <3>1. QED BY <1>1, <2>2, AppendOf
  <2>4. d \in DecE /\ d.buffer = r.dec.buffer /\ d.cr = r.dec.cr
    BY <1>1, NoLine DEF DecE
  <2> HIDE DEF q, d
  <2>5. QED BY <2>1, <2>3, <2>4 DEF Outcome
<1>5. CASE ~r.error /\ x # << >> /\ Head(x) = ":"
  BY <1>5 DEF DecodeLine
<1>6. CASE ~r.error /\ x # << >> /\ Head(x) # ":" /\ TooLarge(r.dec.size + Len(x))
  <2>1. DecodeLine(r, x) = [r EXCEPT !.error = TRUE]
    BY <1>6 DEF DecodeLine
  <2>2. QED BY <1>1, <2>1 DEF Outcome
<1>7. CASE ~r.error /\ x # << >> /\ Head(x) # ":" /\ ~TooLarge(r.dec.size + Len(x))
  <2> DEFINE d == Field(r.dec, x)
  <2>1. DecodeLine(r, x) = [r EXCEPT !.dec = d]
    BY <1>7 DEF DecodeLine
  <2>2. Tail(x) \in Line /\ Len(x) \in Nat
    BY <1>7, LineTail
  <2>3. Append(r.dec.data, Tail(x)) \in Seq(Line)
    BY <1>2, <2>2, AppendOf
  <2>4. r.dec.size + Len(x) \in Nat
    BY <1>2, <2>2
  <2> DEFINE p == Append(r.dec.data, Tail(x))
             z == r.dec.size + Len(x)
             c == [r.dec EXCEPT !.size = z, !.pending = TRUE]
  <2>5. d = IF Head(x) = "i" THEN [c EXCEPT !.id = Tail(x)] ELSE [c EXCEPT !.data = Append(@, Tail(x))]
    BY DEF Field
  <2>6. c.data = r.dec.data
    BY <1>1 DEF DecE
  <2>7. d = IF Head(x) = "i" THEN [c EXCEPT !.id = Tail(x)] ELSE [c EXCEPT !.data = p]
    BY <2>5, <2>6
  <2>8. z \in Nat /\ p \in Seq(Line)
    BY <2>3, <2>4
  <2> HIDE DEF d, p, z
  <2>9. d \in DecE /\ d.buffer = r.dec.buffer /\ d.cr = r.dec.cr
    BY <1>1, <2>2, <2>7, <2>8 DEF DecE
  <2>10. QED BY <1>1, <2>1, <2>9 DEF Outcome
<1>8. QED BY <1>1, <1>3, <1>4, <1>5, <1>6, <1>7

\* A line that is decoded.
LEMMA DecodeStep ==
  ASSUME NEW L \in Seq(Line), NEW x \in Line, NEW r \in Outcome, NEW E \in Seq(Event), Tracks(E, L, r)
  PROVE  Tracks(E, Append(L, x), DecodeLine(r, x))
<1> DEFINE n == Len(L)
           M == Append(L, x)
           v == EventsIn(L)
           event == [data |-> DataAt(L, n + 1), id |-> IdAt(L, n + 1)]
           q == DecodeLine(r, x)
<1>1. M \in Seq(Line) /\ Len(M) + 1 = n + 2 /\ n \in Nat
  <2> HIDE DEF Line
  <2>1. QED BY AppendOf
<1>2. r.dec \in DecE /\ r.items \in Seq(Event) /\ r.error \in BOOLEAN /\ r.dec.size \in Nat
  BY DEF Outcome, DecE
<1>3. v \in Seq(Event) /\ event \in Event
  BY EventsTyped DEF Event
<1>4. EventsIn(M) = IF x = << >> /\ HasFields(L, n + 1) THEN Append(v, event) ELSE v
  BY EventsStep
<1>5. /\ HasFields(M, n + 2) = (IF x = << >> THEN FALSE ELSE HasFields(L, n + 1) \/ IsData(x) \/ IsId(x))
      /\ DataAt(M, n + 2) = (IF x = << >> THEN << >>
                             ELSE IF IsData(x) THEN Append(DataAt(L, n + 1), Tail(x))
                             ELSE DataAt(L, n + 1))
      /\ IdAt(M, n + 2) = IF IsId(x) THEN Tail(x) ELSE IdAt(L, n + 1)
  BY FieldsNext
<1>6. Count(M, n + 2) = IF x = << >> THEN 0
                        ELSE IF Head(x) = ":" THEN Count(L, n + 1) ELSE Count(L, n + 1) + Len(x)
  BY CountStep
<1>7. Small(L) /\ ~TooLarge(Count(M, n + 2)) => Small(M)
  BY SmallStep
<1>8. \A a, b \in Seq(Event) : a \o Append(b, event) = Append(a \o b, event) /\ a \o b \in Seq(Event)
                               /\ Append(b, event) \in Seq(Event)
  <2> HIDE DEF event, Event
  <2>1. QED BY <1>3, ConcatAppend, ConcatProperties, AppendOf
<1>9. CASE r.error
  <2>1. q = r
    BY <1>9 DEF DecodeLine
  <2>2. Over(M)
    <3>1. Over(L) /\ Within(L, M)
      <4>1. Len(x) <= Len(x)
        BY DEF Line
      <4>2. Within(L, M)
        BY <4>1, WithinLast
      <4>3. QED BY <1>9, <4>2 DEF Tracks
    <3>2. QED BY <1>1, <3>1, OverGrows
  <2>3. PICK y \in Seq(Event) : (E \o r.items) \o y = v
    BY <1>9 DEF Tracks
  <2> DEFINE p == E \o r.items
  <2>4. p \in Seq(Event)
    BY <1>2, <1>8
  <2> HIDE DEF p, v, event, Event
  <2>5. p \o y = v
    BY <2>3 DEF p
  <2>6. p \o Append(y, event) = Append(v, event) /\ Append(y, event) \in Seq(Event)
    BY <1>8, <2>4, <2>5
  <2>7. \E z \in Seq(Event) : p \o z = EventsIn(M)
    BY <1>4, <2>5, <2>6
  <2> HIDE DEF M, q
  <2>8. Tracks(E, M, q)
    BY <1>9, <2>1, <2>2, <2>7 DEF Tracks, p
  <2>9. QED BY <2>8 DEF M, q
<1> DEFINE d == r.dec
<1>10. ASSUME ~r.error
       PROVE  /\ d.data = DataAt(L, n + 1) /\ d.id = IdAt(L, n + 1) /\ d.pending = HasFields(L, n + 1)
              /\ d.size = Count(L, n + 1) /\ Small(L) /\ E \o r.items = v
  BY <1>10 DEF Tracks, Reflects
<1> HIDE DEF M, n, v, Line, Event
<1>11. CASE ~r.error /\ x = << >>
  <2> DEFINE c == [d EXCEPT !.size = 0, !.data = << >>, !.pending = FALSE]
             w == IF d.pending THEN Append(r.items, [data |-> d.data, id |-> d.id]) ELSE r.items
  <2>1. q = [dec |-> c, items |-> w, error |-> FALSE]
    BY <1>11 DEF DecodeLine, Dispatch, Result
  <2>2. event = [data |-> d.data, id |-> d.id]
    BY <1>10, <1>11
  <2>3. w = IF HasFields(L, n + 1) THEN Append(r.items, event) ELSE r.items
    BY <1>10, <1>11, <2>2
  <2>4. c.size = 0 /\ c.data = << >> /\ c.pending = FALSE /\ c.id = d.id
    <3>1. d \in DecE
      BY <1>2
    <3> HIDE DEF d
    <3>2. QED BY <3>1 DEF DecE
  <2> HIDE DEF event, q, c, w, d
  <2>5. q.error = FALSE /\ q.items = IF HasFields(L, n + 1) THEN Append(r.items, event) ELSE r.items
    BY <2>1, <2>3
  <2>6. q.dec.size = 0 /\ q.dec.data = << >> /\ q.dec.pending = FALSE /\ q.dec.id = d.id
    BY <2>1, <2>4
  <2>7. E \o q.items = EventsIn(M)
    <3>1. E \o Append(r.items, event) = Append(E \o r.items, event)
      BY <1>2, <1>8
    <3>2. QED BY <1>4, <1>10, <1>11, <2>5, <3>1
  <2>8. ~IsId(x)
    BY <1>11 DEF IsId, IsField
  <2>9. Reflects(q.dec, M)
    BY <1>1, <1>5, <1>6, <1>10, <1>11, <2>6, <2>8 DEF Reflects
  <2>10. Small(M)
    <3>1. ~TooLarge(0)
      BY BodyAssumption DEF TooLarge
    <3>2. QED BY <1>6, <1>7, <1>10, <1>11, <3>1
  <2>11. QED BY <2>5, <2>7, <2>9, <2>10 DEF Tracks, M, q
<1>12. CASE ~r.error /\ x # << >> /\ Head(x) = ":"
  <2>1. q = r
    BY <1>12 DEF DecodeLine
  <2>2. ~IsId(x) /\ ~IsData(x)
    BY <1>12 DEF IsId, IsData, IsField
  <2> HIDE DEF q
  <2>3. Reflects(r.dec, M)
    <3>1. HasFields(L, n + 1) \in BOOLEAN
      BY DEF HasFields
    <3>2. QED BY <1>1, <1>5, <1>6, <1>10, <1>12, <2>2, <3>1 DEF Reflects
  <2>4. Small(M)
    <3>1. ~TooLarge(Count(L, n + 1))
      <4>1. n + 1 \in 1 .. (n + 1)
        BY <1>1
      <4>2. QED BY <1>10, <1>12, <4>1 DEF Small, n
    <3>2. QED BY <1>6, <1>7, <1>10, <1>12, <3>1
  <2>5. E \o r.items = EventsIn(M)
    BY <1>4, <1>10, <1>12
  <2>6. QED BY <1>12, <2>1, <2>3, <2>4, <2>5 DEF Tracks, M, q
<1>13. CASE ~r.error /\ x # << >> /\ Head(x) # ":" /\ TooLarge(r.dec.size + Len(x))
  <2>1. q = [r EXCEPT !.error = TRUE]
    BY <1>13 DEF DecodeLine
  <2>2. q.error = TRUE /\ q.items = r.items
    BY <2>1 DEF Outcome
  <2> HIDE DEF q
  <2>3. Over(M)
    <3>1. TooLarge(Count(L, Len(L) + 1) + Len(x))
      BY <1>10, <1>13 DEF n
    <3>2. QED BY <1>13, <3>1, OverStep DEF M
  <2>4. (E \o r.items) \o << >> = EventsIn(M)
    <3>1. v \o << >> = v
      BY <1>3, ConcatEmptySeq
    <3>2. QED BY <1>4, <1>10, <1>13, <3>1
  <2>5. QED BY <2>2, <2>3, <2>4, NoLine DEF Tracks, M, q
<1>14. CASE ~r.error /\ x # << >> /\ Head(x) # ":" /\ ~TooLarge(r.dec.size + Len(x))
  <2>1. q = [r EXCEPT !.dec = Field(@, x)]
    BY <1>14 DEF DecodeLine
  <2>2. q.error = FALSE /\ q.items = r.items /\ q.dec = Field(d, x)
    BY <1>2, <1>14, <2>1 DEF Outcome
  <2>3. Head(x) \in {":", "i", "d"}
    BY <1>14 DEF Line
  <2>4. (IsId(x) <=> Head(x) = "i") /\ (IsData(x) <=> Head(x) # "i")
    BY <1>14, <2>3 DEF IsId, IsData, IsField
  <2>5. /\ q.dec.size = d.size + Len(x) /\ q.dec.pending = TRUE
        /\ q.dec.id = (IF Head(x) = "i" THEN Tail(x) ELSE d.id)
        /\ q.dec.data = IF Head(x) = "i" THEN d.data ELSE Append(d.data, Tail(x))
    <3>1. d \in DecE
      BY <1>2
    <3>2. Field(d, x) = IF Head(x) = "i" THEN [[d EXCEPT !.size = @ + Len(x), !.pending = TRUE] EXCEPT !.id = Tail(x)]
                        ELSE [[d EXCEPT !.size = @ + Len(x), !.pending = TRUE] EXCEPT !.data = Append(@, Tail(x))]
      BY DEF Field
    <3> HIDE DEF q, d
    <3>3. QED BY <2>2, <3>1, <3>2 DEF DecE
  <2> HIDE DEF q, d
  <2>6. Reflects(q.dec, M)
    BY <1>1, <1>5, <1>6, <1>10, <1>14, <2>4, <2>5 DEF Reflects
  <2>7. Small(M)
    BY <1>6, <1>7, <1>10, <1>14 DEF d
  <2>8. E \o q.items = EventsIn(M)
    BY <1>4, <1>10, <1>14, <2>2
  <2>9. QED BY <2>2, <2>6, <2>7, <2>8 DEF Tracks, M, q
<1>15. QED BY <1>2, <1>9, <1>11, <1>12, <1>13, <1>14 DEF M, q

\* What the decoder has after each line.
DecodesBy(d, lines, g) ==
  /\ g[0] = Result(d, << >>, FALSE)
  /\ \A m \in 1 .. Len(lines) : g[m] = DecodeLine(g[m - 1], lines[m])
  /\ DecodeLines(d, lines) = g[Len(lines)]

\* The fold is the loop over the lines.
LEMMA DecodeRuns ==
  ASSUME NEW d \in DecE, NEW lines \in Seq(Line)
  PROVE  \E g : DecodesBy(d, lines, g) /\ \A m \in 0 .. Len(lines) : g[m] \in Outcome
<1> DEFINE n == Len(lines)
           base == Result(d, << >>, FALSE)
           F == [p \in Outcome \X Line |-> DecodeLine(p[1], p[2])]
           Runs(c) == c = [T \in SUBSET (1 .. n) |->
                             IF T = {} THEN base ELSE DecodeLine(c[T \ {Max(T)}], lines[Max(T)])]
           it == CHOOSE c : Runs(c)
<1>1. n \in Nat /\ DOMAIN lines = 1 .. n /\ \A i \in 1 .. n : lines[i] \in Line
  <2> HIDE DEF Line
  <2>1. QED OBVIOUS
<1>2. base \in Outcome
  BY NoLine DEF Result, Outcome
<1>3. F \in [Outcome \X Line -> Outcome]
  <2>1. \A x \in Outcome, y \in Line : DecodeLine(x, y) \in Outcome
    BY DecodeTyped
  <2> HIDE DEF Outcome, Line
  <2>2. QED BY <2>1
<1>4. \A x \in Outcome, y \in Line : F[<<x, y>>] = DecodeLine(x, y)
  <2> HIDE DEF Outcome, Line
  <2>1. QED OBVIOUS
<1> HIDE DEF Outcome, Line, F, n, base
<1>5. PICK f : TypedFolded(Outcome, F, base, lines, n, f)
  <2>1. \E f : TypedFolded(Outcome, F, base, lines, n, f)
    BY <1>1, <1>2, <1>3, TypedFold
  <2>2. QED BY <2>1
<1> USE DEF TypedFolded
<1>6. Runs(f)
  <2>1. \A T \in SUBSET (1 .. n) : T # {} => f[T] = DecodeLine(f[T \ {Max(T)}], lines[Max(T)])
    BY <1>1, <1>4, <1>5
  <2>2. QED BY <1>5, <2>1
<1>7. Runs(it)
  BY <1>6, Zenon
<1>8. DecodeLines(d, lines) = it[1 .. n]
  BY <1>1 DEF DecodeLines, base, FoldLeft, MapThenFoldSet
<1> HIDE DEF it
<1>9. it[{}] = base /\ \A T \in SUBSET (1 .. n) : T # {} => it[T] = DecodeLine(it[T \ {Max(T)}], lines[Max(T)])
  <2>1. {} \in SUBSET (1 .. n)
    OBVIOUS
  <2>2. \A T \in SUBSET (1 .. n) : it[T] = IF T = {} THEN base ELSE DecodeLine(it[T \ {Max(T)}], lines[Max(T)])
    <3>1. ASSUME NEW T \in SUBSET (1 .. n)
          PROVE  it[T] = [W \in SUBSET (1 .. n) |->
                            IF W = {} THEN base ELSE DecodeLine(it[W \ {Max(W)}], lines[Max(W)])][T]
      BY <1>7, Zenon
    <3>2. QED BY <3>1
  <2>3. QED BY <2>1, <2>2
<1>10. \A T \in SUBSET (1 .. n) : T # {} /\ it[T \ {Max(T)}] \in Outcome
                                  => it[T] = F[<<it[T \ {Max(T)}], lines[Max(T)]>>]
  BY <1>1, <1>4, <1>5, <1>9
<1>11. /\ \A m \in 0 .. n : it[1 .. m] \in Outcome
       /\ \A m \in 1 .. n : it[1 .. m] = F[<<it[1 .. (m - 1)], lines[m]>>]
  <2>1. FoldSteps(Outcome, Line, F, base, lines, n, it)
    BY <1>1, <1>2, <1>3, <1>9, <1>10 DEF FoldSteps
  <2>2. QED BY <2>1, FoldAgrees
<1> DEFINE g == [m \in 0 .. n |-> it[1 .. m]]
<1>12. \A m \in 0 .. n : g[m] \in Outcome
  BY <1>11
<1>13. g[0] = base
  <2>1. 1 .. 0 = {} /\ 0 \in 0 .. n
    BY <1>1
  <2>2. QED BY <1>9, <2>1
<1>14. \A m \in 1 .. n : g[m] = DecodeLine(g[m - 1], lines[m])
  <2>1. \A m \in 1 .. n : m \in 0 .. n /\ m - 1 \in 0 .. n
    BY <1>1
  <2>2. QED BY <1>1, <1>4, <1>11, <2>1
<1>15. g[n] = it[1 .. n]
  BY <1>1
<1> HIDE DEF g
<1>16. QED BY <1>8, <1>12, <1>13, <1>14, <1>15 DEF DecodesBy, n, base

\* What the decoder makes of lines that follow those it knows of.
LEMMA DecodeLinesShape ==
  ASSUME NEW d \in DecE, NEW B \in Seq(Line), NEW lines \in Seq(Line), Reflects(d, B), Small(B)
  PROVE  LET r == DecodeLines(d, lines)
         IN  /\ r \in Outcome /\ r.dec.buffer = d.buffer /\ r.dec.cr = d.cr
             /\ Tracks(EventsIn(B), B \o lines, r)
<1> DEFINE n == Len(lines)
           E == EventsIn(B)
           At(m) == B \o SubSeq(lines, 1, m)
<1>1. PICK g : DecodesBy(d, lines, g) /\ \A m \in 0 .. n : g[m] \in Outcome
  BY DecodeRuns
<1>2. n \in Nat /\ E \in Seq(Event)
  BY EventsTyped, LineList
<1>3. /\ At(0) = B /\ At(n) = B \o lines
      /\ \A m \in 0 .. n : At(m) \in Seq(Line)
      /\ \A m \in 0 .. (n - 1) : At(m + 1) = Append(At(m), lines[m + 1]) /\ lines[m + 1] \in Line
  <2> HIDE DEF Line
  <2>1. SubSeq(lines, 1, 0) = << >> /\ SubSeq(lines, 1, n) = lines
    BY SubSeqEmpty, SubSeqFull
  <2>2. ASSUME NEW m \in 0 .. n PROVE SubSeq(lines, 1, m) \in Seq(Line)
    <3>1. \A i \in 1 .. m : lines[i] \in Line
      BY <1>2
    <3>2. QED BY <1>2, <3>1, SubSeqProperties
  <2>3. ASSUME NEW m \in 0 .. (n - 1)
        PROVE  At(m + 1) = Append(At(m), lines[m + 1]) /\ lines[m + 1] \in Line
    <3> DEFINE a == SubSeq(lines, 1, m)
               k == m + 1
    <3>1. k \in 1 .. n /\ m \in 0 .. n /\ k - 1 = m /\ 1 \in 1 .. n /\ k \in Nat
      BY <1>2
    <3>2. lines[k] \in Line /\ a \in Seq(Line)
      BY <2>2, <3>1
    <3> HIDE DEF k
    <3>3. SubSeq(lines, 1, k) = SubSeq(lines, 1, k - 1) \o << lines[k] >>
      <4>1. 1 \in 1 .. Len(lines) /\ k \in 1 .. Len(lines)
        BY <3>1
      <4>2. QED BY <4>1, SubSeqRecursiveSecond
    <3>4. SubSeq(lines, 1, k) = Append(a, lines[k])
      BY <3>1, <3>2, <3>3, AppendIsConcat
    <3> HIDE DEF a
    <3>5. B \o Append(a, lines[k]) = Append(B \o a, lines[k])
      BY <3>2, ConcatAppend
    <3>6. QED BY <3>2, <3>4, <3>5 DEF a, k
  <2>4. B \o << >> = B
    BY ConcatEmptySeq
  <2>5. QED BY <2>1, <2>2, <2>3, <2>4, ConcatProperties
<1> HIDE DEF E, n, At
<1> DEFINE Good == {m \in 0 .. n : /\ g[m].dec.buffer = d.buffer /\ g[m].dec.cr = d.cr
                                   /\ Tracks(E, At(m), g[m])}
<1>4. 0 \in Good
  <2>1. g[0] = Result(d, << >>, FALSE)
    BY <1>1 DEF DecodesBy
  <2>2. g[0].dec = d /\ g[0].items = << >> /\ g[0].error = FALSE
    BY <2>1 DEF Result
  <2>3. E \o << >> = E
    BY <1>2, ConcatEmptySeq
  <2>4. Tracks(E, B, g[0])
    BY <2>2, <2>3 DEF Tracks, E
  <2>5. QED BY <1>2, <1>3, <2>2, <2>4
<1>5. ASSUME NEW m \in 0 .. (n - 1), m \in Good PROVE m + 1 \in Good
  <2>1. m + 1 \in 1 .. n /\ (m + 1) - 1 = m /\ m \in 0 .. n /\ m + 1 \in 0 .. n
    BY <1>2
  <2>2. g[m + 1] = DecodeLine(g[m], lines[m + 1])
    <3>1. \A j \in 1 .. n : g[j] = DecodeLine(g[j - 1], lines[j])
      BY <1>1 DEF DecodesBy, n
    <3>2. QED BY <2>1, <3>1
  <2> DEFINE x == lines[m + 1]
             L == At(m)
             r == g[m]
  <2>3. x \in Line /\ L \in Seq(Line) /\ r \in Outcome /\ Tracks(E, L, r) /\ At(m + 1) = Append(L, x)
    BY <1>1, <1>3, <1>5, <2>1
  <2>4. r.dec.buffer = d.buffer /\ r.dec.cr = d.cr
    BY <1>5
  <2> HIDE DEF x, L, r, Line, Outcome
  <2>5. DecodeLine(r, x).dec.buffer = r.dec.buffer /\ DecodeLine(r, x).dec.cr = r.dec.cr
    BY <2>3, DecodeTyped
  <2>6. Tracks(E, Append(L, x), DecodeLine(r, x))
    BY <1>2, <2>3, DecodeStep
  <2>7. g[m + 1] = DecodeLine(r, x)
    BY <2>2 DEF r, x
  <2>8. QED BY <2>1, <2>3, <2>4, <2>5, <2>6, <2>7
<1>6. n \in Good
  <2> HIDE DEF Good
  <2>1. 0 .. n \subseteq Good
    BY <1>2, <1>4, <1>5, FirstNumbers
  <2>2. QED BY <1>2, <2>1
<1>7. DecodeLines(d, lines) = g[n] /\ g[n] \in Outcome
  BY <1>1, <1>2 DEF DecodesBy, n
<1>8. QED BY <1>3, <1>6, <1>7 DEF E

\* The decoder knows of p all but what comes of a "cr" that ends it.
Knows(p, d) ==
  /\ d \in DecE /\ d.cr = EndsInCr(p) /\ d.buffer = Rest(Known(p))
  /\ Reflects(d, Ended(Known(p))) /\ Small(Ended(Known(p)))

\* Lines that end plain lines are plain.
LEMMA SuffixTyped ==
  ASSUME NEW A \in Seq(Text), NEW B \in Seq(Text), A \o B \in Seq(Line)
  PROVE  B \in Seq(Line)
<1> HIDE DEF Text, Line
<1>1. /\ Len(A) \in Nat /\ Len(B) \in Nat /\ Len(A \o B) = Len(A) + Len(B)
      /\ \A i \in 1 .. Len(B) : (A \o B)[Len(A) + i] = B[i]
  BY ConcatProperties
<1>2. \A i \in 1 .. Len(B) : Len(A) + i \in 1 .. Len(A \o B)
  BY <1>1
<1> DEFINE C == A \o B
<1>3. C \in Seq(Line)
  OBVIOUS
<1> HIDE DEF C
<1>4. \A i \in 1 .. Len(C) : C[i] \in Line
  BY <1>3
<1>5. \A i \in 1 .. Len(B) : B[i] \in Line
  BY <1>1, <1>2, <1>4 DEF C
<1>6. B = [i \in 1 .. Len(B) |-> B[i]]
  OBVIOUS
<1>7. QED BY <1>1, <1>5, <1>6

\* decode(): the events of what was known and of what is due, or an event over the limit.
LEMMA FeedEventsShape ==
  ASSUME NEW p \in Shown, NEW t \in Shown, t # << >>, NEW d, Knows(p, d)
  PROVE  LET r == FeedEvents(d, t)
             q == Known(p \o t)
             E == EventsIn(Ended(Known(p)))
         IN  /\ r \in Outcome
             /\ ~r.error => Knows(p \o t, r.dec) /\ E \o r.items = EventsIn(Ended(q))
             /\ r.error => Over(Split(q)) /\ \E y \in Seq(Event) : (E \o r.items) \o y = EventsIn(Ended(q))
<1> DEFINE u == Due(d, t)
           x == d.buffer
           lines == Split(u)
           joined == <<x \o Head(lines)>> \o Tail(lines)
           o == Known(p)
           q == Known(p \o t)
           B == Ended(o)
           c == [d EXCEPT !.cr = Held(d, t), !.buffer = Last(joined)]
           s == DecodeLines(c, Front(joined))
           r == FeedEvents(d, t)
<1>1. /\ d \in DecE /\ d.cr = EndsInCr(p) /\ x = Rest(o) /\ Reflects(d, B) /\ Small(B)
  BY DEF Knows
<1>2. /\ p \in Text /\ t \in Text /\ p \o t \in Shown /\ q \in Shown /\ o \in Shown
      /\ o \in Text /\ q \in Text
  BY LinesPlain, SplitGrows
<1>3. /\ u \in Text /\ (Held(d, t) <=> EndsInCr(p \o t)) /\ q = o \o u /\ ~Parted(o, u)
  BY <1>1, <1>2, KnownStep
<1>4. B \in Seq(Text) /\ x \in Text /\ Ended(u) \in Seq(Text) /\ Rest(u) \in Text
  BY <1>1, <1>2, <1>3, LinesCut
<1>5. Glued(o, u)
  BY <1>2, <1>3, LinesConcat
<1>6. /\ joined \in Seq(Text) /\ Front(joined) = Glue(x, Ended(u))
      /\ Last(joined) = (IF Ended(u) = << >> THEN x \o Rest(u) ELSE Rest(u))
      /\ Last(joined) \in Text
  <2> DEFINE g == Glue(x, Split(u))
  <2>1. /\ g = <<x \o Head(Split(u))>> \o Tail(Split(u))
        /\ g \in Seq(Text) /\ Front(g) = Glue(x, Ended(u))
        /\ Last(g) = IF Ended(u) = << >> THEN x \o Rest(u) ELSE Rest(u)
        /\ Last(g) \in Text
    BY <1>3, <1>4, JoinSplit
  <2>2. joined = g
    BY <2>1
  <2> HIDE DEF g, joined
  <2>3. QED BY <2>1, <2>2
<1> HIDE DEF joined, u, x, o
<1> DEFINE F == Front(joined)
           L == Ended(q)
           z == Rest(q)
<1>7. L = B \o F /\ Last(joined) = z /\ F \in Seq(Text)
  <2>1. F \in Seq(Text)
    BY <1>4, <1>6, GlueShape
  <2>2. QED BY <1>1, <1>3, <1>5, <1>6, <2>1 DEF Glued
<1>8. B \in Seq(Line) /\ L \in Seq(Line) /\ z \in Line /\ z \in Text
  BY <1>2, <1>6, <1>7, LinesPlain
<1>9. F \in Seq(Line)
  BY <1>4, <1>7, <1>8, SuffixTyped
<1>10. /\ c \in DecE /\ c.cr = EndsInCr(p \o t) /\ c.buffer = z
       /\ Reflects(c, B)
  <2> DEFINE h == Held(d, t)
  <2>1. h \in BOOLEAN /\ h = EndsInCr(p \o t)
    <3>1. h \in BOOLEAN /\ EndsInCr(p \o t) \in BOOLEAN
      BY DEF Held, EndsInCr
    <3>2. QED BY <1>3, <3>1
  <2>2. c = [d EXCEPT !.cr = h, !.buffer = z]
    BY <1>7
  <2> HIDE DEF h, c, z
  <2>3. /\ c \in DecE /\ c.cr = h /\ c.buffer = z /\ c.data = d.data /\ c.id = d.id
        /\ c.pending = d.pending /\ c.size = d.size
    BY <1>1, <1>8, <2>1, <2>2 DEF DecE
  <2>4. QED BY <1>1, <2>1, <2>3 DEF Reflects
<1>11. r = [s EXCEPT !.error = @ \/ TooLarge(s.dec.size + Len(s.dec.buffer))]
  BY DEF FeedEvents, CheckPending, joined, u, x
<1> HIDE DEF F, L, B, c, z, r, q
<1>12. s \in Outcome /\ s.dec.buffer = z /\ s.dec.cr = c.cr /\ Tracks(EventsIn(B), L, s)
  BY <1>1, <1>7, <1>8, <1>9, <1>10, DecodeLinesShape DEF F
<1> HIDE DEF s
<1>13. s.dec \in DecE /\ s.items \in Seq(Event) /\ s.error \in BOOLEAN
  BY <1>12 DEF Outcome
<1>14. /\ r.dec = s.dec /\ r.items = s.items /\ r.error \in BOOLEAN /\ r \in Outcome
       /\ r.error <=> s.error \/ TooLarge(s.dec.size + Len(z))
  <2> DEFINE e == TooLarge(s.dec.size + Len(s.dec.buffer))
             f == s.error \/ e
  <2>1. e \in BOOLEAN /\ f \in BOOLEAN
    BY DEF TooLarge
  <2>2. r = [s EXCEPT !.error = f]
    BY <1>11, <1>12 DEF Outcome
  <2>3. f <=> s.error \/ TooLarge(s.dec.size + Len(z))
    BY <1>12
  <2> HIDE DEF f, e
  <2>4. r.dec = s.dec /\ r.items = s.items /\ r.error = f /\ r \in Outcome
    BY <1>12, <1>13, <2>1, <2>2 DEF Outcome
  <2>5. QED BY <2>1, <2>3, <2>4
<1>15. Split(q) = Append(L, z) /\ Split(q) \in Seq(Line)
  BY <1>2, SplitPlain DEF Split, L, z
<1>16. CASE s.error
  <2>1. Over(L) /\ \E y \in Seq(Event) : (EventsIn(B) \o r.items) \o y = EventsIn(L)
    BY <1>12, <1>14, <1>16 DEF Tracks
  <2>2. Len(z) <= Len(z)
    BY <1>8 DEF Line
  <2>3. Within(L, Append(L, z))
    BY <1>8, <2>2, WithinLast
  <2>4. Over(Split(q))
    BY <1>8, <1>15, <2>1, <2>3, OverGrows
  <2>5. QED BY <1>14, <1>16, <2>1, <2>4 DEF r, q, L, B, o
<1>17. CASE ~s.error
  <2>1. Reflects(s.dec, L) /\ Small(L) /\ EventsIn(B) \o r.items = EventsIn(L)
    BY <1>12, <1>14, <1>17 DEF Tracks
  <2>2. CASE ~r.error
    <3>1. Knows(p \o t, r.dec)
      BY <1>10, <1>12, <1>13, <1>14, <2>1 DEF Knows, L, z, q
    <3>2. QED BY <1>14, <2>1, <2>2, <3>1 DEF r, q, L, B, o
  <2>3. CASE r.error
    <3>1. TooLarge(Count(L, Len(L) + 1) + Len(z))
      BY <1>14, <1>17, <2>1, <2>3 DEF Reflects
    <3>2. z # << >>
      <4>1. SUFFICES ASSUME z = << >> PROVE FALSE
        OBVIOUS
      <4>2. Len(z) = 0
        BY <4>1, EmptyList
      <4>3. Len(L) + 1 \in 1 .. (Len(L) + 1) /\ Count(L, Len(L) + 1) \in Nat
        <5>1. Len(L) + 1 \in 1 .. (Len(L) + 1)
          BY <1>8, LineList
        <5>2. QED BY <1>8, <5>1, CountStep
      <4>4. QED BY <2>1, <3>1, <4>2, <4>3 DEF Small
    <3>3. Over(Split(q))
      BY <1>8, <1>15, <3>1, <3>2, OverStep
    <3>4. EventsIn(L) \in Seq(Event)
      BY <1>8, EventsTyped
    <3>5. (EventsIn(B) \o r.items) \o << >> = EventsIn(L)
      BY <2>1, <3>4, ConcatEmptySeq
    <3>6. QED BY <1>14, <2>3, <3>3, <3>5, NoLine DEF r, q, L, B, o
  <2>4. QED BY <2>2, <2>3
<1>18. QED BY <1>13, <1>16, <1>17

\* A text without line ends is one line.
LEMMA PlainLine ==
  ASSUME NEW x \in Line
  PROVE  /\ Ended(x) = << >> /\ Rest(x) = x /\ Split(x) = <<x>>
         /\ Split(x \o <<"lf">>) = Append(<<x>>, << >>)
<1>1. x \in Shown /\ x \in Text /\ DOMAIN x = 1 .. Len(x) /\ \A i \in 1 .. Len(x) : x[i] \in {":", "i", "d"}
  BY LenProperties DEF Line, Shown, Text, Chars
<1>2. LineEnds(x) = {}
  BY <1>1 DEF LineEnds
<1>3. Ended(x) = Cuts(x, << >>) /\ Rest(x) = SubSeq(x, 1, Len(x))
  BY <1>1, <1>2, LinesCut, AscendingEmpty, EmptyList DEF After
<1>4. Cuts(x, << >>) = << >> /\ SubSeq(x, 1, Len(x)) = x
  BY SubSeqFull DEF Cuts, Line
<1>5. Ended(x) = << >> /\ Rest(x) = x
  BY <1>3, <1>4
<1>6. ~EndsInCr(x)
  <2>1. SUFFICES ASSUME x # << >> PROVE Last(x) # "cr"
    BY DEF EndsInCr
  <2>2. Len(x) \in 1 .. Len(x)
    BY <2>1, EmptySeq DEF Line
  <2>3. QED BY <1>1, <2>2 DEF Last
<1>7. /\ x \o <<"lf">> = Append(x, "lf") /\ "lf" \in Chars
  BY <1>1, TextAppend DEF Chars
<1>8. Ended(Append(x, "lf")) = Append(<< >>, x) /\ Rest(Append(x, "lf")) = << >>
  BY <1>1, <1>5, <1>6, <1>7, LinesStep DEF Continues, Newlines
<1> HIDE DEF Line
<1>9. Append(<< >>, x) = <<x>>
  OBVIOUS
<1>10. QED BY <1>5, <1>7, <1>8, <1>9 DEF Split

\* Lines before others: their events come first.
LEMMA EventsGrow ==
  ASSUME NEW L \in Seq(Line), NEW R \in Seq(Line)
  PROVE  \E y \in Seq(Event) : EventsIn(L) \o y = EventsIn(L \o R)
<1> DEFINE Good(M) == \E y \in Seq(Event) : EventsIn(L) \o y = EventsIn(L \o M)
           Fails(M) == M \in Seq(Line) /\ ~Good(M)
           Bad == {n \in Nat : \E M : Len(M) = n /\ Fails(M)}
<1>1. SUFFICES ASSUME Bad # {} PROVE FALSE
  <2>1. Len(R) \in Nat
    BY LineList
  <2>2. Fails(R) => Len(R) \in Bad
    BY <2>1
  <2>3. QED BY <2>2
<1>2. PICK n \in Bad : \A m \in Bad : n <= m
  BY <1>1, LeastNat
<1>3. PICK M : Len(M) = n /\ Fails(M)
  OBVIOUS
<1>4. EventsIn(L) \in Seq(Event)
  BY EventsTyped
<1>5. CASE M = << >>
  <2> HIDE DEF Line, Event
  <2>1. L \o << >> = L /\ EventsIn(L) \o << >> = EventsIn(L)
    BY <1>4, ConcatEmptySeq
  <2>2. QED BY <1>3, <1>5, <2>1, NoLine
<1>6. CASE M # << >>
  <2> HIDE DEF Line, Event
  <2>1. PICK N \in Seq(Line), x \in Line : M = Append(N, x)
    BY <1>3, <1>6, SequenceEmptyOrAppend
  <2>2. ~Fails(N)
    <3>1. Len(N) \in Nat /\ Len(N) + 1 = n
      BY <1>3, <2>1, AppendProperties
    <3>2. Len(N) \notin Bad
      <4> HIDE DEF Bad
      <4>1. ASSUME Len(N) \in Bad PROVE n <= Len(N)
        BY <1>2, <4>1
      <4>2. ~(n <= Len(N))
        BY <3>1
      <4>3. QED BY <4>1, <4>2
    <3>3. QED BY <3>1, <3>2
  <2>3. PICK y \in Seq(Event) : EventsIn(L) \o y = EventsIn(L \o N)
    BY <2>1, <2>2
  <2> DEFINE K == L \o N
             v == [data |-> DataAt(K, Len(K) + 1), id |-> IdAt(K, Len(K) + 1)]
             w == EventsIn(L)
  <2>4. K \in Seq(Line) /\ L \o M = Append(K, x)
    BY <2>1, ConcatAppend, ConcatProperties
  <2>5. EventsIn(Append(K, x)) = EventsIn(K) \/ EventsIn(Append(K, x)) = Append(EventsIn(K), v)
    <3> HIDE DEF K
    <3>1. QED BY <2>4, EventsStep
  <2>6. v \in Event
    <3> HIDE DEF K
    <3>1. QED BY <2>4, EventsTyped DEF Event
  <2> HIDE DEF v, K, w
  <2>7. w \in Seq(Event) /\ w \o y = EventsIn(K)
    BY <1>4, <2>3 DEF w, K
  <2>8. Append(y, v) \in Seq(Event) /\ w \o Append(y, v) = Append(w \o y, v)
    <3>1. \A a, b \in Seq(Event) : Append(b, v) \in Seq(Event) /\ a \o Append(b, v) = Append(a \o b, v)
      BY <2>6, ConcatAppend, AppendOf
    <3>2. QED BY <2>3, <2>7, <3>1
  <2>9. Good(M)
    BY <2>3, <2>4, <2>5, <2>7, <2>8 DEF w
  <2>10. QED BY <1>3, <2>9
<1>7. QED BY <1>5, <1>6

\* The lines of a body to its end, as the decoder has them and as they are.
LEMMA LastLines ==
  ASSUME NEW p \in Shown
  PROVE  LET x == Rest(Known(p))
             t == x \o (IF EndsInCr(p) THEN <<"lf">> ELSE << >>)
             R == IF t = << >> THEN << >> ELSE Split(t)
             M == Ended(Known(p)) \o R
         IN  /\ R \in Seq(Line) /\ M \in Seq(Line)
             /\ Within(M, Split(p)) /\ (Small(M) => Small(Split(p)))
             /\ EventsIn(M) = EventsOf(p)
<1> DEFINE q == Known(p)
           B == Ended(q)
           x == Rest(q)
           t == x \o (IF EndsInCr(p) THEN <<"lf">> ELSE << >>)
           R == IF t = << >> THEN << >> ELSE Split(t)
           M == B \o R
<1>1. /\ p \in Text /\ q \in Shown /\ q \in Text /\ B \in Seq(Line) /\ x \in Line
      /\ Ended(p) \in Seq(Line) /\ Rest(p) \in Line /\ Split(p) \in Seq(Line)
      /\ q \o Kept(EndsInCr(p)) = p
  BY LinesPlain, KnownShape, SplitPlain
<1>2. /\ Split(x) = <<x>> /\ Split(x \o <<"lf">>) = Append(<<x>>, << >>) /\ x \o << >> = x
  BY <1>1, PlainLine, ConcatEmptySeq DEF Line
<1> HIDE DEF x
<1>3. CASE EndsInCr(p)
  <2>1. p = Append(q, "cr") /\ "cr" \in Chars
    BY <1>1, <1>3, TextAppend DEF Kept, Chars
  <2>2. Ended(p) = Append(B, x) /\ Rest(p) = << >>
    <3>1. ~Continues(q, "cr") /\ "cr" \in Newlines
      BY DEF Continues, Newlines
    <3> HIDE DEF q
    <3>2. Ended(Append(q, "cr")) = Append(Ended(q), Rest(q)) /\ Rest(Append(q, "cr")) = << >>
      BY <1>1, <2>1, <3>1, LinesStep
    <3>3. QED BY <2>1, <3>2 DEF x, q
  <2>3. R = Append(<<x>>, << >>)
    <3>1. x \o <<"lf">> # << >>
      <4>1. Len(x \o <<"lf">>) = Len(x) + 1 /\ Len(x) \in Nat
        BY <1>1 DEF Line
      <4>2. QED BY <4>1, EmptyList
    <3>2. QED BY <1>2, <1>3, <3>1
  <2>4. p # << >> /\ Last(p) = "cr"
    BY <1>3 DEF EndsInCr
  <2> HIDE DEF Line, R, B
  <2>5. R \in Seq(Line) /\ M = Append(Append(B, x), << >>)
    <3>1. <<x>> \in Seq(Line) /\ Append(B, x) = B \o <<x>>
      BY <1>1, AppendIsConcat
    <3>2. B \o Append(<<x>>, << >>) = Append(B \o <<x>>, << >>) /\ Append(<<x>>, << >>) \in Seq(Line)
      BY <1>1, <3>1, ConcatAppend, AppendOf, NoLine
    <3>3. QED BY <2>3, <3>1, <3>2
  <2>6. EventLines(p) = Append(Append(B, x), << >>)
    <3>1. EventLines(p) = Ended(p) \o << << >> >>
      BY <2>4 DEF EventLines
    <3>2. QED BY <1>1, <2>2, <3>1, AppendIsConcat, NoLine
  <2>7. Split(p) = Append(Append(B, x), << >>)
    BY <2>2 DEF Split
  <2> HIDE DEF M
  <2>8. Within(M, M) /\ M = Split(p) /\ EventsIn(M) = EventsOf(p) /\ M \in Seq(Line)
    <3>1. M = Split(p) /\ M \in Seq(Line) /\ EventsIn(M) = EventsOf(p)
      BY <1>1, <2>5, <2>6, <2>7 DEF EventsOf
    <3>2. Within(M, M)
      <4>1. Len(M) \in Nat /\ \A i \in 1 .. Len(M) : Len(M[i]) \in Nat
        BY <3>1, LineList
      <4>2. QED BY <4>1 DEF Within
    <3>3. QED BY <3>1, <3>2
  <2>9. QED BY <2>5, <2>8 DEF M, R, x, B
<1>4. CASE ~EndsInCr(p)
  <2>1. q = p
    BY <1>4 DEF Known
  <2>2. EventLines(p) = B
    <3>1. ~(p # << >> /\ Last(p) = "cr")
      BY <1>4 DEF EndsInCr
    <3>2. EventLines(p) = B \o << >>
      BY <2>1, <3>1 DEF EventLines
    <3> HIDE DEF Line
    <3>3. QED BY <1>1, <3>2, ConcatEmptySeq
  <2>3. Split(p) = Append(B, x)
    BY <2>1 DEF Split, x
  <2>4. R = IF x = << >> THEN << >> ELSE <<x>>
    BY <1>2, <1>4
  <2> HIDE DEF R, B
  <2>5. R \in Seq(Line) /\ M = IF x = << >> THEN B ELSE Append(B, x)
    <3> HIDE DEF Line
    <3>1. << >> \in Seq(Line) /\ B \o << >> = B /\ <<x>> \in Seq(Line) /\ Append(B, x) = B \o <<x>>
      BY <1>1, AppendIsConcat, ConcatEmptySeq, NoLine
    <3>2. QED BY <2>4, <3>1
  <2> HIDE DEF M
  <2>6. CASE x = << >>
    <3>1. M = B
      BY <2>5, <2>6
    <3>2. Len(x) <= Len(x)
      BY <1>1 DEF Line
    <3>3. Within(B, Append(B, x))
      BY <1>1, <3>2, WithinLast
    <3>4. Small(B) => Small(Append(B, x))
      <4>1. Count(Append(B, x), Len(B) + 2) = 0
        BY <1>1, <2>6, CountStep
      <4>2. ~TooLarge(0)
        BY BodyAssumption DEF TooLarge
      <4>3. QED BY <1>1, <4>1, <4>2, SmallStep
    <3>5. QED BY <1>1, <2>2, <2>3, <2>5, <3>1, <3>3, <3>4 DEF EventsOf, M, R, x, B
  <2>7. CASE x # << >>
    <3>1. M = Append(B, x) /\ M = Split(p) /\ M \in Seq(Line)
      BY <1>1, <2>3, <2>5, <2>7
    <3>2. EventsIn(Append(B, x)) = EventsIn(B)
      BY <1>1, <2>7, EventsStep
    <3>3. Within(M, M)
      <4>1. Len(M) \in Nat /\ \A i \in 1 .. Len(M) : Len(M[i]) \in Nat
        BY <3>1, LineList
      <4>2. QED BY <4>1 DEF Within
    <3>4. QED BY <2>2, <2>5, <3>1, <3>2, <3>3 DEF EventsOf, M, R, x, B
  <2>8. QED BY <2>6, <2>7
<1>5. QED BY <1>3, <1>4

\* flush(): the events of all of a body, or an event over the limit.
LEMMA FlushEventsShape ==
  ASSUME NEW p \in Shown, NEW d, Knows(p, d)
  PROVE  LET r == FlushEvents(d)
             E == EventsIn(Ended(Known(p)))
         IN  /\ r \in Outcome
             /\ ~r.error => Small(Split(p)) /\ E \o r.items = EventsOf(p)
             /\ r.error => Over(Split(p)) /\ \E y \in Seq(Event) : (E \o r.items) \o y = EventsOf(p)
<1> DEFINE x == Rest(Known(p))
           t == x \o (IF EndsInCr(p) THEN <<"lf">> ELSE << >>)
           R == IF t = << >> THEN << >> ELSE Split(t)
           B == Ended(Known(p))
           M == B \o R
           c == [d EXCEPT !.buffer = << >>, !.cr = FALSE]
           r == FlushEvents(d)
           E == EventsIn(B)
<1>1. /\ d \in DecE /\ d.cr = EndsInCr(p) /\ d.buffer = x /\ Reflects(d, B) /\ Small(B)
  BY DEF Knows
<1>2. r = DecodeLines(c, R)
  BY <1>1 DEF FlushEvents
<1>3. /\ R \in Seq(Line) /\ M \in Seq(Line)
      /\ Within(M, Split(p)) /\ (Small(M) => Small(Split(p)))
      /\ EventsIn(M) = EventsOf(p)
  BY LastLines
<1>4. B \in Seq(Line) /\ Split(p) \in Seq(Line)
  BY LinesPlain, SplitPlain
<1> HIDE DEF R, B, r, x, t
<1>5. c \in DecE /\ Reflects(c, B)
  <2>1. /\ c \in DecE /\ c.data = d.data /\ c.id = d.id /\ c.pending = d.pending /\ c.size = d.size
    BY <1>1, NoLine DEF DecE
  <2> HIDE DEF c
  <2>2. QED BY <1>1, <2>1 DEF Reflects
<1> HIDE DEF c
<1>6. r \in Outcome /\ Tracks(E, M, r)
  BY <1>1, <1>2, <1>3, <1>4, <1>5, DecodeLinesShape
<1> HIDE DEF M
<1>7. CASE r.error
  BY <1>3, <1>4, <1>6, <1>7, OverGrows DEF Tracks, r, B
<1>8. CASE ~r.error
  BY <1>3, <1>6, <1>8 DEF Tracks, r, B
<1>9. QED BY <1>7, <1>8

\* The events that are known begin those of the whole body.
LEMMA EventsBegin ==
  ASSUME NEW p \in Shown, NEW s \in Shown
  PROVE  \E y \in Seq(Event) : EventsIn(Ended(Known(p))) \o y = EventsOf(p \o s)
<1> DEFINE q == p \o s
           L == Ended(Known(p))
           M == Ended(Known(q))
<1>1. /\ p \in Text /\ s \in Text /\ q \in Shown /\ L \in Seq(Line) /\ M \in Seq(Line)
  <2>1. p \in Text /\ s \in Text /\ q \in Shown /\ Known(p) \in Shown
    BY LinesPlain, SplitGrows
  <2> HIDE DEF q
  <2>2. Known(q) \in Shown
    BY <2>1, LinesPlain
  <2>3. QED BY <2>1, <2>2, LinesPlain
<1>2. PICK r \in Seq(Text) : L \o r = M
  BY <1>1, LinesBegin
<1>3. L \in Seq(Text)
  BY <1>1, KnownShape, LinesCut
<1> HIDE DEF q, L, M
<1>4. r \in Seq(Line)
  BY <1>1, <1>2, <1>3, SuffixTyped
<1>5. PICK R \in Seq(Line) : M \o R \in Seq(Line) /\ EventsIn(M \o R) = EventsOf(q)
  <2>1. \E R : R \in Seq(Line) /\ M \o R \in Seq(Line) /\ EventsIn(M \o R) = EventsOf(q)
    BY <1>1, LastLines DEF M
  <2>2. QED BY <2>1
<1>6. r \o R \in Seq(Line) /\ L \o (r \o R) = M \o R
  <2> HIDE DEF Line
  <2>1. r \o R \in Seq(Line) /\ L \o (r \o R) = (L \o r) \o R
    <3>1. r \in Seq(Line) /\ R \in Seq(Line) /\ L \in Seq(Line)
      BY <1>1, <1>4, <1>5
    <3>2. r \o R \in Seq(Line)
      BY <3>1, ConcatProperties
    <3>3. (L \o r) \o R = L \o (r \o R)
      BY <3>1, LinesAssociative, Zenon
    <3>4. QED BY <3>2, <3>3
  <2>2. QED BY <1>2, <2>1
<1> DEFINE z == r \o R
<1>7. z \in Seq(Line) /\ L \o z = M \o R
  BY <1>6
<1> HIDE DEF z
<1>8. \E y \in Seq(Event) : EventsIn(L) \o y = EventsIn(L \o z)
  BY <1>1, <1>7, EventsGrow
<1>9. QED BY <1>5, <1>7, <1>8 DEF L, q

\* A limit that is passed stays passed.
LEMMA OverEnds ==
  ASSUME NEW p \in Shown, NEW s \in Shown, Over(Split(Known(p)))
  PROVE  Over(Split(p \o s))
<1> DEFINE k == Kept(EndsInCr(p))
           o == Known(p)
<1>1. p \in Text /\ o \in Shown /\ o \o k = p /\ k \in Shown
  <2>1. p \in Text /\ o \in Shown
    BY LinesPlain
  <2>2. k \in Shown
    <3>1. << >> \in Shown /\ <<"cr">> \in Shown
      BY EmptyList DEF Shown
    <3>2. QED BY <3>1 DEF Kept
  <2>3. QED BY <2>1, <2>2, KnownShape
<1> HIDE DEF o, k
<1>2. Within(Split(o), Split(p)) /\ Within(Split(p), Split(p \o s)) /\ p \o s \in Shown
  BY <1>1, SplitGrows
<1>3. Split(o) \in Seq(Line) /\ Split(p) \in Seq(Line) /\ Split(p \o s) \in Seq(Line)
  BY <1>1, <1>2, SplitPlain
<1>4. Over(Split(p))
  BY <1>2, <1>3, OverGrows DEF o
<1>5. QED BY <1>2, <1>3, <1>4, OverGrows

\* Before anything has come.
LEMMA KnowsNothing ==
  /\ << >> \in Shown /\ << >> \in Text /\ Known(<< >>) = << >> /\ EndsInCr(<< >>) = FALSE
  /\ Ended(Known(<< >>)) = << >> /\ Rest(Known(<< >>)) = << >>
  /\ EventsIn(Ended(Known(<< >>))) = << >> /\ Knows(<< >>, NoDecoding)
<1>1. /\ << >> \in Shown /\ << >> \in Text /\ Known(<< >>) = << >> /\ EndsInCr(<< >>) = FALSE
  BY EmptyList DEF Shown, Text, Known, EndsInCr
<1>2. Ended(<< >>) = << >> /\ Rest(<< >>) = << >> /\ Len(<< >>) + 1 = 1
  BY NoLines, EmptyList
<1>3. NoComments(<< >>, {}) = {}
  BY DEF NoComments
<1>4. Count(<< >>, 1) = 0
  BY <1>3, NoEvents, SizeNone DEF Count
<1>5. Reflects(NoDecoding, << >>)
  BY <1>2, <1>4, NoEvents DEF Reflects, NoDecoding
<1>6. NoDecoding \in DecE
  BY NoLine DEF NoDecoding, DecE
<1>7. NoDecoding.cr = FALSE /\ NoDecoding.buffer = << >>
  BY DEF NoDecoding
<1>8. QED BY <1>1, <1>2, <1>5, <1>6, <1>7, NoEvents, SmallNone DEF Knows

-----------------------------------------------------------------------------
(***************************************************************************)
(* The invariant.                                                          *)
(***************************************************************************)
ByteModes == {"raw", "bytes", "read"}

\* What a reading in bytes is made of, and how much of it has come out.
Source == IF mode = "raw" THEN Wire ELSE body
Reached == IF mode = "raw" THEN arrived ELSE decoded

\* Chunks of the size that was asked for, the last one excepted or not.
Full(o, n) == n # None => \A k \in 1 .. Len(o) : Len(o[k]) = n
Fits(o, n) == n # None => \A k \in 1 .. Len(o) : /\ Len(o[k]) <= n
                                                 /\ k < Len(o) => Len(o[k]) = n

\* The stream is read once, and content exists only once it was.
StreamInv ==
  /\ body \in Bodies /\ format \in Formats
  /\ consumed \in BOOLEAN /\ closed \in BOOLEAN /\ awaits \in BOOLEAN
  /\ mode \in Modes \cup {None}
  /\ phase \in {"fresh", "reading", "tail", "done", "failed", "left"}
  /\ failure \in {None, "decoding", "size", "network"}
  /\ arrived \in 0 .. Len(Wire) /\ decoded \in 0 .. Len(body)
  /\ phase = "fresh" => arrived = 0 /\ decoded = 0 /\ form = "untried" /\ failure = None
                        /\ first = 0 /\ ~consumed /\ mode = None
  /\ phase # "fresh" => consumed /\ mode \in Modes
  /\ content # None => /\ content = body /\ closed
                       /\ phase \in {"done", "failed"} /\ mode # "raw"
  /\ phase = "done" => failure = None

\* Only a single first byte makes a deflate body pass for zlib, and the next read
\* finds out.
FormInv ==
  /\ format = "deflate" /\ form = "zlib" => first = 1
  /\ failure = "decoding" => format = "deflate" /\ first = 1
  /\ phase = "reading" /\ format = "deflate" /\ mode # "raw" =>
       /\ form = "untried" => arrived = 0 /\ first = 0
       /\ form = "zlib" /\ failure = None => arrived = 1

\* All of the body is out once all of the stream is in.
DecodedInv ==
  phase = "reading" /\ mode # "raw" /\ failure = None =>
    /\ format = "plain" => decoded = arrived
    /\ arrived = Len(Wire) => decoded = Len(body)

\* What the user has, what is ready and what the chunker keeps is the source as
\* far as it was read.
PieceInv ==
  mode \in ByteModes /\ phase \in {"reading", "tail"} =>
    /\ out \in Seq(Text) /\ ready \in Seq(Text) /\ dec \in Dec
    /\ chunkSize # None => chunkSize \in Nat \ {0}
    /\ mode = "read" => chunkSize = None
    /\ FlattenSeq(out \o ready) \o dec.buffer = SubSeq(Source, 1, Reached)
    /\ phase = "reading" => /\ Full(out \o ready, chunkSize)
                            /\ chunkSize = None => dec.buffer = << >>
                            /\ chunkSize # None => Len(dec.buffer) < chunkSize
    /\ phase = "tail" => /\ dec.buffer = << >> /\ failure = None
                         /\ Reached = Len(Source) /\ Fits(out \o ready, chunkSize)

\* What the user has at the end.
OutInv ==
  mode \in ByteModes /\ phase \in {"done", "failed", "left"} =>
    /\ out \in Seq(Text) /\ Fits(out, chunkSize)
    /\ \E rest \in Text : FlattenSeq(out) \o rest = Source
    /\ phase = "done" => FlattenSeq(out) = Source

\* The text that is decoded.
Read == SubSeq(body, 1, decoded)

\* o begins the list all of elements of S.
Begins(o, all, S) == \E rest \in Seq(S) : o \o rest = all

\* What the user has and what is ready are the lines of the text that is known.
LineInv ==
  mode = "lines" /\ phase # "fresh" =>
    /\ out \in Seq(Text) /\ chunkSize = None /\ failure # "size"
    /\ phase \in {"reading", "tail"} => ready \in Seq(Text)
    /\ phase = "reading" => /\ dec \in Dec
                            /\ dec.cr = EndsInCr(Read) /\ dec.buffer = Rest(Known(Read))
                            /\ out \o ready = Ended(Known(Read))
    /\ phase = "tail" => failure = None /\ out \o ready = SplitLines(body)
    /\ phase = "done" => out = SplitLines(body)
    /\ phase \in {"failed", "left"} => Begins(out, SplitLines(body), Text)

\* And so are the events, as long as none is over the limit.
EventInv ==
  mode = "events" /\ phase # "fresh" =>
    /\ out \in Seq(Event) /\ chunkSize = None
    /\ phase \in {"reading", "tail"} => ready \in Seq(Event)
    /\ failure = "size" => Over(Split(body))
    /\ phase = "reading" /\ failure # "size" =>
         Knows(Read, dec) /\ out \o ready = EventsIn(Ended(Known(Read)))
    /\ phase = "tail" /\ failure # "size" =>
         failure = None /\ Small(Split(body)) /\ out \o ready = EventsOf(body)
    /\ phase \in {"reading", "tail"} /\ failure = "size" =>
         Begins(out \o ready, EventsOf(body), Event)
    /\ phase = "done" => Small(Split(body)) /\ out = EventsOf(body)
    /\ phase \in {"failed", "left"} => Begins(out, EventsOf(body), Event)

IInv == StreamInv /\ FormInv /\ DecodedInv /\ PieceInv /\ OutInv /\ ReleasedAtEnd
        /\ LineInv /\ EventInv

-----------------------------------------------------------------------------
(***************************************************************************)
(* Chunks and what follows them.                                           *)
(***************************************************************************)
LEMMA Lists ==
  ASSUME NEW o \in Seq(Text), NEW p \in Seq(Text)
  PROVE  /\ FlattenSeq(o) \in Text /\ FlattenSeq(p) \in Text /\ o \o p \in Seq(Text)
         /\ FlattenSeq(o \o p) = FlattenSeq(o) \o FlattenSeq(p)
         /\ Len(o) \in Nat /\ Len(p) \in Nat /\ Len(o \o p) = Len(o) + Len(p)
         /\ \A k \in 1 .. Len(o) : (o \o p)[k] = o[k]
         /\ \A k \in 1 .. Len(p) : (o \o p)[Len(o) + k] = p[k]
         /\ \A k \in 1 .. Len(o \o p) :
              (o \o p)[k] = IF k <= Len(o) THEN o[k] ELSE p[k - Len(o)]
<1>1. FlattenSeq(o) \in Text /\ FlattenSeq(p) \in Text
      /\ FlattenSeq(o \o p) = FlattenSeq(o) \o FlattenSeq(p)
  BY FlattenTyped, FlattenConcat DEF Text
<1> HIDE DEF Text
<1>2. QED BY <1>1, ConcatProperties, LenProperties

\* What is full fits.
LEMMA FullFits ==
  ASSUME NEW o \in Seq(Text), NEW n, n # None => n \in Nat, Full(o, n)
  PROVE  Fits(o, n)
<1> HIDE DEF Text
<1>1. QED BY DEF Full, Fits

\* Full chunks that follow full chunks.
LEMMA FullConcat ==
  ASSUME NEW o \in Seq(Text), NEW p \in Seq(Text), NEW n, Full(o, n), Full(p, n)
  PROVE  Full(o \o p, n)
<1> SUFFICES ASSUME n # None, NEW k \in 1 .. Len(o \o p) PROVE Len((o \o p)[k]) = n
  BY DEF Full
<1> HIDE DEF Text
<1>1. CASE k <= Len(o)
  BY <1>1, Lists DEF Full
<1>2. CASE ~(k <= Len(o))
  <2>1. k - Len(o) \in 1 .. Len(p) /\ (o \o p)[k] = p[k - Len(o)]
    BY <1>2, Lists
  <2>2. QED BY <2>1 DEF Full
<1>3. QED BY <1>1, <1>2

\* The rest may be shorter.
LEMMA FullThenRest ==
  ASSUME NEW o \in Seq(Text), NEW t \in Text, NEW n, Full(o, n), n # None => n \in Nat /\ Len(t) < n
  PROVE  Fits(o \o <<t>>, n)
<1> SUFFICES ASSUME n # None, NEW k \in 1 .. Len(o \o <<t>>)
             PROVE  /\ Len((o \o <<t>>)[k]) <= n
                    /\ k < Len(o \o <<t>>) => Len((o \o <<t>>)[k]) = n
  BY DEF Fits
<1>1. <<t>> \in Seq(Text) /\ Len(<<t>>) = 1 /\ <<t>>[1] = t /\ Len(t) \in Nat
  BY LenProperties DEF Text
<1> HIDE DEF Text
<1>2. Len(o \o <<t>>) = Len(o) + 1 /\ Len(o) \in Nat
  BY <1>1, Lists
<1>3. CASE k <= Len(o)
  <2>1. (o \o <<t>>)[k] = o[k] /\ Len(o[k]) = n
    BY <1>1, <1>2, <1>3, Lists DEF Full
  <2>2. QED BY <2>1
<1>4. CASE k = Len(o) + 1
  <2>1. (o \o <<t>>)[k] = t
    BY <1>1, <1>2, <1>4, Lists
  <2>2. QED BY <1>1, <1>2, <1>4, <2>1
<1>5. QED BY <1>2, <1>3, <1>4

\* Chunks that begin chunks that fit, fit.
LEMMA FitsBefore ==
  ASSUME NEW o \in Seq(Text), NEW p \in Seq(Text), NEW n, Fits(o \o p, n)
  PROVE  Fits(o, n)
<1> SUFFICES ASSUME n # None, NEW k \in 1 .. Len(o)
             PROVE  Len(o[k]) <= n /\ (k < Len(o) => Len(o[k]) = n)
  BY DEF Fits
<1> HIDE DEF Text
<1>1. (o \o p)[k] = o[k] /\ k \in 1 .. Len(o \o p) /\ (k < Len(o) => k < Len(o \o p))
  BY Lists
<1>2. QED BY <1>1 DEF Fits

\* What is taken moves from one list to the other.
LEMMA TakeOne ==
  ASSUME NEW S, NEW o \in Seq(S), NEW p \in Seq(S), p # << >>
  PROVE  /\ Append(o, Head(p)) \in Seq(S) /\ Tail(p) \in Seq(S)
         /\ Append(o, Head(p)) \o Tail(p) = o \o p
<1>1. /\ Head(p) \in S /\ Tail(p) \in Seq(S)
      /\ p = <<Head(p)>> \o Tail(p) /\ <<Head(p)>> \in Seq(S)
  OBVIOUS
<1>2. Append(o, Head(p)) = o \o <<Head(p)>> /\ Append(o, Head(p)) \in Seq(S)
  BY <1>1, AppendIsConcat
<1>3. (o \o <<Head(p)>>) \o Tail(p) = o \o (<<Head(p)>> \o Tail(p))
  BY <1>1, ConcatAssociative
<1>4. QED BY <1>1, <1>2, <1>3

\* The source is a text, of the length that arrives.
LEMMA SourceShape ==
  ASSUME StreamInv
  PROVE  /\ Wire \in Text /\ body \in Text /\ Source \in Text
         /\ Len(Wire) \in Nat /\ Len(body) \in Nat /\ Len(Source) \in Nat
         /\ format = "plain" => Len(Wire) = Len(body)
         /\ format # "plain" => Len(Wire) = CompressedLength /\ CompressedLength \in Nat \ {0, 1}
<1>1. body \in Text
  BY BodyAssumption DEF StreamInv, Text, Chars
<1>2. ASSUME format # "plain" PROVE Wire \in Text /\ Len(Wire) = CompressedLength
  BY <1>2, BodyAssumption DEF Wire, Text, Chars
<1>3. format = "plain" => Wire = body
  BY DEF Wire
<1>4. QED BY <1>1, <1>2, <1>3, BodyAssumption DEF Source, Text

-----------------------------------------------------------------------------
(***************************************************************************)
(* Lines and events of the part of the body that is decoded.               *)
(***************************************************************************)
\* A body and two stretches of it that follow each other.
LEMMA Stretch ==
  ASSUME NEW t \in Shown, NEW a \in Nat, NEW b \in Nat, a <= b, b <= Len(t)
  PROVE  /\ SubSeq(t, 1, a) \in Shown /\ SubSeq(t, a + 1, b) \in Shown
         /\ SubSeq(t, 1, a) \o SubSeq(t, a + 1, b) = SubSeq(t, 1, b)
<1> DEFINE C == {"cr", "lf", ":", "i", "d"}
<1>1. t \in Seq(C) /\ Len(t) \in Nat /\ \A i \in 1 .. Len(t) : t[i] \in C
  BY DEF Shown
<1> HIDE DEF C
<1>2. SubSeq(t, 1, a) \in Seq(C) /\ SubSeq(t, a + 1, b) \in Seq(C)
  <2>1. \A i \in 1 .. a : i \in 1 .. Len(t)
    BY <1>1
  <2>2. \A i \in (a + 1) .. b : i \in 1 .. Len(t)
    BY <1>1
  <2>3. (\A i \in 1 .. a : t[i] \in C) /\ (\A i \in (a + 1) .. b : t[i] \in C)
    BY <1>1, <2>1, <2>2
  <2>4. QED BY <1>1, <2>3, SubSeqProperties
<1>3. /\ 1 \in 1 .. Len(t) + 1 /\ a \in 1 - 1 .. Len(t) /\ b \in a .. Len(t)
  BY <1>1
<1>4. SubSeq(t, 1, a) \o SubSeq(t, a + 1, b) = SubSeq(t, 1, b)
  BY <1>1, <1>3, ConcatAdjacentSubSeq
<1>5. QED BY <1>2, <1>4 DEF Shown, C

\* What is decoded, what is decoded next and what follows.
LEMMA ReadShape ==
  ASSUME StreamInv, NEW e \in decoded .. Len(body)
  PROVE  LET p == SubSeq(body, 1, e)
             t == SubSeq(body, decoded + 1, e)
         IN  /\ body \in Shown /\ Read \in Shown /\ t \in Shown /\ p \in Shown
             /\ Read \o t = p /\ (\E s \in Shown : p \o s = body)
             /\ e = Len(body) => p = body
<1>1. body \in Shown /\ Len(body) \in Nat /\ decoded \in Nat /\ e \in Nat
  BY BodyAssumption DEF StreamInv, Shown
<1>2. decoded <= e /\ e <= Len(body) /\ Len(body) <= Len(body)
  BY <1>1
<1>3. SubSeq(body, 1, Len(body)) = body
  BY <1>1, SubSeqFull DEF Shown
<1>4. /\ SubSeq(body, 1, decoded) \in Shown /\ SubSeq(body, decoded + 1, e) \in Shown
      /\ SubSeq(body, 1, decoded) \o SubSeq(body, decoded + 1, e) = SubSeq(body, 1, e)
  BY <1>1, <1>2, Stretch
<1>5. /\ SubSeq(body, 1, e) \in Shown /\ SubSeq(body, e + 1, Len(body)) \in Shown
      /\ SubSeq(body, 1, e) \o SubSeq(body, e + 1, Len(body)) = body
  BY <1>1, <1>2, <1>3, Stretch
<1>6. QED BY <1>1, <1>3, <1>4, <1>5 DEF Read

\* Less of what begins a list begins it.
LEMMA BeginsShorter ==
  ASSUME NEW S, NEW a \in Seq(S), NEW b \in Seq(S), NEW all, Begins(a \o b, all, S)
  PROVE  Begins(a, all, S)
<1>1. PICK r \in Seq(S) : (a \o b) \o r = all
  BY DEF Begins
<1>2. (a \o b) \o r = a \o (b \o r) /\ b \o r \in Seq(S)
  BY ConcatAssociative, ConcatProperties
<1>3. QED BY <1>1, <1>2 DEF Begins

\* What begins the beginning of a list begins the list.
LEMMA BeginsMore ==
  ASSUME NEW S, NEW a \in Seq(S), NEW m, NEW all, Begins(a, m, S), Begins(m, all, S)
  PROVE  Begins(a, all, S)
<1>1. PICK r \in Seq(S) : a \o r = m
  BY DEF Begins
<1>2. PICK q \in Seq(S) : m \o q = all
  BY DEF Begins
<1>3. (a \o r) \o q = a \o (r \o q) /\ r \o q \in Seq(S)
  BY ConcatAssociative, ConcatProperties
<1>4. QED BY <1>1, <1>2, <1>3 DEF Begins

\* A list begins itself.
LEMMA BeginsSame ==
  ASSUME NEW S, NEW a \in Seq(S)
  PROVE  Begins(a, a, S)
<1>1. a \o << >> = a /\ << >> \in Seq(S)
  BY ConcatEmptySeq, EmptyList
<1>2. QED BY <1>1 DEF Begins

\* What the line decoder does with the next part of the body.
LEMMA LinesFed ==
  ASSUME IInv, mode = "lines", phase = "reading", ready = << >>,
         NEW e \in decoded .. Len(body), NEW r,
         r = IF SubSeq(body, decoded + 1, e) = << >> THEN Result(dec, << >>, FALSE)
             ELSE Feed(mode, dec, SubSeq(body, decoded + 1, e), chunkSize)
  PROVE  LET p == SubSeq(body, 1, e)
         IN  /\ r.items \in Seq(Text) /\ r.dec \in Dec /\ r.error = FALSE
             /\ r.dec.cr = EndsInCr(p) /\ r.dec.buffer = Rest(Known(p))
             /\ out \o r.items = Ended(Known(p))
<1> DEFINE p == SubSeq(body, 1, e)
           t == SubSeq(body, decoded + 1, e)
<1>1. Read \in Shown /\ t \in Shown /\ Read \o t = p
  BY ReadShape DEF IInv
<1>2. /\ out \in Seq(Text) /\ dec \in Dec
      /\ dec.cr = EndsInCr(Read) /\ dec.buffer = Rest(Known(Read))
      /\ out \o << >> = Ended(Known(Read))
  BY DEF IInv, LineInv
<1>3. out \o << >> = out /\ << >> \in Seq(Text)
  <2> HIDE DEF Text
  <2>1. QED BY <1>2, ConcatEmptySeq, EmptyList
<1>4. CASE t = << >>
  <2>1. r.items = << >> /\ r.dec = dec /\ r.error = FALSE
    BY <1>4 DEF Result
  <2>2. p = Read
    BY <1>1, <1>4, ConcatEmptySeq DEF Shown
  <2> HIDE DEF p
  <2>3. QED BY <1>2, <1>3, <2>1, <2>2 DEF p
<1>5. CASE t # << >>
  <2>1. r = FeedLines(dec, t)
    BY <1>5 DEF Feed
  <2>2. Read \in Text /\ t \in Text
    BY <1>1, LinesPlain
  <2> DEFINE q == FeedLines(dec, t)
  <2> HIDE DEF t, p
  <2>3. /\ q.items \in Seq(Text) /\ q.dec \in Dec /\ q.error = FALSE
        /\ Ended(Known(Read)) \o q.items = Ended(Known(Read \o t))
        /\ q.dec.cr = EndsInCr(Read \o t) /\ q.dec.buffer = Rest(Known(Read \o t))
    BY <1>2, <1>5, <2>2, FeedLinesShape
  <2> HIDE DEF q
  <2>4. QED BY <1>1, <1>2, <1>3, <2>1, <2>3 DEF q, p, t
<1>6. QED BY <1>4, <1>5

\* And the decoder of events.
LEMMA EventsFed ==
  ASSUME IInv, mode = "events", phase = "reading", failure = None, ready = << >>,
         NEW e \in decoded .. Len(body), NEW r,
         r = IF SubSeq(body, decoded + 1, e) = << >> THEN Result(dec, << >>, FALSE)
             ELSE Feed(mode, dec, SubSeq(body, decoded + 1, e), chunkSize)
  PROVE  LET p == SubSeq(body, 1, e)
         IN  /\ r.items \in Seq(Event) /\ r.error \in BOOLEAN
             /\ ~r.error => Knows(p, r.dec) /\ out \o r.items = EventsIn(Ended(Known(p)))
             /\ r.error => Over(Split(body)) /\ Begins(out \o r.items, EventsOf(body), Event)
<1> DEFINE p == SubSeq(body, 1, e)
           t == SubSeq(body, decoded + 1, e)
<1>1. /\ Read \in Shown /\ t \in Shown /\ p \in Shown /\ Read \o t = p
      /\ \E s \in Shown : p \o s = body
  BY ReadShape DEF IInv
<1>2. /\ out \in Seq(Event) /\ Knows(Read, dec) /\ out \o << >> = EventsIn(Ended(Known(Read)))
  BY BodyAssumption DEF IInv, EventInv
<1>3. out \o << >> = out /\ << >> \in Seq(Event)
  <2> HIDE DEF Event
  <2>1. QED BY <1>2, ConcatEmptySeq, EmptyList
<1>4. CASE t = << >>
  <2>1. r.items = << >> /\ r.dec = dec /\ r.error = FALSE
    BY <1>4 DEF Result
  <2>2. p = Read
    BY <1>1, <1>4, ConcatEmptySeq DEF Shown
  <2> HIDE DEF p
  <2>3. QED BY <1>2, <1>3, <2>1, <2>2 DEF p
<1>5. CASE t # << >>
  <2> DEFINE q == FeedEvents(dec, t)
  <2>1. r = q
    BY <1>5 DEF Feed
  <2> HIDE DEF t, p
  <2>2. /\ q \in Outcome
        /\ ~q.error => Knows(Read \o t, q.dec) /\ EventsIn(Ended(Known(Read))) \o q.items = EventsIn(Ended(Known(Read \o t)))
        /\ q.error => /\ Over(Split(Known(Read \o t)))
                      /\ \E y \in Seq(Event) : (EventsIn(Ended(Known(Read))) \o q.items) \o y
                                               = EventsIn(Ended(Known(Read \o t)))
    <3>1. Read \in Shown /\ t \in Shown /\ t # << >> /\ Knows(Read, dec)
      BY <1>1, <1>2, <1>5 DEF t
    <3>2. QED BY <3>1, FeedEventsShape, ZenonT(60)
  <2> HIDE DEF q
  <2>3. r.items \in Seq(Event) /\ r.error \in BOOLEAN
    BY <2>1, <2>2 DEF Outcome
  <2>4. CASE ~r.error
    BY <1>1, <1>2, <1>3, <2>1, <2>2, <2>3, <2>4 DEF p
  <2>5. CASE r.error
    <3>1. PICK s \in Shown : p \o s = body
      BY <1>1
    <3>2. Over(Split(Known(p))) /\ Begins(out \o r.items, EventsIn(Ended(Known(p))), Event)
      BY <1>1, <1>2, <1>3, <2>1, <2>2, <2>5 DEF Begins
    <3>3. Over(Split(body))
      BY <1>1, <3>1, <3>2, OverEnds
    <3>4. Begins(EventsIn(Ended(Known(p))), EventsOf(body), Event)
      BY <1>1, <3>1, EventsBegin DEF Begins
    <3>5. out \o r.items \in Seq(Event)
      <4> HIDE DEF Event
      <4>1. QED BY <1>2, <2>3, ConcatProperties
    <3>6. Begins(out \o r.items, EventsOf(body), Event)
      BY <3>2, <3>4, <3>5, BeginsMore
    <3>7. QED BY <2>3, <2>5, <3>3, <3>6
  <2>6. QED BY <2>3, <2>4, <2>5
<1>6. QED BY <1>4, <1>5

\* A reading of lines or events that ends leaves the first of them, or all.
LEMMA ListOut ==
  ASSUME IInv, mode \in {"lines", "events"}, phase \in {"reading", "tail"}
  PROVE  /\ mode = "lines" =>
              /\ Begins(out, SplitLines(body), Text)
              /\ phase = "tail" /\ ready = << >> => out = SplitLines(body)
         /\ mode = "events" =>
              /\ Begins(out, EventsOf(body), Event)
              /\ phase = "tail" /\ ready = << >> /\ failure = None =>
                   Small(Split(body)) /\ out = EventsOf(body)
<1>1. decoded \in decoded .. Len(body)
  BY BodyAssumption DEF IInv, StreamInv
<1>2. PICK s \in Shown : Read \o s = body
  BY <1>1, ReadShape DEF IInv, Read
<1>3. Read \in Shown /\ Read \in Text /\ s \in Text
  BY <1>1, ReadShape, LinesPlain DEF IInv
<1>4. CASE mode = "lines"
  <2>1. /\ out \in Seq(Text) /\ ready \in Seq(Text)
        /\ phase = "reading" => out \o ready = Ended(Known(Read))
        /\ phase = "tail" => out \o ready = SplitLines(body)
    BY <1>4 DEF IInv, LineInv
  <2> HIDE DEF Text
  <2>2. out \o ready \in Seq(Text) /\ out \o << >> = out
    BY <2>1, ConcatProperties, ConcatEmptySeq
  <2>3. Begins(out \o ready, SplitLines(body), Text)
    <3>1. CASE phase = "reading"
      BY <1>2, <1>3, <2>1, <3>1, LinesBegin DEF Begins
    <3>2. CASE phase = "tail"
      BY <2>1, <2>2, <3>2, BeginsSame
    <3>3. QED BY <3>1, <3>2
  <2>4. QED BY <1>4, <2>1, <2>2, <2>3, BeginsShorter
<1>5. CASE mode = "events"
  <2>1. /\ out \in Seq(Event) /\ ready \in Seq(Event)
        /\ phase = "reading" /\ failure # "size" => out \o ready = EventsIn(Ended(Known(Read)))
        /\ phase = "tail" /\ failure # "size" => Small(Split(body)) /\ out \o ready = EventsOf(body)
        /\ failure = "size" => Begins(out \o ready, EventsOf(body), Event)
    BY <1>5 DEF IInv, EventInv
  <2> HIDE DEF Event
  <2>2. out \o ready \in Seq(Event) /\ out \o << >> = out
    BY <2>1, ConcatProperties, ConcatEmptySeq
  <2>3. Begins(out \o ready, EventsOf(body), Event)
    <3>1. CASE phase = "reading" /\ failure # "size"
      BY <1>2, <1>3, <2>1, <3>1, EventsBegin DEF Begins
    <3>2. CASE phase = "tail" /\ failure # "size"
      BY <2>1, <2>2, <3>2, BeginsSame
    <3>3. QED BY <2>1, <3>1, <3>2
  <2>4. Begins(out, EventsOf(body), Event)
    BY <2>1, <2>3, BeginsShorter
  <2>5. QED BY <1>5, <2>1, <2>2, <2>4, BodyAssumption
<1>6. QED BY <1>4, <1>5

-----------------------------------------------------------------------------
(***************************************************************************)
(* The actions.                                                            *)
(***************************************************************************)
\* What the sources and the stages of a reading are made of stays.
Same == UNCHANGED <<body, format, mode, arrived, decoded>>

LEMMA SameSource ==
  ASSUME Same
  PROVE  Wire' = Wire /\ Source' = Source /\ Reached' = Reached
BY DEF Same, Wire, Source, Reached

LEMMA InitIInv == Init => IInv
<1> SUFFICES ASSUME Init PROVE IInv
  OBVIOUS
<1>1. body \in Text /\ (format # "plain" => Wire \in Text) /\ (format = "plain" => Wire = body)
  BY BodyAssumption DEF Init, Wire, Text, Chars
<1>2. Len(Wire) \in Nat /\ Len(body) \in Nat
  BY <1>1 DEF Text
<1>3. StreamInv
  <2>1. arrived \in 0 .. Len(Wire) /\ decoded \in 0 .. Len(body)
    BY <1>2 DEF Init
  <2>2. QED BY <2>1 DEF Init, StreamInv
<1>4. FormInv /\ DecodedInv /\ PieceInv /\ OutInv /\ ReleasedAtEnd /\ LineInv /\ EventInv
  BY BodyAssumption DEF Init, FormInv, DecodedInv, PieceInv, OutInv, ReleasedAtEnd, LineInv, EventInv
<1>5. QED BY <1>3, <1>4 DEF IInv

LEMMA StartKeeps ==
  ASSUME IInv, NEW m \in Modes, NEW n \in Sizes(m), Start(m, n)
  PROVE  IInv'
<1>1. /\ phase = "fresh" /\ phase' = "reading" /\ consumed' = TRUE /\ mode' = m
      /\ chunkSize' = n /\ dec' = NoDecoding /\ ready' = << >> /\ out' = << >>
      /\ content = None /\ arrived = 0 /\ decoded = 0 /\ form = "untried" /\ first = 0
      /\ failure = None
      /\ UNCHANGED <<body, format, awaits, arrived, first, decoded, form, failure, closed, content>>
  BY DEF IInv, StreamInv, Start, Readable, stream
<1>2. Wire' = Wire
  BY <1>1 DEF Wire
<1>3. StreamInv'
  BY <1>1, <1>2 DEF IInv, StreamInv
<1>4. FormInv' /\ OutInv' /\ ReleasedAtEnd'
  BY <1>1, BodyAssumption DEF FormInv, OutInv, ReleasedAtEnd
<1>5. DecodedInv'
  <2>1. format # "plain" => Len(Wire) # 0
    BY SourceShape DEF IInv
  <2>2. format = "plain" => Len(Wire) = Len(body)
    BY SourceShape DEF IInv
  <2>3. QED BY <1>1, <1>2, <2>1, <2>2 DEF DecodedInv
<1>6. PieceInv'
  <2>1. << >> \in Seq(Text) /\ << >> \o << >> = << >> /\ Len(<< >>) = 0
    BY EmptyList
  <2>2. FlattenSeq(<< >>) \o << >> = << >>
    BY <2>1, FlattenEmpty
  <2>3. SubSeq(Source', 1, Reached') = << >>
    BY <1>1, SubSeqEmpty DEF Reached
  <2>4. n # None => n \in Nat \ {0} /\ m # "read"
    BY BodyAssumption DEF Sizes
  <2>5. Full(<< >>, n)
    BY <2>1 DEF Full
  <2>6. dec' \in Dec /\ dec'.buffer = << >>
    BY <1>1, NoDecodingShape
  <2>7. FlattenSeq(out' \o ready') \o dec'.buffer = SubSeq(Source', 1, Reached')
    BY <1>1, <2>1, <2>2, <2>3, <2>6
  <2>8. Full(out' \o ready', chunkSize')
    BY <1>1, <2>1, <2>5
  <2>9. chunkSize' # None => Len(dec'.buffer) < chunkSize'
    BY <1>1, <2>1, <2>4, <2>6
  <2>10. QED BY <1>1, <2>1, <2>4, <2>6, <2>7, <2>8, <2>9 DEF PieceInv
<1>7. Read' = << >> /\ << >> \o << >> = << >> /\ (m \in {"lines", "events"} => n = None)
  BY <1>1, SubSeqEmpty DEF Read, Sizes
<1>8. LineInv'
  <2> SUFFICES ASSUME m = "lines" PROVE LineInv'
    BY <1>1 DEF LineInv
  <2>1. << >> \in Seq(Text)
    BY EmptyList
  <2>2. NoDecoding \in Dec /\ NoDecoding.cr = FALSE /\ NoDecoding.buffer = << >>
    BY NoDecodingShape DEF NoDecoding
  <2>3. failure' # "size"
    BY <1>1, BodyAssumption
  <2> HIDE DEF Text
  <2>4. QED BY <1>1, <1>7, <2>1, <2>2, <2>3, KnowsNothing DEF LineInv
<1>9. EventInv'
  <2> SUFFICES ASSUME m = "events" PROVE EventInv'
    BY <1>1 DEF EventInv
  <2>1. failure' # "size"
    BY <1>1, BodyAssumption
  <2>2. Knows(Read', dec') /\ EventsIn(Ended(Known(Read'))) = << >>
    BY <1>1, <1>7, KnowsNothing
  <2> HIDE DEF Event
  <2>3. QED BY <1>1, <1>7, <2>1, <2>2, NoLine DEF EventInv
<1>10. QED BY <1>3, <1>4, <1>5, <1>6, <1>8, <1>9 DEF IInv

\* What the chunker does with the next part of the source.
LEMMA PieceFed ==
  ASSUME IInv, mode \in ByteModes, phase = "reading", ready = << >>,
         NEW j \in Nat, Reached <= j, j <= Len(Source),
         NEW r,
         r = IF SubSeq(Source, Reached + 1, j) = << >> THEN Result(dec, << >>, FALSE)
             ELSE Feed(mode, dec, SubSeq(Source, Reached + 1, j), chunkSize)
  PROVE  /\ r.items \in Seq(Text) /\ r.dec \in Dec /\ r.error = FALSE
         /\ FlattenSeq(out \o r.items) \o r.dec.buffer = SubSeq(Source, 1, j)
         /\ Full(out \o r.items, chunkSize)
         /\ chunkSize = None => r.dec.buffer = << >>
         /\ chunkSize # None => Len(r.dec.buffer) < chunkSize
<1> DEFINE t == SubSeq(Source, Reached + 1, j)
<1>1. /\ out \in Seq(Text) /\ dec \in Dec
      /\ FlattenSeq(out \o ready) \o dec.buffer = SubSeq(Source, 1, Reached)
      /\ chunkSize # None => chunkSize \in Nat \ {0}
      /\ Full(out \o ready, chunkSize)
      /\ chunkSize = None => dec.buffer = << >>
      /\ chunkSize # None => Len(dec.buffer) < chunkSize
  BY DEF IInv, PieceInv
<1>2. out \o << >> = out /\ dec.buffer \in Text /\ << >> \in Seq(Text)
  BY <1>1, ConcatEmptySeq, EmptyList DEF Dec
<1>3. /\ Source \in Text /\ Len(Source) \in Nat /\ Reached \in Nat
  BY SourceShape DEF IInv, StreamInv, Reached
<1>4. t \in Text /\ SubSeq(Source, 1, Reached) \o t = SubSeq(Source, 1, j)
  <2>1. Source \in Seq(Chars)
    BY <1>3 DEF Text
  <2>2. /\ 1 \in 1 .. Len(Source) + 1 /\ Reached \in 1 - 1 .. Len(Source)
        /\ j \in Reached .. Len(Source)
    BY <1>3
  <2>3. SubSeq(Source, 1, Reached) \o SubSeq(Source, Reached + 1, j) = SubSeq(Source, 1, j)
    BY <2>1, <2>2, ConcatAdjacentSubSeq
  <2>4. \A i \in (Reached + 1) .. j : Source[i] \in Chars
    BY <1>3, <2>1
  <2>5. t \in Seq(Chars)
    BY <1>3, <2>4, SubSeqProperties
  <2>6. QED BY <2>3, <2>5 DEF Text
<1> HIDE DEF t
<1>5. CASE t = << >>
  <2>1. r.items = << >> /\ r.dec = dec /\ r.error = FALSE
    BY <1>5 DEF t, Result
  <2>2. SubSeq(Source, 1, Reached) = SubSeq(Source, 1, j)
    <3>1. SubSeq(Source, 1, Reached) \in Text
      <4>1. FlattenSeq(out) \in Text
        BY <1>1, <1>2, Lists
      <4>2. FlattenSeq(out) \o dec.buffer \in Text
        BY <1>2, <4>1, ConcatProperties DEF Text
      <4>3. QED BY <1>1, <1>2, <4>2
    <3>2. SubSeq(Source, 1, Reached) \o << >> = SubSeq(Source, 1, Reached)
      BY <3>1, ConcatEmptySeq DEF Text
    <3>3. QED BY <1>4, <1>5, <3>2
  <2>3. QED BY <1>1, <1>2, <2>1, <2>2
<1>6. CASE t # << >>
  <2>1. r = FeedChunks(dec, t, chunkSize)
    BY <1>6 DEF t, Feed, ByteModes
  <2>2. /\ r.items \in Seq(Text) /\ r.dec.buffer \in Text /\ r.dec \in Dec
        /\ FlattenSeq(r.items) \o r.dec.buffer = dec.buffer \o t
        /\ r.error = FALSE
        /\ chunkSize = None => r.dec.buffer = << >>
        /\ chunkSize # None => /\ Len(r.dec.buffer) < chunkSize
                               /\ \A k \in 1 .. Len(r.items) : Len(r.items[k]) = chunkSize
    <3>1. /\ dec \in Dec /\ t \in Text /\ t # << >>
          /\ chunkSize = None => dec.buffer = << >>
          /\ chunkSize # None => chunkSize \in Nat \ {0}
      BY <1>1, <1>4, <1>6
    <3> DEFINE q == FeedChunks(dec, t, chunkSize)
    <3>2. /\ q.items \in Seq(Text) /\ q.dec.buffer \in Text /\ q.dec \in Dec
          /\ FlattenSeq(q.items) \o q.dec.buffer = dec.buffer \o t
          /\ q.error = FALSE
          /\ chunkSize = None => q.dec.buffer = << >>
          /\ chunkSize # None => /\ Len(q.dec.buffer) < chunkSize
                                 /\ \A k \in 1 .. Len(q.items) : Len(q.items[k]) = chunkSize
      BY <3>1, FeedShape, ZenonT(60)
    <3> HIDE DEF q
    <3>3. r = q
      BY <2>1 DEF q
    <3>4. QED BY <3>2, <3>3
  <2>3. FlattenSeq(out \o r.items) \o r.dec.buffer = SubSeq(Source, 1, j)
    <3> DEFINE a == FlattenSeq(out)
               b == FlattenSeq(r.items)
               c == r.dec.buffer
               d == dec.buffer
    <3>1. a \in Text /\ b \in Text /\ c \in Text /\ d \in Text /\ FlattenSeq(out \o r.items) = a \o b
      BY <1>1, <1>2, <2>2, Lists
    <3>2. a \o d = SubSeq(Source, 1, Reached) /\ b \o c = d \o t
      BY <1>1, <1>2, <2>2
    <3> HIDE DEF a, b, c, d
    <3>3. (a \o b) \o c = a \o (b \o c)
      BY <3>1, TextAssociative, Zenon
    <3>4. a \o (d \o t) = (a \o d) \o t
      <4>1. t \in Text /\ a \in Text /\ d \in Text
        BY <1>4, <3>1
      <4>2. QED BY <4>1, TextAssociative, Zenon
    <3>5. (a \o b) \o c = SubSeq(Source, 1, j)
      BY <1>4, <3>2, <3>3, <3>4
    <3>6. QED BY <3>1, <3>5 DEF c
  <2>4. Full(out \o r.items, chunkSize)
    <3>1. Full(r.items, chunkSize)
      BY <2>2 DEF Full
    <3>2. QED BY <1>1, <1>2, <2>2, <3>1, FullConcat
  <2>5. QED BY <2>2, <2>3, <2>4
<1>7. QED BY <1>5, <1>6

LEMMA PullKeeps ==
  ASSUME IInv, NEW k \in 1 .. (Len(Wire) - arrived), NEW e \in decoded .. Len(body), Pull(k, e)
  PROVE  IInv'
<1>1. /\ phase = "reading" /\ ready = << >> /\ failure = None /\ ~closed
      /\ arrived + k <= Len(Wire) /\ MayDecode(k, e)
      /\ arrived' = arrived + k
      /\ first' = IF first = 0 THEN k ELSE first
      /\ UNCHANGED <<body, format, awaits, mode, chunkSize, phase, out, consumed, closed, content>>
  BY DEF Pull, stream
<1>2. /\ arrived \in Nat /\ decoded \in Nat /\ Len(Wire) \in Nat /\ Len(body) \in Nat /\ k \in Nat
      /\ k >= 1 /\ e \in Nat
      /\ format = "plain" => Len(Wire) = Len(body)
      /\ format # "plain" => Len(Wire) = CompressedLength /\ CompressedLength \in Nat \ {0, 1}
  BY SourceShape DEF IInv, StreamInv
<1>3. Wire' = Wire /\ Source' = Source
  BY <1>1 DEF Wire, Source
<1>4. content = None
  BY <1>1 DEF IInv, StreamInv
<1>5. OutInv' /\ ReleasedAtEnd'
  BY <1>1 DEF OutInv, ReleasedAtEnd
<1>6. CASE DecodingFails
  <2>1. failure' = "decoding" /\ UNCHANGED <<decoded, form, dec, ready>>
    BY <1>6 DEF Pull
  <2>2. mode # "raw" /\ form = "zlib" /\ format = "deflate" /\ first = 1
    BY <1>6 DEF DecodingFails, WrongForm, IInv, FormInv
  <2>3. StreamInv'
    BY <1>1, <1>2, <1>3, <1>4, <2>1 DEF IInv, StreamInv
  <2>4. FormInv' /\ DecodedInv'
    BY <1>1, <2>1, <2>2, BodyAssumption DEF FormInv, DecodedInv
  <2>5. Reached' = Reached
    BY <1>1, <2>1, <2>2 DEF Reached
  <2>6. PieceInv'
    BY <1>1, <1>3, <2>1, <2>5 DEF IInv, PieceInv
  <2>7. Read' = Read /\ failure # "size"
    BY <1>1, <2>1, BodyAssumption DEF Read
  <2>8. LineInv' /\ EventInv'
    BY <1>1, <2>1, <2>7 DEF IInv, LineInv, EventInv
  <2>9. QED BY <1>5, <2>3, <2>4, <2>6, <2>8 DEF IInv
<1>7. CASE ~DecodingFails
  <2> DEFINE t == IF mode = "raw" THEN SubSeq(Wire, arrived + 1, arrived + k)
                  ELSE SubSeq(body, decoded + 1, e)
             r == IF t = << >> THEN Result(dec, << >>, FALSE) ELSE Feed(mode, dec, t, chunkSize)
  <2>1. /\ decoded' = e
        /\ form' = IF mode = "raw" \/ format = "plain" THEN form ELSE FirstAttempt(k)
        /\ dec' = r.dec /\ ready' = r.items
        /\ failure' = IF r.error THEN "size" ELSE None
    BY <1>7 DEF Pull
  <2> HIDE DEF r
  <2>2. StreamInv'
    BY <1>1, <1>2, <1>3, <1>4, <2>1 DEF IInv, StreamInv
  <2>3. FormInv'
    <3>1. failure' # "decoding"
      BY <2>1, BodyAssumption
    <3>2. CASE mode = "raw" \/ format = "plain"
      BY <1>1, <2>1, <3>1, <3>2 DEF IInv, FormInv
    <3>3. CASE mode # "raw" /\ format # "plain"
      <4>1. form' = FirstAttempt(k) /\ form' # "untried"
        BY <2>1, <3>3 DEF FirstAttempt
      <4>2. CASE format = "deflate" /\ form' = "zlib"
        <5>1. form # "zlib"
          BY <1>7, <3>3, <4>2 DEF DecodingFails, WrongForm
        <5>2. form = "untried" /\ k = 1
          BY <1>2, <4>1, <4>2, <5>1 DEF FirstAttempt
        <5>3. arrived = 0 /\ first = 0
          BY <1>1, <3>3, <4>2, <5>2 DEF IInv, FormInv
        <5>4. QED BY <1>1, <3>1, <4>1, <5>2, <5>3 DEF FormInv
      <4>3. CASE ~(format = "deflate" /\ form' = "zlib")
        BY <1>1, <3>1, <4>1, <4>3 DEF FormInv
      <4>4. QED BY <4>2, <4>3
    <3>4. QED BY <3>2, <3>3
  <2>4. DecodedInv'
    <3> SUFFICES ASSUME mode # "raw"
                 PROVE  /\ format = "plain" => e = arrived + k
                        /\ arrived + k = Len(Wire) => e = Len(body)
      BY <1>1, <1>3, <2>1 DEF DecodedInv
    <3>1. CASE format = "plain"
      <4>1. e = decoded + k
        BY <1>1, <3>1 DEF MayDecode, WrongForm
      <4>2. decoded = arrived
        BY <1>1, <3>1 DEF IInv, DecodedInv
      <4>3. QED BY <1>2, <3>1, <4>1, <4>2
    <3>2. CASE format # "plain"
      <4>1. SUFFICES ASSUME arrived + k = Len(Wire) PROVE e = Len(body)
        BY <3>2
      <4>2. ~WrongForm(FirstAttempt(k))
        <5>1. SUFFICES ASSUME format = "deflate", FirstAttempt(k) = "zlib" PROVE FALSE
          BY DEF WrongForm
        <5>2. form # "zlib"
          BY <1>7, <5>1 DEF DecodingFails, WrongForm
        <5>3. form = "untried" /\ k = 1
          BY <1>2, <5>1, <5>2 DEF FirstAttempt
        <5>4. arrived = 0
          BY <1>1, <5>1, <5>3 DEF IInv, FormInv
        <5>5. Len(Wire) = 1
          BY <4>1, <5>3, <5>4
        <5>6. Len(Wire) # 1
          BY <1>2, <3>2
        <5>7. QED BY <5>5, <5>6
      <4>3. QED BY <1>1, <3>2, <4>1, <4>2 DEF MayDecode
    <3>3. QED BY <3>1, <3>2
  <2>5. PieceInv'
    <3> SUFFICES ASSUME mode \in ByteModes PROVE PieceInv'
      BY <1>1 DEF PieceInv
    <3> DEFINE j == IF mode = "raw" THEN arrived + k ELSE e
    <3>1. /\ j \in Nat /\ Reached <= j /\ j <= Len(Source) /\ Reached' = j
          /\ t = SubSeq(Source, Reached + 1, j)
      BY <1>1, <1>2, <2>1 DEF Reached, Source
    <3> HIDE DEF j
    <3>2. r = IF SubSeq(Source, Reached + 1, j) = << >> THEN Result(dec, << >>, FALSE)
              ELSE Feed(mode, dec, SubSeq(Source, Reached + 1, j), chunkSize)
      BY <3>1 DEF r
    <3> HIDE DEF t
    <3>3. /\ r.items \in Seq(Text) /\ r.dec \in Dec /\ r.error = FALSE
          /\ FlattenSeq(out \o r.items) \o r.dec.buffer = SubSeq(Source, 1, j)
          /\ Full(out \o r.items, chunkSize)
          /\ chunkSize = None => r.dec.buffer = << >>
          /\ chunkSize # None => Len(r.dec.buffer) < chunkSize
      BY <1>1, <3>1, <3>2, PieceFed
    <3>4. /\ out \in Seq(Text) /\ (chunkSize # None => chunkSize \in Nat \ {0})
          /\ mode = "read" => chunkSize = None
      BY <1>1 DEF IInv, PieceInv
    <3>5. QED BY <1>1, <1>3, <2>1, <3>1, <3>3, <3>4 DEF PieceInv
  <2>6. Read' = SubSeq(body, 1, e) /\ (mode # "raw" => t = SubSeq(body, decoded + 1, e))
    BY <1>1, <2>1 DEF Read
  <2>7. LineInv'
    <3> SUFFICES ASSUME mode = "lines" PROVE LineInv'
      BY <1>1 DEF LineInv
    <3>1. r = IF SubSeq(body, decoded + 1, e) = << >> THEN Result(dec, << >>, FALSE)
              ELSE Feed(mode, dec, SubSeq(body, decoded + 1, e), chunkSize)
      BY DEF r
    <3>2. /\ r.items \in Seq(Text) /\ r.dec \in Dec /\ r.error = FALSE
          /\ r.dec.cr = EndsInCr(Read') /\ r.dec.buffer = Rest(Known(Read'))
          /\ out \o r.items = Ended(Known(Read'))
      BY <1>1, <2>6, <3>1, LinesFed
    <3>3. out \in Seq(Text) /\ chunkSize = None
      BY <1>1 DEF IInv, LineInv
    <3> HIDE DEF t
    <3>4. QED BY <1>1, <2>1, <3>2, <3>3, BodyAssumption DEF LineInv
  <2>8. EventInv'
    <3> SUFFICES ASSUME mode = "events" PROVE EventInv'
      BY <1>1 DEF EventInv
    <3>1. r = IF SubSeq(body, decoded + 1, e) = << >> THEN Result(dec, << >>, FALSE)
              ELSE Feed(mode, dec, SubSeq(body, decoded + 1, e), chunkSize)
      BY DEF r
    <3>2. /\ r.items \in Seq(Event) /\ r.error \in BOOLEAN
          /\ ~r.error => Knows(Read', r.dec) /\ out \o r.items = EventsIn(Ended(Known(Read')))
          /\ r.error => Over(Split(body)) /\ Begins(out \o r.items, EventsOf(body), Event)
      BY <1>1, <2>6, <3>1, EventsFed
    <3>3. out \in Seq(Event) /\ chunkSize = None
      BY <1>1 DEF IInv, EventInv
    <3> HIDE DEF t
    <3>4. QED BY <1>1, <2>1, <3>2, <3>3, BodyAssumption DEF EventInv
  <2>9. QED BY <1>5, <2>2, <2>3, <2>4, <2>5, <2>7, <2>8 DEF IInv
<1>8. QED BY <1>6, <1>7

LEMMA TakeKeeps ==
  ASSUME IInv, Take
  PROVE  IInv'
<1>1. /\ ready # << >> /\ phase \in {"reading", "tail"}
      /\ out' = Append(out, Head(ready)) /\ ready' = Tail(ready)
      /\ UNCHANGED <<body, format, awaits, arrived, first, decoded, form, mode, chunkSize, phase,
                     dec, failure, consumed, closed, content>>
  BY DEF Take, stream
<1>2. Wire' = Wire /\ Source' = Source /\ Reached' = Reached
  BY <1>1, SameSource DEF Same
<1>3. StreamInv' /\ FormInv' /\ DecodedInv' /\ OutInv' /\ ReleasedAtEnd'
  BY <1>1, <1>2 DEF IInv, StreamInv, FormInv, DecodedInv, OutInv, ReleasedAtEnd
<1>4. PieceInv'
  <2> SUFFICES ASSUME mode \in ByteModes PROVE PieceInv'
    BY <1>1 DEF PieceInv
  <2>1. out \in Seq(Text) /\ ready \in Seq(Text)
    BY <1>1 DEF IInv, PieceInv
  <2>2. out' \in Seq(Text) /\ ready' \in Seq(Text) /\ out' \o ready' = out \o ready
    BY <1>1, <2>1, TakeOne
  <2>3. QED BY <1>1, <1>2, <2>2 DEF IInv, PieceInv
<1>5. Read' = Read
  BY <1>1 DEF Read
<1>6. LineInv'
  <2> SUFFICES ASSUME mode = "lines" PROVE LineInv'
    BY <1>1 DEF LineInv
  <2>1. out \in Seq(Text) /\ ready \in Seq(Text)
    BY <1>1 DEF IInv, LineInv
  <2>2. out' \in Seq(Text) /\ ready' \in Seq(Text) /\ out' \o ready' = out \o ready
    BY <1>1, <2>1, TakeOne
  <2>3. QED BY <1>1, <1>5, <2>2 DEF IInv, LineInv
<1>7. EventInv'
  <2> SUFFICES ASSUME mode = "events" PROVE EventInv'
    BY <1>1 DEF EventInv
  <2>1. out \in Seq(Event) /\ ready \in Seq(Event)
    BY <1>1 DEF IInv, EventInv
  <2>2. out' \in Seq(Event) /\ ready' \in Seq(Event) /\ out' \o ready' = out \o ready
    BY <1>1, <2>1, TakeOne
  <2>3. QED BY <1>1, <1>5, <2>2 DEF IInv, EventInv
<1>8. QED BY <1>3, <1>4, <1>6, <1>7 DEF IInv

LEMMA ExhaustedKeeps ==
  ASSUME IInv, Exhausted
  PROVE  IInv'
<1> DEFINE r == Flush(mode, dec)
<1>1. /\ phase = "reading" /\ ready = << >> /\ failure = None /\ ~closed /\ arrived = Len(Wire)
      /\ dec' = r.dec /\ ready' = r.items /\ failure' = (IF r.error THEN "size" ELSE None)
      /\ phase' = "tail" /\ closed' = (mode # "raw")
      /\ UNCHANGED <<body, format, awaits, arrived, first, decoded, form, mode, chunkSize,
                     out, consumed, content>>
  BY DEF Exhausted, stream
<1> HIDE DEF r
<1>2. Wire' = Wire /\ Source' = Source /\ Reached' = Reached
  BY <1>1, SameSource DEF Same
<1>3. content = None
  BY <1>1 DEF IInv, StreamInv
<1>4. StreamInv'
  BY <1>1, <1>2, <1>3 DEF IInv, StreamInv
<1>5. FormInv' /\ DecodedInv' /\ OutInv' /\ ReleasedAtEnd'
  BY <1>1, BodyAssumption DEF IInv, FormInv, DecodedInv, OutInv, ReleasedAtEnd
<1>6. PieceInv'
  <2> SUFFICES ASSUME mode \in ByteModes PROVE PieceInv'
    BY <1>1 DEF PieceInv
  <2>1. /\ out \in Seq(Text) /\ dec \in Dec
        /\ FlattenSeq(out \o ready) \o dec.buffer = SubSeq(Source, 1, Reached)
        /\ chunkSize # None => chunkSize \in Nat \ {0}
        /\ mode = "read" => chunkSize = None
        /\ Full(out \o ready, chunkSize)
        /\ chunkSize = None => dec.buffer = << >>
        /\ chunkSize # None => Len(dec.buffer) < chunkSize
    BY <1>1 DEF IInv, PieceInv
  <2>2. out \o << >> = out /\ dec.buffer \in Text /\ << >> \in Seq(Text)
    BY <2>1, ConcatEmptySeq, EmptyList DEF Dec
  <2>3. r = FlushChunks(dec)
    BY DEF r, Flush, ByteModes
  <2>4. /\ r.items \in Seq(Text) /\ r.dec = NoDecoding /\ r.error = FALSE
        /\ FlattenSeq(r.items) = dec.buffer
        /\ r.items = << >> \/ r.items = <<dec.buffer>>
    BY <2>1, <2>3, FlushShape
  <2>5. FlattenSeq(out \o r.items) = SubSeq(Source, 1, Reached)
    <3>1. FlattenSeq(out \o r.items) = FlattenSeq(out) \o FlattenSeq(r.items)
      BY <2>1, <2>4, Lists
    <3>2. FlattenSeq(out) \o dec.buffer = SubSeq(Source, 1, Reached)
      BY <1>1, <2>1, <2>2
    <3>3. QED BY <2>4, <3>1, <3>2
  <2>6. Reached = Len(Source)
    <3>1. mode # "raw" => decoded = Len(body)
      BY <1>1 DEF IInv, DecodedInv
    <3>2. QED BY <1>1, <3>1 DEF Reached, Source
  <2>7. Fits(out \o r.items, chunkSize)
    <3>1. CASE r.items = << >>
      BY <1>1, <2>1, <2>2, <3>1, FullFits
    <3>2. CASE r.items = <<dec.buffer>>
      BY <1>1, <2>1, <2>2, <3>2, FullThenRest
    <3>3. QED BY <2>4, <3>1, <3>2
  <2>8. FlattenSeq(out \o r.items) \o << >> = SubSeq(Source, 1, Reached)
    <3>1. FlattenSeq(out \o r.items) \in Text
      BY <2>1, <2>4, Lists, ConcatProperties DEF Text
    <3>2. QED BY <2>5, <3>1, ConcatEmptySeq DEF Text
  <2>9. QED BY <1>1, <1>2, <2>1, <2>4, <2>6, <2>7, <2>8, NoDecodingShape DEF PieceInv
<1>7. mode \in {"lines", "events"} => Read = body /\ body \in Shown /\ body \in Text
  <2> SUFFICES ASSUME mode \in {"lines", "events"} PROVE Read = body /\ body \in Shown /\ body \in Text
    OBVIOUS
  <2>1. decoded = Len(body) /\ decoded \in decoded .. Len(body)
    BY <1>1 DEF IInv, DecodedInv, StreamInv
  <2>2. QED BY <2>1, ReadShape, LinesPlain DEF IInv, Read
<1>8. LineInv'
  <2> SUFFICES ASSUME mode = "lines" PROVE LineInv'
    BY <1>1 DEF LineInv
  <2>1. /\ out \in Seq(Text) /\ dec \in Dec /\ dec.cr = EndsInCr(body)
        /\ dec.buffer = Rest(Known(body)) /\ out \o ready = Ended(Known(body))
        /\ chunkSize = None
    BY <1>1, <1>7 DEF IInv, LineInv
  <2>2. out \o ready = out
    <3> HIDE DEF Text
    <3>1. QED BY <1>1, <2>1, ConcatEmptySeq
  <2>3. r = FlushLines(dec)
    BY DEF r, Flush
  <2>4. r.items \in Seq(Text) /\ r.error = FALSE /\ Ended(Known(body)) \o r.items = SplitLines(body)
    BY <1>7, <2>1, <2>3, FlushLinesShape
  <2>5. QED BY <1>1, <2>1, <2>2, <2>4, BodyAssumption DEF LineInv
<1>9. EventInv'
  <2> SUFFICES ASSUME mode = "events" PROVE EventInv'
    BY <1>1 DEF EventInv
  <2>1. /\ out \in Seq(Event) /\ Knows(body, dec) /\ out \o ready = EventsIn(Ended(Known(body)))
        /\ chunkSize = None
    BY <1>1, <1>7, BodyAssumption DEF IInv, EventInv
  <2>2. out \o ready = out
    <3> HIDE DEF Event
    <3>1. QED BY <1>1, <2>1, ConcatEmptySeq
  <2>3. r = FlushEvents(dec)
    BY DEF r, Flush
  <2>4. /\ r \in Outcome
        /\ ~r.error => Small(Split(body)) /\ out \o r.items = EventsOf(body)
        /\ r.error => /\ Over(Split(body))
                      /\ \E y \in Seq(Event) : (out \o r.items) \o y = EventsOf(body)
    BY <1>7, <2>1, <2>2, <2>3, FlushEventsShape
  <2>5. r.items \in Seq(Event) /\ r.error \in BOOLEAN
    BY <2>4 DEF Outcome
  <2>6. QED BY <1>1, <2>1, <2>4, <2>5, BodyAssumption DEF EventInv, Begins
<1>10. QED BY <1>4, <1>5, <1>6, <1>8, <1>9 DEF IInv

\* A reading that ends leaves what it has yielded: the beginning of the source.
LEMMA EndOut ==
  ASSUME IInv, mode \in ByteModes, phase \in {"reading", "tail"}
  PROVE  /\ out \in Seq(Text) /\ Fits(out, chunkSize)
         /\ \E rest \in Text : FlattenSeq(out) \o rest = Source
         /\ phase = "tail" /\ ready = << >> => FlattenSeq(out) = Source
<1>1. /\ out \in Seq(Text) /\ ready \in Seq(Text) /\ dec.buffer \in Text
      /\ FlattenSeq(out \o ready) \o dec.buffer = SubSeq(Source, 1, Reached)
      /\ chunkSize # None => chunkSize \in Nat
      /\ Full(out \o ready, chunkSize) \/ Fits(out \o ready, chunkSize)
      /\ phase = "tail" => dec.buffer = << >> /\ Reached = Len(Source)
  BY DEF IInv, PieceInv, Dec
<1>2. Source \in Text /\ Len(Source) \in Nat /\ Reached \in 0 .. Len(Source)
  BY SourceShape DEF IInv, StreamInv, Reached, Source
<1>3. Fits(out, chunkSize)
  <2>1. out \o ready \in Seq(Text)
    BY <1>1, Lists
  <2>2. Fits(out \o ready, chunkSize)
    BY <1>1, <2>1, FullFits
  <2>3. QED BY <1>1, <2>2, FitsBefore
<1> DEFINE a == FlattenSeq(out)
           b == FlattenSeq(ready)
           c == dec.buffer
           t == SubSeq(Source, Reached + 1, Len(Source))
<1>4. a \in Text /\ b \in Text /\ c \in Text /\ (a \o b) \o c = SubSeq(Source, 1, Reached)
  BY <1>1, Lists
<1>5. t \in Text /\ SubSeq(Source, 1, Reached) \o t = Source
  <2>1. Source \in Seq(Chars) /\ \A i \in (Reached + 1) .. Len(Source) : Source[i] \in Chars
    BY <1>2 DEF Text
  <2>2. t \in Seq(Chars)
    BY <1>2, <2>1, SubSeqProperties
  <2>3. 1 \in 1 .. Len(Source) + 1 /\ Reached \in 1 - 1 .. Len(Source) /\ Len(Source) \in Reached .. Len(Source)
    BY <1>2
  <2>4. SubSeq(Source, 1, Reached) \o t = SubSeq(Source, 1, Len(Source))
    BY <2>1, <2>3, ConcatAdjacentSubSeq
  <2>5. SubSeq(Source, 1, Len(Source)) = Source
    BY <2>1, SubSeqFull
  <2>6. QED BY <2>2, <2>4, <2>5 DEF Text
<1>6. ASSUME phase = "tail", ready = << >> PROVE a = Source
  <2>1. SubSeq(Source, 1, Len(Source)) = Source
    BY <1>2, SubSeqFull DEF Text
  <2>2. b = << >>
    BY <1>6, FlattenEmpty
  <2>3. (a \o << >>) \o << >> = a
    BY <1>4, ConcatEmptySeq DEF Text
  <2>4. QED BY <1>1, <1>4, <1>6, <2>1, <2>2, <2>3
<1> HIDE DEF a, b, c, t
<1>7. a \o (b \o (c \o t)) = Source /\ b \o (c \o t) \in Text
  <2>1. c \o t \in Text /\ b \o (c \o t) \in Text /\ a \o b \in Text
    BY <1>4, <1>5, ConcatProperties DEF Text
  <2>2. a \o (b \o (c \o t)) = (a \o b) \o (c \o t)
    <3>1. a \in Text /\ b \in Text /\ c \o t \in Text
      BY <1>4, <2>1
    <3>2. QED BY <3>1, TextAssociative, Zenon
  <2>3. (a \o b) \o (c \o t) = ((a \o b) \o c) \o t
    <3>1. a \o b \in Text /\ c \in Text /\ t \in Text
      BY <1>4, <1>5, <2>1
    <3>2. QED BY <3>1, TextAssociative, Zenon
  <2>4. QED BY <1>4, <1>5, <2>1, <2>2, <2>3
<1>8. \E rest \in Text : a \o rest = Source
  BY <1>7
<1>9. QED BY <1>1, <1>3, <1>6, <1>8 DEF a

LEMMA EndKeeps ==
  ASSUME IInv, End
  PROVE  IInv'
<1>1. /\ phase = "tail" /\ ready = << >> /\ failure = None
      /\ phase' = "done" /\ closed' = TRUE
      /\ content' = (IF mode = "read" THEN FlattenSeq(out) ELSE content)
      /\ UNCHANGED <<body, format, awaits, arrived, first, decoded, form, mode, chunkSize, dec,
                     ready, failure, out, consumed>>
  BY DEF End, stream
<1>2. Wire' = Wire /\ Source' = Source
  BY <1>1, SameSource DEF Same
<1>3. OutInv'
  BY <1>1, <1>2, EndOut DEF OutInv
<1>4. content' # None => content' = body /\ mode # "raw"
  <2>1. content = None
    BY <1>1 DEF IInv, StreamInv
  <2>2. mode = "read" => FlattenSeq(out) = body
    BY <1>1, EndOut DEF ByteModes, Source
  <2>3. QED BY <1>1, <2>1, <2>2
<1>5. StreamInv'
  BY <1>1, <1>2, <1>4 DEF IInv, StreamInv
<1>6. FormInv' /\ DecodedInv' /\ PieceInv' /\ ReleasedAtEnd'
  BY <1>1 DEF IInv, FormInv, DecodedInv, PieceInv, ReleasedAtEnd
<1>7. LineInv'
  BY <1>1, ListOut, BodyAssumption DEF IInv, LineInv
<1>8. EventInv'
  BY <1>1, ListOut, BodyAssumption DEF IInv, EventInv
<1>9. QED BY <1>3, <1>5, <1>6, <1>7, <1>8 DEF IInv

LEMMA RaiseKeeps ==
  ASSUME IInv, Raise
  PROVE  IInv'
<1>1. /\ failure # None /\ phase \in {"reading", "tail"} /\ phase' = "failed"
      /\ closed' = (closed \/ ClosedOnError(failure))
      /\ UNCHANGED <<body, format, awaits, arrived, first, decoded, form, mode, chunkSize, dec,
                     ready, failure, out, consumed, content>>
  BY DEF Raise, stream
<1>2. Wire' = Wire /\ Source' = Source
  BY <1>1, SameSource DEF Same
<1>3. OutInv'
  BY <1>1, <1>2, EndOut DEF OutInv
<1>4. StreamInv'
  BY <1>1, <1>2 DEF IInv, StreamInv, ClosedOnError
<1>5. ReleasedAtEnd'
  BY <1>1 DEF IInv, StreamInv, ClosedOnError, ReleasedAtEnd
<1>6. FormInv' /\ DecodedInv' /\ PieceInv'
  BY <1>1 DEF IInv, FormInv, DecodedInv, PieceInv
<1>7. LineInv'
  BY <1>1, ListOut DEF IInv, LineInv
<1>8. EventInv'
  BY <1>1, ListOut DEF IInv, EventInv
<1>9. QED BY <1>3, <1>4, <1>5, <1>6, <1>7, <1>8 DEF IInv

LEMMA LeaveKeeps ==
  ASSUME IInv, Leave
  PROVE  IInv'
<1>1. /\ phase \in {"reading", "tail"} /\ phase' = "left"
      /\ closed' = (closed \/ ~awaits)
      /\ UNCHANGED <<body, format, awaits, arrived, first, decoded, form, mode, chunkSize, dec,
                     failure, out, consumed, content>>
  BY DEF Leave, stream
<1>2. Wire' = Wire /\ Source' = Source
  BY <1>1, SameSource DEF Same
<1>3. OutInv'
  BY <1>1, <1>2, EndOut DEF OutInv
<1>4. StreamInv'
  BY <1>1, <1>2 DEF IInv, StreamInv
<1>5. FormInv' /\ DecodedInv' /\ PieceInv' /\ ReleasedAtEnd'
  BY <1>1 DEF IInv, StreamInv, FormInv, DecodedInv, PieceInv, ReleasedAtEnd
<1>6. LineInv'
  BY <1>1, ListOut DEF IInv, LineInv
<1>7. EventInv'
  BY <1>1, ListOut DEF IInv, EventInv
<1>8. QED BY <1>3, <1>4, <1>5, <1>6, <1>7 DEF IInv

LEMMA ReadFailsKeeps ==
  ASSUME IInv, ReadFails
  PROVE  IInv'
<1>1. /\ phase = "reading" /\ failure = None /\ failure' = "network"
      /\ UNCHANGED <<body, format, awaits, arrived, first, decoded, form, mode, chunkSize, phase,
                     dec, ready, out, consumed, closed, content>>
  BY DEF ReadFails, stream
<1>2. Wire' = Wire /\ Source' = Source /\ Reached' = Reached
  BY <1>1, SameSource DEF Same
<1>3. StreamInv'
  BY <1>1, <1>2 DEF IInv, StreamInv
<1>4. FormInv' /\ DecodedInv' /\ OutInv' /\ ReleasedAtEnd'
  BY <1>1, BodyAssumption DEF IInv, FormInv, DecodedInv, OutInv, ReleasedAtEnd
<1>5. PieceInv'
  BY <1>1, <1>2 DEF IInv, PieceInv
<1>6. Read' = Read /\ failure # "size"
  BY <1>1, BodyAssumption DEF Read
<1>7. LineInv' /\ EventInv'
  BY <1>1, <1>6 DEF IInv, LineInv, EventInv
<1>8. QED BY <1>3, <1>4, <1>5, <1>7 DEF IInv

LEMMA CloseKeeps ==
  ASSUME IInv, Close \/ Finalize \/ UNCHANGED vars
  PROVE  IInv'
<1>1. /\ closed' = TRUE \/ closed' = closed
      /\ UNCHANGED <<body, format, awaits, arrived, first, decoded, form, mode, chunkSize, phase,
                     dec, ready, failure, out, consumed, content>>
  BY DEF Close, Finalize, vars, stream
<1>2. Wire' = Wire /\ Source' = Source /\ Reached' = Reached
  BY <1>1, SameSource DEF Same
<1>3. StreamInv'
  BY <1>1, <1>2 DEF IInv, StreamInv
<1>4. FormInv' /\ DecodedInv' /\ ReleasedAtEnd'
  BY <1>1, <1>2 DEF IInv, FormInv, DecodedInv, ReleasedAtEnd
<1>5. PieceInv' /\ OutInv'
  BY <1>1, <1>2 DEF IInv, PieceInv, OutInv
<1>6. Read' = Read
  BY <1>1 DEF Read
<1>7. LineInv' /\ EventInv'
  BY <1>1, <1>6 DEF IInv, LineInv, EventInv
<1>8. QED BY <1>3, <1>4, <1>5, <1>7 DEF IInv

\* Content that is cut into chunks again is the content.
LEMMA ReplayBytes ==
  ASSUME NEW t \in Text, NEW n \in {None} \cup (Nat \ {0})
  PROVE  LET fed == IF t = << >> THEN Result(NoDecoding, << >>, FALSE)
                    ELSE FeedChunks(NoDecoding, t, n)
             rest == FlushChunks(fed.dec)
         IN  /\ fed.error = FALSE /\ rest.error = FALSE
             /\ fed.items \o rest.items \in Seq(Text)
             /\ FlattenSeq(fed.items \o rest.items) = t
             /\ Fits(fed.items \o rest.items, n)
<1> DEFINE fed == IF t = << >> THEN Result(NoDecoding, << >>, FALSE)
                  ELSE FeedChunks(NoDecoding, t, n)
           rest == FlushChunks(fed.dec)
<1>0. fed = (IF t = << >> THEN Result(NoDecoding, << >>, FALSE) ELSE FeedChunks(NoDecoding, t, n))
      /\ rest = FlushChunks(fed.dec)
  OBVIOUS
<1> HIDE DEF fed, rest
<1>1. << >> \in Seq(Text) /\ << >> \o t = t /\ Len(<< >>) = 0 /\ << >> \o << >> = << >>
  BY ConcatEmptySeq, EmptyList DEF Text
<1>2. /\ fed.items \in Seq(Text) /\ fed.dec \in Dec /\ fed.dec.buffer \in Text
      /\ FlattenSeq(fed.items) \o fed.dec.buffer = t /\ fed.error = FALSE
      /\ Full(fed.items, n)
      /\ n = None => fed.dec.buffer = << >>
      /\ n # None => Len(fed.dec.buffer) < n
  <2>1. CASE t = << >>
    <3>1. fed.items = << >> /\ fed.dec = NoDecoding /\ fed.error = FALSE
      BY <1>0, <2>1 DEF Result
    <3>2. Full(<< >>, n)
      BY <1>1 DEF Full
    <3>3. FlattenSeq(<< >>) \o << >> = t
      BY <1>1, <2>1, FlattenEmpty
    <3>4. n # None => 0 < n
      OBVIOUS
    <3>5. QED BY <1>1, <3>1, <3>2, <3>3, <3>4, NoDecodingShape
  <2>2. CASE t # << >>
    <3> DEFINE q == FeedChunks(NoDecoding, t, n)
    <3>1. NoDecoding \in Dec /\ NoDecoding.buffer = << >>
      BY NoDecodingShape
    <3>2. /\ q.items \in Seq(Text) /\ q.dec.buffer \in Text /\ q.dec \in Dec
          /\ FlattenSeq(q.items) \o q.dec.buffer = NoDecoding.buffer \o t
          /\ q.error = FALSE
          /\ n = None => q.dec.buffer = << >>
          /\ n # None => /\ Len(q.dec.buffer) < n
                         /\ \A k \in 1 .. Len(q.items) : Len(q.items[k]) = n
      BY <2>2, <3>1, FeedShape, ZenonT(60)
    <3> HIDE DEF q
    <3>3. fed = q
      BY <1>0, <2>2 DEF q
    <3>4. Full(q.items, n)
      BY <3>2 DEF Full
    <3>5. QED BY <1>1, <3>1, <3>2, <3>3, <3>4
  <2>3. QED BY <2>1, <2>2
<1>3. /\ rest.items \in Seq(Text) /\ rest.error = FALSE
      /\ FlattenSeq(rest.items) = fed.dec.buffer
      /\ rest.items = << >> \/ rest.items = <<fed.dec.buffer>>
  BY <1>0, <1>2, FlushShape
<1>4. /\ fed.items \o rest.items \in Seq(Text)
      /\ FlattenSeq(fed.items \o rest.items) = FlattenSeq(fed.items) \o FlattenSeq(rest.items)
  BY <1>2, <1>3, Lists
<1>5. Fits(fed.items \o rest.items, n)
  <2>1. CASE rest.items = << >>
    <3>1. fed.items \o << >> = fed.items
      BY <1>2, ConcatEmptySeq
    <3>2. QED BY <1>2, <2>1, <3>1, FullFits
  <2>2. CASE rest.items = <<fed.dec.buffer>>
    BY <1>2, <2>2, FullThenRest
  <2>3. QED BY <1>3, <2>1, <2>2
<1>6. FlattenSeq(fed.items \o rest.items) = t
  BY <1>2, <1>3, <1>4
<1>7. QED BY <1>2, <1>3, <1>4, <1>5, <1>6 DEF fed, rest

\* Content that is cut into lines gives the lines of a body.
LEMMA ReplayLines ==
  ASSUME NEW t \in Text
  PROVE  LET fed == IF t = << >> THEN Result(NoDecoding, << >>, FALSE) ELSE FeedLines(NoDecoding, t)
             rest == FlushLines(fed.dec)
         IN  /\ fed.error = FALSE /\ rest.error = FALSE
             /\ fed.items \o rest.items \in Seq(Text)
             /\ fed.items \o rest.items = SplitLines(t)
<1> DEFINE fed == IF t = << >> THEN Result(NoDecoding, << >>, FALSE) ELSE FeedLines(NoDecoding, t)
           rest == FlushLines(fed.dec)
<1>1. /\ fed.items \in Seq(Text) /\ fed.dec \in Dec /\ fed.error = FALSE
      /\ fed.items = Ended(Known(t)) /\ fed.dec.cr = EndsInCr(t) /\ fed.dec.buffer = Rest(Known(t))
  <2>1. NoDecoding \in Dec /\ NoDecoding.cr = FALSE /\ NoDecoding.buffer = << >>
    BY NoDecodingShape DEF NoDecoding
  <2>2. CASE t = << >>
    BY <2>1, <2>2, KnowsNothing, EmptyList DEF Result
  <2>3. CASE t # << >>
    <3> DEFINE q == FeedLines(NoDecoding, t)
    <3>1. << >> \o t = t
      BY ConcatEmptySeq DEF Text
    <3>2. /\ q.items \in Seq(Text) /\ q.dec \in Dec /\ q.error = FALSE
          /\ Ended(Known(<< >>)) \o q.items = Ended(Known(<< >> \o t))
          /\ q.dec.cr = EndsInCr(<< >> \o t) /\ q.dec.buffer = Rest(Known(<< >> \o t))
      <4>1. /\ << >> \in Text /\ NoDecoding.cr = EndsInCr(<< >>)
            /\ NoDecoding.buffer = Rest(Known(<< >>))
        BY <2>1, KnowsNothing
      <4>2. QED BY <2>1, <2>3, <4>1, FeedLinesShape, ZenonT(60)
    <3>3. fed = q
      BY <2>3
    <3> HIDE DEF q, fed
    <3>4. << >> \o q.items = q.items
      <4> HIDE DEF Text
      <4>1. QED BY <3>2, ConcatEmptySeq
    <3>5. QED BY <3>1, <3>2, <3>3, <3>4, KnowsNothing
  <2>4. QED BY <2>2, <2>3
<1> HIDE DEF fed
<1>2. /\ rest.items \in Seq(Text) /\ rest.error = FALSE
      /\ Ended(Known(t)) \o rest.items = SplitLines(t)
  BY <1>1, FlushLinesShape
<1> HIDE DEF rest
<1>3. fed.items \o rest.items \in Seq(Text)
  <2> HIDE DEF Text
  <2>1. QED BY <1>1, <1>2, ConcatProperties
<1>4. QED BY <1>1, <1>2, <1>3 DEF fed, rest

\* And the events, up to the one that is over the limit.
LEMMA ReplayEvents ==
  ASSUME NEW t \in Shown
  PROVE  LET fed == IF t = << >> THEN Result(NoDecoding, << >>, FALSE) ELSE FeedEvents(NoDecoding, t)
             rest == IF fed.error THEN Result(fed.dec, << >>, TRUE) ELSE FlushEvents(fed.dec)
             all == fed.items \o rest.items
         IN  /\ all \in Seq(Event) /\ rest.error \in BOOLEAN
             /\ ~rest.error => Small(Split(t)) /\ all = EventsOf(t)
             /\ rest.error => Over(Split(t)) /\ Begins(all, EventsOf(t), Event)
<1> DEFINE fed == IF t = << >> THEN Result(NoDecoding, << >>, FALSE) ELSE FeedEvents(NoDecoding, t)
           rest == IF fed.error THEN Result(fed.dec, << >>, TRUE) ELSE FlushEvents(fed.dec)
           all == fed.items \o rest.items
<1>1. << >> \o t = t /\ t \o << >> = t
  BY ConcatEmptySeq DEF Shown
<1>2. /\ fed.items \in Seq(Event) /\ fed.error \in BOOLEAN
      /\ ~fed.error => Knows(t, fed.dec) /\ fed.items = EventsIn(Ended(Known(t)))
      /\ fed.error => Over(Split(Known(t))) /\ Begins(fed.items, EventsIn(Ended(Known(t))), Event)
  <2>1. CASE t = << >>
    BY <2>1, KnowsNothing, NoLine DEF Result
  <2>2. CASE t # << >>
    <3> DEFINE q == FeedEvents(NoDecoding, t)
    <3>1. /\ q \in Outcome
          /\ ~q.error => /\ Knows(<< >> \o t, q.dec)
                         /\ EventsIn(Ended(Known(<< >>))) \o q.items = EventsIn(Ended(Known(<< >> \o t)))
          /\ q.error => /\ Over(Split(Known(<< >> \o t)))
                        /\ \E y \in Seq(Event) : (EventsIn(Ended(Known(<< >>))) \o q.items) \o y
                                                 = EventsIn(Ended(Known(<< >> \o t)))
      <4>1. << >> \in Shown /\ t \in Shown /\ t # << >> /\ Knows(<< >>, NoDecoding)
        BY <2>2, KnowsNothing
      <4>2. QED BY <4>1, FeedEventsShape, ZenonT(60)
    <3>2. fed = q
      BY <2>2
    <3> HIDE DEF q, fed
    <3>3. q.items \in Seq(Event) /\ q.error \in BOOLEAN
      BY <3>1 DEF Outcome
    <3>4. << >> \o q.items = q.items
      <4> HIDE DEF Event
      <4>1. QED BY <3>3, ConcatEmptySeq
    <3>5. QED BY <1>1, <3>1, <3>2, <3>3, <3>4, KnowsNothing DEF Begins
  <2>3. QED BY <2>1, <2>2
<1> HIDE DEF fed
<1>3. CASE fed.error
  <2>1. rest.items = << >> /\ rest.error = TRUE
    BY <1>3 DEF Result
  <2>2. all = fed.items
    <3> HIDE DEF Event, rest
    <3>1. QED BY <1>2, <2>1, ConcatEmptySeq
  <2> HIDE DEF rest, all
  <2>3. Over(Split(t))
    BY <1>1, <1>2, <1>3, KnowsNothing, OverEnds
  <2>4. Begins(EventsIn(Ended(Known(t))), EventsOf(t), Event)
    BY <1>1, KnowsNothing, EventsBegin DEF Begins
  <2>5. Begins(fed.items, EventsOf(t), Event)
    BY <1>2, <1>3, <2>4, BeginsMore
  <2>6. QED BY <1>2, <2>1, <2>2, <2>3, <2>5 DEF all, rest, fed
<1>4. CASE ~fed.error
  <2> DEFINE q == FlushEvents(fed.dec)
  <2>1. rest = q
    BY <1>4
  <2>2. /\ q \in Outcome
        /\ ~q.error => Small(Split(t)) /\ EventsIn(Ended(Known(t))) \o q.items = EventsOf(t)
        /\ q.error => /\ Over(Split(t))
                      /\ \E y \in Seq(Event) : (EventsIn(Ended(Known(t))) \o q.items) \o y = EventsOf(t)
    BY <1>2, <1>4, FlushEventsShape
  <2> HIDE DEF q, rest
  <2>3. q.items \in Seq(Event) /\ q.error \in BOOLEAN
    BY <2>2 DEF Outcome
  <2>4. all \in Seq(Event)
    <3> HIDE DEF Event
    <3>1. QED BY <1>2, <2>1, <2>3, ConcatProperties
  <2>5. QED BY <1>2, <1>4, <2>1, <2>2, <2>3, <2>4 DEF rest, fed, Begins
<1>5. QED BY <1>2, <1>3, <1>4

LEMMA ReplayKeeps ==
  ASSUME IInv, NEW m \in Modes, NEW n \in Sizes(m), Replay(m, n)
  PROVE  IInv'
<1> DEFINE fed == IF content = << >> THEN Result(NoDecoding, << >>, FALSE)
                  ELSE Feed(m, NoDecoding, content, n)
           rest == IF fed.error THEN Result(fed.dec, << >>, TRUE) ELSE Flush(m, fed.dec)
<1>1. /\ content # None /\ m # "raw"
      /\ out' = fed.items \o rest.items
      /\ failure' = (IF rest.error THEN "size" ELSE None)
      /\ phase' = (IF rest.error THEN "failed" ELSE "done")
      /\ mode' = m /\ chunkSize' = n
      /\ UNCHANGED <<body, format, awaits, arrived, first, decoded, form, ready, consumed, closed, content>>
  BY DEF Replay, stream
<1>2. content = body /\ closed /\ phase \in {"done", "failed"} /\ consumed
  BY <1>1 DEF IInv, StreamInv
<1>3. Wire' = Wire
  BY <1>1 DEF Wire
<1> HIDE DEF fed, rest
<1>4. StreamInv'
  BY <1>1, <1>2, <1>3 DEF IInv, StreamInv
<1>5. FormInv' /\ DecodedInv' /\ PieceInv' /\ ReleasedAtEnd'
  BY <1>1, <1>2, BodyAssumption DEF IInv, FormInv, DecodedInv, PieceInv, ReleasedAtEnd
<1>6. OutInv'
  <2> SUFFICES ASSUME m \in {"bytes", "read"} PROVE OutInv'
    BY <1>1 DEF OutInv, ByteModes
  <2>1. body \in Text
    BY SourceShape DEF IInv
  <2>2. n \in {None} \cup (Nat \ {0})
    BY BodyAssumption DEF Sizes
  <2>3. fed = IF body = << >> THEN Result(NoDecoding, << >>, FALSE)
              ELSE FeedChunks(NoDecoding, body, n)
    BY <1>2 DEF fed, Feed
  <2> DEFINE flushed == FlushChunks(fed.dec)
  <2>4. flushed = FlushChunks(fed.dec)
    OBVIOUS
  <2> HIDE DEF flushed
  <2>5. /\ fed.error = FALSE /\ flushed.error = FALSE
        /\ fed.items \o flushed.items \in Seq(Text)
        /\ FlattenSeq(fed.items \o flushed.items) = body
        /\ Fits(fed.items \o flushed.items, n)
    <3>1. LET f == IF body = << >> THEN Result(NoDecoding, << >>, FALSE)
                   ELSE FeedChunks(NoDecoding, body, n)
              g == FlushChunks(f.dec)
          IN  /\ f.error = FALSE /\ g.error = FALSE
              /\ f.items \o g.items \in Seq(Text)
              /\ FlattenSeq(f.items \o g.items) = body
              /\ Fits(f.items \o g.items, n)
      BY <2>1, <2>2, ReplayBytes, Zenon
    <3>2. QED BY <2>3, <2>4, <3>1
  <2>6. rest = flushed
    BY <2>4, <2>5 DEF rest, Flush
  <2>7. Source' = body
    BY <1>1 DEF Source
  <2>8. body \o << >> = body /\ << >> \in Text
    BY <2>1, ConcatEmptySeq, EmptyList DEF Text
  <2>9. QED BY <1>1, <2>5, <2>6, <2>7, <2>8 DEF OutInv
<1>7. m \in {"lines", "events"} => n = None
  BY DEF Sizes
<1>8. body \in Shown /\ body \in Text
  BY BodyAssumption, LinesPlain DEF IInv, StreamInv, Shown
<1>9. LineInv'
  <2> SUFFICES ASSUME m = "lines" PROVE LineInv'
    BY <1>1 DEF LineInv
  <2>1. fed = IF body = << >> THEN Result(NoDecoding, << >>, FALSE) ELSE FeedLines(NoDecoding, body)
    BY <1>2 DEF fed, Feed
  <2> DEFINE flushed == FlushLines(fed.dec)
  <2>2. /\ fed.error = FALSE /\ flushed.error = FALSE
        /\ fed.items \o flushed.items \in Seq(Text)
        /\ fed.items \o flushed.items = SplitLines(body)
    BY <1>8, <2>1, ReplayLines
  <2>3. rest = flushed
    BY <2>2 DEF rest, Flush
  <2> HIDE DEF flushed
  <2>4. QED BY <1>1, <1>2, <1>7, <2>2, <2>3, BodyAssumption DEF LineInv
<1>10. EventInv'
  <2> SUFFICES ASSUME m = "events" PROVE EventInv'
    BY <1>1 DEF EventInv
  <2>1. fed = IF body = << >> THEN Result(NoDecoding, << >>, FALSE) ELSE FeedEvents(NoDecoding, body)
    BY <1>2 DEF fed, Feed
  <2>2. rest = IF fed.error THEN Result(fed.dec, << >>, TRUE) ELSE FlushEvents(fed.dec)
    BY DEF rest, Flush
  <2> DEFINE all == fed.items \o rest.items
  <2>3. /\ all \in Seq(Event) /\ rest.error \in BOOLEAN
        /\ ~rest.error => Small(Split(body)) /\ all = EventsOf(body)
        /\ rest.error => Over(Split(body)) /\ Begins(all, EventsOf(body), Event)
    BY <1>8, <2>1, <2>2, ReplayEvents
  <2>4. out' = all
    BY <1>1
  <2> HIDE DEF all
  <2>5. QED BY <1>1, <1>2, <1>7, <2>3, <2>4, BodyAssumption DEF EventInv
<1>11. QED BY <1>4, <1>5, <1>6, <1>9, <1>10 DEF IInv

-----------------------------------------------------------------------------
(***************************************************************************)
(* The theorems.                                                           *)
(***************************************************************************)
\* IInv is the inductive invariant of a response.
THEOREM Invariance == Spec => []IInv
<1>1. IInv /\ [Next]_vars => IInv'
  <2> SUFFICES ASSUME IInv, [Next]_vars PROVE IInv'
    OBVIOUS
  <2>1. ASSUME NEW m \in Modes, NEW n \in Sizes(m), Start(m, n) \/ Replay(m, n) PROVE IInv'
    BY <2>1, StartKeeps, ReplayKeeps
  <2>2. ASSUME NEW k \in 1 .. (Len(Wire) - arrived), NEW e \in decoded .. Len(body), Pull(k, e)
        PROVE  IInv'
    BY <2>2, PullKeeps
  <2>3. CASE Take \/ Exhausted \/ End \/ ReadFails \/ Raise \/ Leave
    BY <2>3, TakeKeeps, ExhaustedKeeps, EndKeeps, ReadFailsKeeps, RaiseKeeps, LeaveKeeps
  <2>4. CASE Finalize \/ Close \/ UNCHANGED vars
    BY <2>4, CloseKeeps
  <2>5. QED BY <2>1, <2>2, <2>3, <2>4 DEF Next
<1>2. QED BY InitIInv, <1>1, PTL DEF Spec

\* However a reading ends, the response is closed, or it is asynchronous and the
\* event loop has yet to close the generator.
THEOREM ClosedAtEnd == Spec => []ReleasedAtEnd
<1>1. IInv => ReleasedAtEnd
  BY DEF IInv
<1>2. QED BY <1>1, Invariance, PTL

\* Whatever the body, its compression and the cuts: content is all of the body.
THEOREM ContentIsWhole == Spec => []ContentWhole
<1>1. IInv => ContentWhole
  BY DEF IInv, StreamInv, ContentWhole
<1>2. QED BY <1>1, Invariance, PTL

\* What begins a list is a prefix of it.
LEMMA Beginning ==
  ASSUME NEW S, NEW t \in Seq(S), NEW u, Begins(t, u, S)
  PROVE  IsPrefix(t, u)
<1>1. PICK rest \in Seq(S) : t \o rest = u
  BY DEF Begins
<1>2. Len(t) \in Nat /\ Len(rest) \in Nat
  OBVIOUS
<1>3. Len(t) <= Len(t \o rest)
  BY <1>2, ConcatProperties
<1>4. SubSeq(t, 1, Len(t)) = SubSeq(t \o rest, 1, Len(t))
  <2>1. CASE Len(t) = 0
    BY <2>1, SubSeqEmpty
  <2>2. CASE Len(t) # 0
    <3>1. 1 \in 1 .. Len(t) /\ Len(t) \in 1 .. Len(t)
      BY <1>2, <2>2
    <3>2. QED BY <1>2, <3>1, SubSeqOfConcat1
  <2>3. QED BY <2>1, <2>2
<1>5. QED BY <1>1, <1>3, <1>4 DEF IsPrefix

\* Read in bytes, in chunks or whole, what the user gets is the body itself.
LEMMA BytesInOrder ==
  ASSUME IInv, mode \in ByteModes, mode # None
  PROVE  CutsDoNotMatter
<1>1. phase \in {"reading", "tail", "done", "failed", "left"}
  BY DEF IInv, StreamInv
<1>2. Got = FlattenSeq(out) /\ Expected = Source
  BY DEF Got, Expected, Source, ByteModes
<1>3. /\ out \in Seq(Text) /\ Fits(out, chunkSize)
      /\ \E rest \in Text : FlattenSeq(out) \o rest = Source
      /\ phase = "done" => FlattenSeq(out) = Source
  <2>1. CASE phase \in {"reading", "tail"}
    BY <2>1, EndOut
  <2>2. CASE phase \in {"done", "failed", "left"}
    BY <2>2 DEF IInv, OutInv
  <2>3. QED BY <1>1, <2>1, <2>2
<1>4. failure = "decoding" => format = "deflate" /\ first = 1
  BY DEF IInv, FormInv
<1>5. IsPrefix(Got, Expected)
  <2>1. Got \in Seq(Chars) /\ Begins(Got, Expected, Chars)
    BY <1>2, <1>3, Lists DEF Begins, Text
  <2>2. QED BY <2>1, Beginning
<1>6. chunkSize # None =>
        \A k \in DOMAIN out : /\ Len(out[k]) <= chunkSize
                              /\ k < Len(out) => Len(out[k]) = chunkSize
  BY <1>3, LenProperties DEF Fits
<1>7. QED BY <1>2, <1>3, <1>4, <1>5, <1>6 DEF CutsDoNotMatter

\* Read in lines or events, it is those of the body, in their order.
LEMMA ListsInOrder ==
  ASSUME IInv, mode \in {"lines", "events"}, mode # None
  PROVE  CutsDoNotMatter
<1>1. phase \in {"reading", "tail", "done", "failed", "left"}
  BY DEF IInv, StreamInv
<1>2. failure = "decoding" => format = "deflate" /\ first = 1
  BY DEF IInv, FormInv
<1>3. CASE mode = "lines"
  <2>1. Got = out /\ Expected = SplitLines(body)
    BY <1>3 DEF Got, Expected
  <2>2. out \in Seq(Text) /\ chunkSize = None
    BY <1>1, <1>3 DEF IInv, LineInv
  <2>3. Begins(out, SplitLines(body), Text) /\ (phase = "done" => out = SplitLines(body))
    <3>1. CASE phase \in {"reading", "tail"}
      BY <1>3, <3>1, ListOut
    <3>2. CASE phase = "done"
      BY <1>3, <2>2, <3>2, BeginsSame DEF IInv, LineInv
    <3>3. CASE phase \in {"failed", "left"}
      BY <1>3, <3>3 DEF IInv, LineInv
    <3>4. QED BY <1>1, <3>1, <3>2, <3>3
  <2>4. IsPrefix(out, SplitLines(body))
    BY <2>2, <2>3, Beginning
  <2>5. QED BY <1>2, <2>1, <2>2, <2>3, <2>4 DEF CutsDoNotMatter
<1>4. CASE mode = "events"
  <2>1. Got = out /\ Expected = EventsOf(body)
    BY <1>4 DEF Got, Expected
  <2>2. out \in Seq(Event) /\ chunkSize = None
    BY <1>1, <1>4 DEF IInv, EventInv
  <2>3. Begins(out, EventsOf(body), Event) /\ (phase = "done" => out = EventsOf(body))
    <3>1. CASE phase \in {"reading", "tail"}
      BY <1>4, <3>1, ListOut
    <3>2. CASE phase = "done"
      BY <1>4, <2>2, <3>2, BeginsSame DEF IInv, EventInv
    <3>3. CASE phase \in {"failed", "left"}
      BY <1>4, <3>3 DEF IInv, EventInv
    <3>4. QED BY <1>1, <3>1, <3>2, <3>3
  <2>4. IsPrefix(out, EventsOf(body))
    BY <2>2, <2>3, Beginning
  <2>5. QED BY <1>2, <2>1, <2>2, <2>3, <2>4 DEF CutsDoNotMatter
<1>5. QED BY <1>3, <1>4

\* However a body is read, whatever the network and the decompressor make of it, what
\* the user gets is a function of the body: from its beginning, with nothing lost,
\* repeated or moved, complete once the reading is, and in chunks of the size that was
\* asked for.
THEOREM CutsNeverMatter == Spec => []CutsDoNotMatter
<1>1. IInv => CutsDoNotMatter
  <2> SUFFICES ASSUME IInv, mode # None PROVE CutsDoNotMatter
    BY DEF CutsDoNotMatter
  <2>1. mode \in ByteModes \/ mode \in {"lines", "events"}
    BY DEF IInv, StreamInv, Modes, ByteModes
  <2>2. QED BY <2>1, BytesInOrder, ListsInOrder
<1>2. QED BY <1>1, Invariance, PTL

\* The limit of an EventSource is one for each event, wherever the network cuts the
\* stream: none that was read to the end is over it, and what is refused is.
THEOREM LimitIsPerEvent == Spec => []LimitPerEvent
<1>1. IInv => LimitPerEvent
  <2> SUFFICES ASSUME IInv, mode = "events"
               PROVE  /\ phase = "done" =>
                           \A S \in Stretches(Split(body)) :
                             ~TooLarge(Size(Split(body), NoComments(Split(body), S)))
                      /\ failure = "size" =>
                           \E S \in Stretches(Split(body)) : TooLarge(Size(Split(body), S))
    BY DEF LimitPerEvent
  <2>1. body \in Shown
    BY BodyAssumption DEF IInv, StreamInv, Shown
  <2>2. ASSUME phase = "done"
        PROVE  \A S \in Stretches(Split(body)) :
                 ~TooLarge(Size(Split(body), NoComments(Split(body), S)))
    <3>1. Small(Split(body)) /\ Split(body) \in Seq(Line)
      BY <2>1, <2>2, SplitPlain DEF IInv, EventInv
    <3> DEFINE L == Split(body)
    <3> HIDE DEF L
    <3>2. \A S \in Stretches(L) : ~TooLarge(Size(L, NoComments(L, S)))
      BY <3>1, SmallStretches DEF L
    <3>3. QED BY <3>2 DEF L
  <2>3. ASSUME failure = "size" PROVE Over(Split(body))
    <3>1. phase # "fresh"
      BY <2>3, BodyAssumption DEF IInv, StreamInv
    <3>2. QED BY <2>3, <3>1 DEF IInv, EventInv
  <2>4. QED BY <2>2, <2>3 DEF Over
<1>2. QED BY <1>1, Invariance, PTL

=============================================================================
