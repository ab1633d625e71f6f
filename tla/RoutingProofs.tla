--------------------------- MODULE RoutingProofs ---------------------------
(***************************************************************************)
(* Theorems about Urls, Mounts and Routing: what normalize_path leaves of  *)
(* a path, that a URL is read as it is printed, and that NO_PROXY decides  *)
(* for every host, whatever the texts, base URLs and settings are.         *)
(***************************************************************************)
EXTENDS Routing, SequenceLemmas

-----------------------------------------------------------------------------
(***************************************************************************)
(* normalize_path and urljoin, piece by piece.                             *)
(***************************************************************************)
LEMMA DescendTyped ==
  ASSUME NEW S, NEW s \in Seq(S), NEW p \in S
  PROVE  Descend(s, p) \in Seq(S) /\ Climb(s, p) \in Seq(S)
<1>1. Append(s, p) \in Seq(S)
  OBVIOUS
<1>2. s # << >> => Front(s) \in Seq(S)
  BY FrontOf
<1>3. QED BY <1>1, <1>2 DEF Descend, Climb

\* What normalize_path has in output after each component.
DescendsBy(s, g) ==
  /\ g[0] = << >>
  /\ \A m \in 1 .. Len(s) : g[m] = Descend(g[m - 1], s[m])
  /\ FoldLeft(Descend, << >>, s) = g[Len(s)]

\* The fold of normalize_path is its loop: there is a list of what output was, from first to last.
LEMMA DescendRuns ==
  ASSUME NEW S, NEW s \in Seq(S)
  PROVE  \E g : DescendsBy(s, g) /\ \A m \in 0 .. Len(s) : g[m] \in Seq(S)
<1> DEFINE n == Len(s)
           A == Seq(S)
           F == [p \in A \X S |-> Descend(p[1], p[2])]
           Runs(d) == d = [T \in SUBSET (1 .. n) |->
                             IF T = {} THEN << >> ELSE Descend(d[T \ {Max(T)}], s[Max(T)])]
           it == CHOOSE d : Runs(d)
<1>1. n \in Nat /\ DOMAIN s = 1 .. n /\ \A i \in 1 .. n : s[i] \in S
  OBVIOUS
<1>2. << >> \in A
  BY EmptySeq
<1>3. F \in [A \X S -> A]
  BY DescendTyped
<1>4. \A x \in A, y \in S : F[<<x, y>>] = Descend(x, y)
  OBVIOUS
<1> HIDE DEF A, F, n
<1>5. PICK f : TypedFolded(A, F, << >>, s, n, f)
  <2>1. \E f : TypedFolded(A, F, << >>, s, n, f)
    BY <1>1, <1>2, <1>3, TypedFold
  <2>2. QED BY <2>1
<1> USE DEF TypedFolded
<1>9. Runs(f)
  <2>1. \A T \in SUBSET (1 .. n) : T # {} => f[T] = Descend(f[T \ {Max(T)}], s[Max(T)])
    BY <1>1, <1>4, <1>5
  <2>2. QED BY <1>5, <2>1
<1>10. Runs(it)
  BY <1>9, Zenon
<1>11. FoldLeft(Descend, << >>, s) = it[1 .. n]
  BY <1>1 DEF FoldLeft, MapThenFoldSet
<1> HIDE DEF it
<1>12. it[{}] = << >> /\ \A T \in SUBSET (1 .. n) : T # {} => it[T] = Descend(it[T \ {Max(T)}], s[Max(T)])
  <2>1. {} \in SUBSET (1 .. n)
    OBVIOUS
  <2>2. \A T \in SUBSET (1 .. n) : it[T] = IF T = {} THEN << >> ELSE Descend(it[T \ {Max(T)}], s[Max(T)])
    <3>1. ASSUME NEW T \in SUBSET (1 .. n)
          PROVE  it[T] = [W \in SUBSET (1 .. n) |->
                            IF W = {} THEN << >> ELSE Descend(it[W \ {Max(W)}], s[Max(W)])][T]
      BY <1>10, Zenon
    <3>2. QED BY <3>1
  <2>3. QED BY <2>1, <2>2
<1>13. \A T \in SUBSET (1 .. n) : T # {} /\ it[T \ {Max(T)}] \in A => it[T] = F[<<it[T \ {Max(T)}], s[Max(T)]>>]
  BY <1>1, <1>4, <1>5, <1>12
<1>14. /\ \A m \in 0 .. n : it[1 .. m] \in A
       /\ \A m \in 1 .. n : it[1 .. m] = F[<<it[1 .. (m - 1)], s[m]>>]
  <2>1. FoldSteps(A, S, F, << >>, s, n, it)
    BY <1>1, <1>2, <1>3, <1>12, <1>13 DEF FoldSteps
  <2>2. QED BY <2>1, FoldAgrees
<1> DEFINE g == [m \in 0 .. n |-> it[1 .. m]]
<1>15. \A m \in 0 .. n : g[m] \in Seq(S)
  BY <1>14 DEF A
<1>16. g[0] = << >>
  <2>1. 1 .. 0 = {} /\ 0 \in 0 .. n
    BY <1>1
  <2>2. QED BY <1>12, <2>1
<1>17. \A m \in 1 .. n : g[m] = Descend(g[m - 1], s[m])
  <2>1. \A m \in 1 .. n : m \in 0 .. n /\ m - 1 \in 0 .. n
    BY <1>1
  <2>2. QED BY <1>1, <1>4, <1>14, <2>1
<1>18. g[n] = it[1 .. n]
  BY <1>1
<1> HIDE DEF g
<1>19. QED BY <1>11, <1>15, <1>16, <1>17, <1>18 DEF DescendsBy, n

\* The words of a path without "." and "..".
Clean(path) == \A i \in DOMAIN path : path[i] # Dot /\ path[i] # DotDot
\* validate_path lets only these follow an authority.
FromRoot(path) == path = <<Empty>> \/ Rooted(path)

\* The three words that paths treat apart are pieces, and "" is none of the others.
LEMMA PieceTypes ==
  /\ Empty \in Piece /\ Dot \in Piece /\ DotDot \in Piece
  /\ Empty # Dot /\ Empty # DotDot
<1>1. None \in Port
  BY DEF Port
<1>2. "" \in Word /\ "." \in Word /\ ".." \in Word
  BY DEF Word
<1>3. Empty \in Piece /\ Dot \in Piece /\ DotDot \in Piece
  BY <1>1, <1>2 DEF Empty, Dot, DotDot, Seg, Piece
<1>4. "" # "." /\ "" # ".."
  OBVIOUS
<1>5. \A a, b : a # b => <<a, None>> # <<b, None>>
  OBVIOUS
<1>6. QED BY <1>3, <1>4, <1>5 DEF Empty, Dot, DotDot, Seg

\* A step of normalize_path: what is there already is cut by one or gets one more.
LEMMA DescendCases ==
  ASSUME NEW S, NEW s \in Seq(S), NEW p \in S
  PROVE  \/ Descend(s, p) = s
         \/ p # Dot /\ p # DotDot /\ Descend(s, p) = Append(s, p)
         \/ s # << >> /\ s # <<Empty>> /\ p = DotDot /\ Descend(s, p) = Front(s)
  BY DEF Descend

\* No step brings a "." or a ".." into the output.
LEMMA DescendClean ==
  ASSUME NEW s \in Seq(Piece), NEW p \in Piece, Clean(s)
  PROVE  Clean(Descend(s, p))
<1>1. DOMAIN s = 1 .. Len(s)
  OBVIOUS
<1>2. CASE p # Dot /\ p # DotDot /\ Descend(s, p) = Append(s, p)
  <2>1. DOMAIN Append(s, p) = 1 .. (Len(s) + 1)
    BY AppendOf
  <2>2. \A i \in 1 .. (Len(s) + 1) : i \in 1 .. Len(s) \/ i = Len(s) + 1
    OBVIOUS
  <2>3. QED BY <1>1, <1>2, <2>1, <2>2, AppendOf DEF Clean
<1>3. CASE s # << >> /\ Descend(s, p) = Front(s)
  <2>1. DOMAIN Front(s) = 1 .. (Len(s) - 1) /\ \A i \in 1 .. (Len(s) - 1) : Front(s)[i] = s[i]
    BY <1>3, FrontOf
  <2>2. \A i \in 1 .. (Len(s) - 1) : i \in 1 .. Len(s)
    OBVIOUS
  <2>3. QED BY <1>1, <1>3, <2>1, <2>2 DEF Clean
<1>4. QED BY <1>2, <1>3, DescendCases

\* Below the root the root stays.
LEMMA DescendRooted ==
  ASSUME NEW s \in Seq(Piece), NEW p \in Piece, s # << >>, s[1] = Empty
  PROVE  Descend(s, p) # << >> /\ Descend(s, p)[1] = Empty
<1>1. Len(s) \in Nat \ {0}
  BY EmptySeq
<1>2. CASE Descend(s, p) = Append(s, p)
  <2>1. Append(s, p)[1] = s[1] /\ Len(Append(s, p)) # 0 /\ Len(<< >>) = 0
    BY <1>1, AppendOf, EmptySeq
  <2>2. QED BY <1>2, <2>1
<1>3. CASE s # <<Empty>> /\ Descend(s, p) = Front(s)
  <2>1. Len(s) # 1
    <3>1. Len(s) = 1 => s = <<Empty>>
      OBVIOUS
    <3>2. QED BY <1>3, <3>1
  <2>2. 1 \in 1 .. (Len(s) - 1) /\ Len(s) - 1 # 0
    <3> DEFINE k == Len(s)
    <3>1. k \in Nat /\ k # 0 /\ k # 1
      BY <1>1, <2>1
    <3> HIDE DEF k
    <3>2. 1 \in 1 .. (k - 1) /\ k - 1 # 0
      BY <3>1
    <3>3. QED BY <3>2 DEF k
  <2>3. Front(s)[1] = s[1] /\ Len(Front(s)) = Len(s) - 1 /\ Len(<< >>) = 0
    BY <2>2, FrontOf, EmptySeq
  <2>4. QED BY <1>3, <2>2, <2>3
<1>4. QED BY <1>2, <1>3, DescendCases

\* normalize_path leaves no "." and "..", stays below the root, and has nothing to do
\* with what it has made.
LEMMA Normalized ==
  ASSUME NEW path \in Seq(Piece)
  PROVE  /\ NormalizePath(path) \in Seq(Piece) \ {<< >>}
         /\ Clean(NormalizePath(path))
         /\ FromRoot(path) => FromRoot(NormalizePath(path))
<1> DEFINE n == Len(path)
<1>1. PICK g : DescendsBy(path, g) /\ \A m \in 0 .. n : g[m] \in Seq(Piece)
  BY DescendRuns
<1>2. n \in Nat /\ \A m \in 1 .. n : path[m] \in Piece
  OBVIOUS
<1>3. 0 .. n \subseteq {m \in 0 .. n : Clean(g[m])}
  <2> DEFINE C == {m \in 0 .. n : Clean(g[m])}
  <2>1. 0 \in C
    <3>1. g[0] = << >> /\ 0 \in 0 .. n
      BY <1>1, <1>2 DEF DescendsBy
    <3>2. DOMAIN << >> = {}
      OBVIOUS
    <3>3. QED BY <3>1, <3>2 DEF Clean
  <2>2. ASSUME NEW m \in 0 .. (n - 1), m \in C PROVE m + 1 \in C
    <3>1. m + 1 \in 1 .. n /\ m + 1 \in 0 .. n /\ m \in 0 .. n /\ (m + 1) - 1 = m
      BY <1>2
    <3>2. g[m + 1] = Descend(g[m], path[m + 1])
      BY <1>1, <3>1 DEF DescendsBy
    <3>3. g[m] \in Seq(Piece) /\ path[m + 1] \in Piece /\ Clean(g[m])
      BY <1>1, <1>2, <2>2, <3>1
    <3>4. Clean(Descend(g[m], path[m + 1]))
      BY <3>3, DescendClean
    <3>5. QED BY <3>1, <3>2, <3>4
  <2> HIDE DEF C, n
  <2>3. QED BY <1>2, <2>1, <2>2, FirstNumbers DEF C
<1>4. n \in 0 .. n
  BY <1>2
<1>5. g[n] \in Seq(Piece) /\ Clean(g[n]) /\ NormalizePath(path) = Joined(g[n])
  BY <1>1, <1>3, <1>4 DEF NormalizePath, DescendsBy
<1>6. <<Empty>> \in Seq(Piece) \ {<< >>} /\ Clean(<<Empty>>)
  <2>1. <<Empty>> \in Seq(Piece) /\ Len(<<Empty>>) = 1 /\ Len(<< >>) = 0
    BY PieceTypes
  <2>2. \A i \in DOMAIN <<Empty>> : <<Empty>>[i] = Empty
    OBVIOUS
  <2>3. QED BY <2>1, <2>2, PieceTypes DEF Clean
<1>7. ASSUME FromRoot(path) PROVE FromRoot(NormalizePath(path))
  <2>1. n # 0 /\ path[1] = Empty
    BY <1>7 DEF FromRoot, Rooted
  <2> DEFINE C == {m \in 0 .. n : m = 0 \/ (g[m] # << >> /\ g[m][1] = Empty)}
  <2>2. 0 \in C
    BY <1>2
  <2>3. ASSUME NEW m \in 0 .. (n - 1), m \in C PROVE m + 1 \in C
    <3>1. m + 1 \in 1 .. n /\ m + 1 \in 0 .. n /\ m \in 0 .. n /\ (m + 1) - 1 = m
      BY <1>2
    <3>2. g[m + 1] = Descend(g[m], path[m + 1]) /\ g[0] = << >>
      BY <1>1, <3>1 DEF DescendsBy
    <3>3. g[m] \in Seq(Piece) /\ path[m + 1] \in Piece
      BY <1>1, <1>2, <3>1
    <3>4. CASE m = 0
      <4>1. g[m + 1] = Append(<< >>, Empty)
        <5>1. g[m + 1] = Descend(<< >>, Empty)
          BY <2>1, <3>2, <3>4
        <5>2. QED BY <5>1, PieceTypes DEF Descend
      <4>2. Append(<< >>, Empty) = <<Empty>> /\ <<Empty>>[1] = Empty
        OBVIOUS
      <4>3. QED BY <1>6, <3>1, <4>1, <4>2
    <3>5. CASE m # 0
      <4>1. g[m] # << >> /\ g[m][1] = Empty
        BY <2>3, <3>5
      <4>2. Descend(g[m], path[m + 1]) # << >> /\ Descend(g[m], path[m + 1])[1] = Empty
        BY <3>3, <4>1, DescendRooted
      <4>3. QED BY <3>1, <3>2, <4>2
    <3>6. QED BY <3>4, <3>5
  <2>4. n \in C
    <3> HIDE DEF C, n
    <3>1. 0 .. n \subseteq C
      BY <1>2, <2>2, <2>3, FirstNumbers
    <3>2. QED BY <1>4, <3>1
  <2>5. g[n] # << >> /\ g[n][1] = Empty
    BY <2>1, <2>4
  <2>6. Len(g[n]) \in Nat \ {0}
    BY <1>5, <2>5, EmptySeq
  <2>7. Len(g[n]) = 1 => g[n] = <<Empty>>
    BY <1>5, <2>5
  <2>8. QED BY <1>5, <2>5, <2>6, <2>7 DEF Joined, FromRoot, Rooted
<1>8. QED BY <1>5, <1>6, <1>7 DEF Joined

\* A path without "." and ".." is left as it is: normalizing twice changes nothing.
LEMMA NormalizedOnce ==
  ASSUME NEW path \in Seq(Piece) \ {<< >>}, Clean(path)
  PROVE  NormalizePath(path) = path
<1> DEFINE n == Len(path)
<1>1. PICK g : DescendsBy(path, g) /\ \A m \in 0 .. n : g[m] \in Seq(Piece)
  BY DescendRuns
<1>2. n \in Nat /\ \A m \in 1 .. n : path[m] \in Piece
  OBVIOUS
<1> DEFINE D == {m \in 0 .. n : g[m] = SubSeq(path, 1, m)}
<1>3. 0 \in D
  <2>1. g[0] = << >> /\ 0 \in 0 .. n
    BY <1>1, <1>2 DEF DescendsBy
  <2>2. SubSeq(path, 1, 0) = << >>
    BY SubSeqEmpty
  <2>3. QED BY <2>1, <2>2
<1>4. ASSUME NEW m \in 0 .. (n - 1), m \in D PROVE m + 1 \in D
  <2>1. m + 1 \in 1 .. n /\ m + 1 \in 0 .. n /\ m \in 0 .. n /\ (m + 1) - 1 = m
    BY <1>2
  <2>2. g[m + 1] = Descend(g[m], path[m + 1])
    BY <1>1, <2>1 DEF DescendsBy
  <2>3. path[m + 1] # Dot /\ path[m + 1] # DotDot
    BY <2>1 DEF Clean
  <2>4. g[m + 1] = Append(SubSeq(path, 1, m), path[m + 1])
    BY <1>4, <2>2, <2>3 DEF Descend
  <2>5. SubSeq(path, 1, m + 1) = Append(SubSeq(path, 1, m), path[m + 1])
    <3>1. SubSeq(path, 1, m + 1) = SubSeq(path, 1, (m + 1) - 1) \o <<path[m + 1]>>
      <4>1. 1 \in 1 .. Len(path) /\ m + 1 \in 1 .. Len(path)
        BY <2>1
      <4>2. QED BY <4>1, SubSeqRecursiveSecond
    <3>2. SubSeq(path, 1, m) \in Seq(Piece) /\ path[m + 1] \in Piece
      BY <1>1, <1>4, <2>1, <1>2
    <3>3. QED BY <2>1, <3>1, <3>2, AppendIsConcat
  <2>6. QED BY <2>1, <2>4, <2>5
<1>5. n \in D
  <2> HIDE DEF D, n
  <2>1. 0 .. n \subseteq D
    BY <1>2, <1>3, <1>4, FirstNumbers
  <2>2. n \in 0 .. n
    BY <1>2
  <2>3. QED BY <2>1, <2>2
<1>6. SubSeq(path, 1, n) = path
  BY SubSeqFull
<1>7. QED BY <1>1, <1>5, <1>6 DEF NormalizePath, DescendsBy, Joined

-----------------------------------------------------------------------------
(***************************************************************************)
(* URLs: composed, printed, read again, joined.                            *)
(***************************************************************************)
\* A URL as urlparse leaves it.
Good(u) ==
  /\ u \in URL
  /\ u.port = NormalizePort(u.port, u.scheme)
  /\ u.scheme # "" \/ u.host # "" \/ u.port # None => Clean(u.path)
  /\ u.host # "" \/ u.port # None => FromRoot(u.path)
  /\ u.scheme = "" /\ u.host = "" /\ u.port = None => ~TwoSlashes(u.path)

\* The default port of a scheme is dropped, any other is kept, and dropping twice is dropping once.
LEMMA PortTypes ==
  ASSUME NEW port \in Port, NEW scheme
  PROVE  /\ NormalizePort(port, scheme) \in Port
         /\ NormalizePort(NormalizePort(port, scheme), scheme) = NormalizePort(port, scheme)
         /\ port = None => NormalizePort(port, scheme) = None
  BY DEF NormalizePort, Port

\* u is those components, validated and normalized.
Of(u, scheme, host, port, path) ==
  /\ Good(u) /\ u.scheme = scheme /\ u.host = host
  /\ u.port = NormalizePort(port, scheme)
  /\ host # "" => u.path = NormalizePath(path) /\ FromRoot(path)

\* What urlparse returns when it does not raise InvalidURL.
LEMMA Composed ==
  ASSUME NEW scheme \in Word, NEW host \in Word, NEW port \in Port,
         NEW path \in Seq(Piece) \ {<< >>}
  PROVE  \/ Compose(scheme, host, port, path) = Invalid
         \/ Of(Compose(scheme, host, port, path), scheme, host, port, path)
<1> DEFINE p == NormalizePort(port, scheme)
           q == IF scheme # "" \/ host # "" \/ p # None THEN NormalizePath(path) ELSE path
           u == [scheme |-> scheme, host |-> host, port |-> p, path |-> q]
<1>1. p \in Port /\ NormalizePort(p, scheme) = p
  BY PortTypes
<1>2. /\ NormalizePath(path) \in Seq(Piece) \ {<< >>} /\ Clean(NormalizePath(path))
      /\ FromRoot(path) => FromRoot(NormalizePath(path))
  BY Normalized
<1> HIDE DEF p
<1>3. q \in Seq(Piece) \ {<< >>}
  BY <1>2
<1> DEFINE ok == ValidPath(path, scheme # "", host # "" \/ p # None)
<1>4. Compose(scheme, host, port, path) = IF ~ok THEN Invalid ELSE u
  BY Zenon DEF Compose, p
<1>5. ok /\ (host # "" \/ p # None) => FromRoot(path)
  BY DEF ValidPath, FromRoot
<1>6. scheme # "" \/ host # "" \/ p # None => q = NormalizePath(path)
  OBVIOUS
<1>11. ok /\ scheme = "" /\ host = "" /\ p = None => ~TwoSlashes(q)
  BY DEF ValidPath
<1> HIDE DEF ok, q
<1>7. u \in URL
  BY <1>1, <1>3 DEF URL
<1>8. ok => Good(u)
  BY <1>1, <1>2, <1>5, <1>6, <1>7, <1>11 DEF Good
<1>9. /\ u.scheme = scheme /\ u.host = host /\ u.port = p /\ u.path = q
      /\ ok /\ host # "" => q = NormalizePath(path) /\ FromRoot(path)
  BY <1>5, <1>6
<1> HIDE DEF u
<1>10. QED BY <1>4, <1>8, <1>9 DEF p, Of

\* The places of a URL's text.
LEMMA TextTypes ==
  ASSUME NEW t \in WrittenURL
  PROVE  /\ t.scheme \in Word /\ t.rest \in Seq(Piece) /\ t.rest # << >> /\ Len(t.rest) \in Nat \ {0}
         /\ TwoSlashes(t.rest) => /\ t.rest[3][1] \in Word /\ t.rest[3][2] \in Port
                                  /\ <<Empty>> \o SubSeq(t.rest, 4, Len(t.rest)) \in Seq(Piece) \ {<< >>}
<1>1. t.scheme \in Word /\ t.rest \in Seq(Piece) /\ t.rest # << >>
  BY DEF WrittenURL
<1>2. Len(t.rest) \in Nat \ {0}
  BY <1>1, EmptySeq
<1>3. ASSUME TwoSlashes(t.rest)
      PROVE  /\ t.rest[3][1] \in Word /\ t.rest[3][2] \in Port
             /\ <<Empty>> \o SubSeq(t.rest, 4, Len(t.rest)) \in Seq(Piece) \ {<< >>}
  <2>1. Len(t.rest) > 2
    BY <1>3 DEF TwoSlashes
  <2>2. t.rest[3] \in Piece
    <3>1. 3 \in 1 .. Len(t.rest)
      BY <1>2, <2>1
    <3>2. QED BY <1>1, <3>1
  <2> DEFINE r == SubSeq(t.rest, 4, Len(t.rest))
  <2>3. r \in Seq(Piece)
    <3>1. \A i \in 4 .. Len(t.rest) : t.rest[i] \in Piece
      BY <1>1, <1>2
    <3>2. 4 \in Int /\ Len(t.rest) \in Int
      BY <1>2
    <3>3. QED BY <3>1, <3>2, SubSeqProperties
  <2>4. <<Empty>> \in Seq(Piece) /\ <<Empty>> # << >>
    BY PieceTypes
  <2> HIDE DEF r
  <2>5. <<Empty>> \o r \in Seq(Piece) /\ <<Empty>> \o r # << >>
    BY <2>3, <2>4, ConcatProperties, ConcatEqualIffEmpty
  <2>6. t.rest[3][1] \in Word /\ t.rest[3][2] \in Port
    BY <2>2 DEF Piece
  <2>7. QED BY <2>5, <2>6 DEF r
<1>4. QED BY <1>1, <1>2, <1>3

\* urlparse makes such URLs.
LEMMA Parsed ==
  ASSUME NEW t \in WrittenURL, Parse(t) # Invalid
  PROVE  IF TwoSlashes(t.rest)
         THEN Of(Parse(t), t.scheme, t.rest[3][1], t.rest[3][2],
                 <<Empty>> \o SubSeq(t.rest, 4, Len(t.rest)))
         ELSE Of(Parse(t), t.scheme, "", None, t.rest) /\ Parse(t).port = None
<1> DEFINE path == <<Empty>> \o SubSeq(t.rest, 4, Len(t.rest))
<1>1. CASE TwoSlashes(t.rest)
  <2>1. Parse(t) = Compose(t.scheme, t.rest[3][1], t.rest[3][2], path)
    BY <1>1 DEF Parse
  <2>2. /\ t.scheme \in Word /\ t.rest[3][1] \in Word /\ t.rest[3][2] \in Port
        /\ path \in Seq(Piece) \ {<< >>}
    BY <1>1, TextTypes
  <2> HIDE DEF path
  <2>3. Of(Parse(t), t.scheme, t.rest[3][1], t.rest[3][2], path)
    BY <2>1, <2>2, Composed
  <2>4. QED BY <1>1, <2>3 DEF path
<1>2. CASE ~TwoSlashes(t.rest)
  <2>1. Parse(t) = Compose(t.scheme, "", None, t.rest)
    BY <1>2 DEF Parse
  <2>2. t.scheme \in Word /\ t.rest \in Seq(Piece) \ {<< >>}
    BY TextTypes
  <2>3. "" \in Word /\ None \in Port
    BY DEF Port, Word
  <2>4. Of(Parse(t), t.scheme, "", None, t.rest)
    BY <2>1, <2>2, <2>3, Composed
  <2>5. NormalizePort(None, t.scheme) = None
    BY <2>3, PortTypes
  <2>6. QED BY <1>2, <2>4, <2>5 DEF Of
<1>3. QED BY <1>1, <1>2

\* A text with the authority and behind it the path.
AuthorityFirst(r, host, port, path) ==
  /\ TwoSlashes(r) /\ r[3][1] = host /\ r[3][2] = port
  /\ SubSeq(r, 4, Len(r)) = Tail(path)

\* What follows the authority in the text of a URL.
LEMMA AfterTypes ==
  ASSUME NEW host \in Word, NEW port \in Port, NEW path \in Seq(Piece) \ {<< >>}
  PROVE  /\ After(Authority(host, port), path) \in Seq(Piece) \ {<< >>}
         /\ host # "" \/ port # None =>
              AuthorityFirst(After(Authority(host, port), path), host, port, path)
<1>1. CASE host = "" /\ port = None
  BY <1>1 DEF Authority, After
<1>2. CASE host # "" \/ port # None
  <2> DEFINE a == <<Empty, Empty, <<host, port>> >>
             tl == Tail(path)
             r == a \o tl
  <2>1. tl \in Seq(Piece)
    BY HeadTailProperties
  <2>2. <<host, port>> \in Piece
    BY DEF Piece
  <2>3. a \in Seq(Piece) /\ Len(a) = 3 /\ a[1] = Empty /\ a[2] = Empty /\ a[3] = <<host, port>>
    <3> DEFINE third == <<host, port>>
    <3>1. third \in Piece /\ Empty \in Piece
      BY <2>2, PieceTypes
    <3> HIDE DEF third
    <3>2. <<Empty, Empty, third>> \in Seq(Piece)
      BY <3>1
    <3>3. QED BY <3>2 DEF third
  <2>4. Authority(host, port) = a /\ a # << >>
    BY <1>2, <2>3 DEF Authority
  <2>5. After(Authority(host, port), path) = r
    BY <2>4 DEF After
  <2> HIDE DEF a, tl
  <2>6. /\ r \in Seq(Piece) /\ Len(r) = 3 + Len(tl) /\ Len(tl) \in Nat
        /\ \A i \in 1 .. (3 + Len(tl)) : r[i] = IF i <= 3 THEN a[i] ELSE tl[i - 3]
    <3>1. /\ r \in Seq(Piece) /\ Len(r) = Len(a) + Len(tl)
          /\ \A i \in 1 .. (Len(a) + Len(tl)) : r[i] = IF i <= Len(a) THEN a[i] ELSE tl[i - Len(a)]
      BY <2>1, <2>3, ConcatProperties
    <3>2. Len(tl) \in Nat /\ Len(a) = 3
      BY <2>1, <2>3
    <3> HIDE DEF r
    <3>3. QED BY <3>1, <3>2
  <2> HIDE DEF r
  <2>7. r[1] = Empty /\ r[2] = Empty /\ r[3] = <<host, port>> /\ Len(r) > 2
    <3>1. 1 \in 1 .. (3 + Len(tl)) /\ 2 \in 1 .. (3 + Len(tl)) /\ 3 \in 1 .. (3 + Len(tl))
      BY <2>6
    <3>2. r[1] = a[1] /\ r[2] = a[2] /\ r[3] = a[3] /\ Len(r) > 2
      BY <2>6, <3>1
    <3>3. QED BY <2>3, <3>2
  <2>8. SubSeq(r, 4, Len(r)) = tl
    <3>1. /\ SubSeq(r, 4, Len(r)) \in Seq(Piece)
          /\ Len(SubSeq(r, 4, Len(r))) = IF 4 <= Len(r) THEN Len(r) - 4 + 1 ELSE 0
          /\ \A i \in 1 .. Len(r) - 4 + 1 : SubSeq(r, 4, Len(r))[i] = r[4 + i - 1]
      <4>1. 4 \in Int /\ Len(r) \in Int /\ \A i \in 4 .. Len(r) : r[i] \in Piece
        BY <2>6
      <4>2. QED BY <4>1, SubSeqProperties
    <3>2. Len(SubSeq(r, 4, Len(r))) = Len(tl)
      BY <2>6, <3>1
    <3>3. \A i \in 1 .. Len(tl) : SubSeq(r, 4, Len(r))[i] = tl[i]
      <4>1. ASSUME NEW i \in 1 .. Len(tl) PROVE SubSeq(r, 4, Len(r))[i] = tl[i]
        <5>1. /\ i \in 1 .. Len(r) - 4 + 1 /\ 4 + i - 1 \in 1 .. (3 + Len(tl))
              /\ ~ (4 + i - 1 <= 3) /\ (4 + i - 1) - 3 = i
          BY <2>6
        <5>2. QED BY <2>6, <3>1, <5>1
      <4>2. QED BY <4>1
    <3>4. QED BY <2>1, <3>1, <3>2, <3>3, SeqEqual
  <2>9. r # << >>
    BY <2>7, EmptySeq
  <2>10. r[3][1] = host /\ r[3][2] = port
    BY <2>7
  <2>11. AuthorityFirst(r, host, port, path)
    BY <2>7, <2>8, <2>10 DEF TwoSlashes, tl, AuthorityFirst
  <2>12. QED BY <2>5, <2>6, <2>9, <2>11
<1>3. QED BY <1>1, <1>2

\* The slashes of a path that was written behind an authority are read again as the path.
LEMMA RootAgain ==
  ASSUME NEW path \in Seq(Piece), FromRoot(path)
  PROVE  <<Empty>> \o Tail(path) = path
<1>1. path # << >> /\ path[1] = Empty /\ Len(path) \in Nat \ {0}
  <2>1. <<Empty>>[1] = Empty /\ Len(<<Empty>>) = 1
    OBVIOUS
  <2>2. Len(path) \in Nat /\ Len(<< >>) = 0
    OBVIOUS
  <2>3. path[1] = Empty /\ Len(path) # 0
    BY <2>1, <2>2 DEF FromRoot, Rooted
  <2>4. QED BY <2>2, <2>3
<1> DEFINE n == Len(path)
<1>2. 1 \in 1 .. n /\ n \in 1 .. n
  BY <1>1
<1>3. SubSeq(path, 1, n) = <<path[1]>> \o SubSeq(path, 1 + 1, n)
  BY <1>2, SubSeqRecursiveFirst
<1>4. SubSeq(path, 1, n) = path /\ Tail(path) = SubSeq(path, 2, n)
  BY <1>1, SubSeqFull, TailIsSubSeq
<1>5. QED BY <1>1, <1>3, <1>4

\* str(url) of a URL with a host or a port, read again.
LEMMA ReadAgain ==
  ASSUME NEW u, Good(u), u.host # "" \/ u.port # None
  PROVE  Parse(Str(u)) = u
<1>1. /\ u.scheme \in Word /\ u.host \in Word /\ u.port \in Port
      /\ u.path \in Seq(Piece) \ {<< >>}
      /\ u = [scheme |-> u.scheme, host |-> u.host, port |-> u.port, path |-> u.path]
  BY DEF Good, URL
<1> DEFINE r == After(Authority(u.host, u.port), u.path)
           t == Str(u)
<1>2. TwoSlashes(r) /\ r[3][1] = u.host /\ r[3][2] = u.port /\ SubSeq(r, 4, Len(r)) = Tail(u.path)
  <2>1. AuthorityFirst(r, u.host, u.port, u.path)
    BY <1>1, AfterTypes
  <2> HIDE DEF r
  <2>2. QED BY <2>1 DEF AuthorityFirst
<1>3. t.scheme = u.scheme /\ t.rest = r
  BY DEF Str
<1> HIDE DEF r, t
<1>4. Parse(t) = Compose(u.scheme, u.host, u.port, <<Empty>> \o Tail(u.path))
  <2>1. Parse(t) = Compose(t.scheme, t.rest[3][1], t.rest[3][2], <<Empty>> \o SubSeq(t.rest, 4, Len(t.rest)))
    BY <1>2, <1>3 DEF Parse
  <2>2. QED BY <1>2, <1>3, <2>1
<1>5. FromRoot(u.path) /\ Clean(u.path) /\ NormalizePort(u.port, u.scheme) = u.port
  BY DEF Good
<1>6. <<Empty>> \o Tail(u.path) = u.path
  BY <1>1, <1>5, RootAgain
<1>7. NormalizePath(u.path) = u.path
  BY <1>1, <1>5, NormalizedOnce
<1>8. ValidPath(u.path, u.scheme # "", TRUE)
  BY <1>5 DEF ValidPath, FromRoot
<1>9. Compose(u.scheme, u.host, u.port, u.path) = u
  <2>1. (u.host # "" \/ u.port # None) = TRUE
    OBVIOUS
  <2>2. QED BY <1>1, <1>5, <1>7, <1>8, <2>1 DEF Compose
<1>10. QED BY <1>4, <1>6, <1>9 DEF t

\* What the loop of urljoin leaves are pieces.
LEMMA ClimbTyped ==
  ASSUME NEW S, NEW s \in Seq(S)
  PROVE  FoldLeft(Climb, << >>, s) \in Seq(S)
<1> DEFINE n == Len(s)
           A == Seq(S)
           F == [p \in A \X S |-> Climb(p[1], p[2])]
           Runs(d) == d = [T \in SUBSET (1 .. n) |->
                             IF T = {} THEN << >> ELSE Climb(d[T \ {Max(T)}], s[Max(T)])]
           it == CHOOSE d : Runs(d)
<1>1. n \in Nat /\ DOMAIN s = 1 .. n /\ \A i \in 1 .. n : s[i] \in S
  OBVIOUS
<1>2. << >> \in A
  BY EmptySeq
<1>3. F \in [A \X S -> A]
  BY DescendTyped
<1>4. \A x \in A, y \in S : F[<<x, y>>] = Climb(x, y)
  OBVIOUS
<1> HIDE DEF A, F, n
<1>5. PICK f : TypedFolded(A, F, << >>, s, n, f)
  <2>1. \E f : TypedFolded(A, F, << >>, s, n, f)
    BY <1>1, <1>2, <1>3, TypedFold
  <2>2. QED BY <2>1
<1> USE DEF TypedFolded
<1>9. Runs(f)
  <2>1. \A T \in SUBSET (1 .. n) : T # {} => f[T] = Climb(f[T \ {Max(T)}], s[Max(T)])
    BY <1>1, <1>4, <1>5
  <2>2. QED BY <1>5, <2>1
<1>10. Runs(it)
  BY <1>9, Zenon
<1>11. FoldLeft(Climb, << >>, s) = it[1 .. n]
  BY <1>1 DEF FoldLeft, MapThenFoldSet
<1> HIDE DEF it
<1>12. it[{}] = << >> /\ \A T \in SUBSET (1 .. n) : T # {} => it[T] = Climb(it[T \ {Max(T)}], s[Max(T)])
  <2>1. {} \in SUBSET (1 .. n)
    OBVIOUS
  <2>2. \A T \in SUBSET (1 .. n) : it[T] = IF T = {} THEN << >> ELSE Climb(it[T \ {Max(T)}], s[Max(T)])
    <3>1. ASSUME NEW T \in SUBSET (1 .. n)
          PROVE  it[T] = [W \in SUBSET (1 .. n) |->
                            IF W = {} THEN << >> ELSE Climb(it[W \ {Max(W)}], s[Max(W)])][T]
      BY <1>10, Zenon
    <3>2. QED BY <3>1
  <2>3. QED BY <2>1, <2>2
<1>13. \A T \in SUBSET (1 .. n) : T # {} /\ it[T \ {Max(T)}] \in A => it[T] = F[<<it[T \ {Max(T)}], s[Max(T)]>>]
  BY <1>1, <1>4, <1>5, <1>12
<1>14. /\ \A m \in 0 .. n : it[1 .. m] \in A
       /\ \A m \in 1 .. n : it[1 .. m] = F[<<it[1 .. (m - 1)], s[m]>>]
  <2>1. FoldSteps(A, S, F, << >>, s, n, it)
    BY <1>1, <1>2, <1>3, <1>12, <1>13 DEF FoldSteps
  <2>2. QED BY <2>1, FoldAgrees
<1>15. n \in 0 .. n
  BY <1>1
<1>16. QED BY <1>11, <1>14, <1>15 DEF A


\* What urljoin makes of a path is one.
LEMMA ResolveTyped ==
  ASSUME NEW basePath \in Seq(Piece) \ {<< >>}, NEW path \in Seq(Piece) \ {<< >>}
  PROVE  Resolve(basePath, path) \in Seq(Piece) \ {<< >>}
<1> DEFINE directory == IF Last(basePath) = Empty THEN basePath ELSE Front(basePath)
           all == directory \o path
           K == {k \in 2..(Len(all) - 1) : all[k] # Empty}
           inner == Selected(all, K)
           segments == IF Rooted(path) THEN path ELSE <<all[1]>> \o inner \o <<Last(all)>>
           resolved == FoldLeft(Climb, <<>>, segments)
           closed == IF Last(segments) \in {Dot, DotDot} THEN Append(resolved, Empty) ELSE resolved
           result == CASE closed \in {<<>>, <<Empty>>} -> <<Empty, Empty>>
                       [] Rooted(closed) -> closed
                       [] OTHER -> <<Empty>> \o closed
<1>1. directory \in Seq(Piece)
  <2>1. Front(basePath) \in Seq(Piece)
    BY FrontOf
  <2>2. QED BY <2>1
<1> HIDE DEF directory
<1>2. all \in Seq(Piece) \ {<< >>}
  BY <1>1, ConcatProperties, ConcatEqualIffEmpty
<1> HIDE DEF all
<1>3. Len(all) \in Nat /\ Last(all) \in Piece /\ all[1] \in Piece
  BY <1>2, LastOf
<1>4. inner \in Seq(Piece)
  <2>1. K \in SUBSET (1 .. Len(all))
    BY <1>3
  <2> HIDE DEF K
  <2>2. Len(all) <= Len(all)
    BY <1>3
  <2>3. QED BY <1>2, <1>3, <2>1, <2>2, SelectedElements
<1> HIDE DEF inner
<1>5. segments \in Seq(Piece)
  <2>1. <<all[1]>> \in Seq(Piece) /\ <<Last(all)>> \in Seq(Piece)
    BY <1>3
  <2>2. <<all[1]>> \o inner \o <<Last(all)>> \in Seq(Piece)
    BY <1>4, <2>1, ConcatProperties
  <2>3. QED BY <2>2
<1> HIDE DEF segments
<1>6. resolved \in Seq(Piece)
  BY <1>5, ClimbTyped
<1> HIDE DEF resolved
<1>7. closed \in Seq(Piece)
  BY <1>6, PieceTypes
<1> HIDE DEF closed
<1>8. result \in Seq(Piece) \ {<< >>}
  <2>1. <<Empty>> \in Seq(Piece) /\ <<Empty, Empty>> \in Seq(Piece)
    BY PieceTypes
  <2>2. <<Empty>> # << >> /\ <<Empty, Empty>> # << >>
    OBVIOUS
  <2>3. <<Empty>> \o closed \in Seq(Piece) \ {<< >>}
    BY <1>7, <2>1, <2>2, ConcatProperties, ConcatEqualIffEmpty
  <2>4. closed \notin {<< >>, <<Empty>>} => closed # << >>
    OBVIOUS
  <2>5. Rooted(closed) => closed # << >>
    <3>1. Len(<< >>) = 0
      OBVIOUS
    <3>2. QED BY <3>1 DEF Rooted
  <2>6. CASE closed \in {<< >>, <<Empty>>}
    <3>1. Len(<< >>) = 0 /\ Len(<<Empty>>) = 1
      OBVIOUS
    <3>2. Len(closed) = 0 \/ Len(closed) = 1
      <4>1. closed = << >> \/ closed = <<Empty>>
        BY <2>6
      <4>2. QED BY <3>1, <4>1
    <3>4. ~Rooted(closed)
      <4>1. ~ (0 > 1) /\ ~ (1 > 1)
        OBVIOUS
      <4>2. ~ (Len(closed) > 1)
        BY <3>2, <4>1
      <4>3. QED BY <4>2, Zenon DEF Rooted
    <3>3. QED BY <2>1, <2>2, <2>6, <3>4
  <2>7. CASE closed \notin {<< >>, <<Empty>>}
    BY <1>7, <2>3, <2>4, <2>7
  <2>8. QED BY <2>6, <2>7
<1>9. Resolve(basePath, path) = result
  BY Zenon DEF Resolve, result, closed, resolved, segments, inner, K, all, directory
<1>10. QED BY <1>8, <1>9

\* A target has at least one slash.
LEMMA RawPathTyped ==
  ASSUME NEW u, Good(u)
  PROVE  RawPath(u) \in Seq(Piece) \ {<< >>}
<1>1. u.path \in Seq(Piece) \ {<< >>}
  BY DEF Good, URL
<1>2. <<Empty, Empty>> \in Seq(Piece) \ {<< >>}
  <2>1. <<Empty, Empty>> \in Seq(Piece)
    BY PieceTypes
  <2>2. QED BY <2>1
<1>3. QED BY <1>1, <1>2 DEF RawPath

\* lstrip("/") leaves at least one piece.
LEMMA StripTyped ==
  ASSUME NEW path \in Seq(Piece) \ {<< >>}
  PROVE  Strip(path) \in Seq(Piece) \ {<< >>}
<1> DEFINE n == Len(path)
           First(k) == /\ k = Len(path) \/ path[k] # Empty
                       /\ \A j \in 1..(k - 1) : path[j] = Empty
           Ends == {k \in 1 .. n : k = n \/ path[k] # Empty}
<1>1. n \in Nat \ {0} /\ DOMAIN path = 1 .. n /\ \A i \in 1 .. n : path[i] \in Piece
  BY LastOf
<1>2. \E k \in DOMAIN path : First(k)
  <2>1. n \in Ends /\ Ends \in SUBSET Nat
    BY <1>1
  <2>2. PICK k \in Ends : \A m \in Ends : k <= m
    <3> HIDE DEF Ends
    <3>1. QED BY <2>1, LeastNat
  <2>3. k \in 1 .. n /\ (k = n \/ path[k] # Empty)
    BY <2>2
  <2>4. \A j \in 1 .. (k - 1) : j \in 1 .. n /\ ~ (k <= j)
    <3>1. k \in 1 .. n /\ n \in Nat
      BY <1>1, <2>3
    <3> HIDE DEF n
    <3>2. QED BY <3>1
  <2>5. \A j \in 1 .. (k - 1) : path[j] = Empty
    BY <2>2, <2>4
  <2>6. QED BY <1>1, <2>3, <2>5
<1> DEFINE k == CHOOSE k \in DOMAIN path : First(k)
<1>3. k \in 1 .. n
  <2> HIDE DEF First
  <2>1. QED BY <1>1, <1>2
<1>4. Strip(path) = SubSeq(path, k, n)
  BY DEF Strip
<1> HIDE DEF k
<1>5. SubSeq(path, k, n) \in Seq(Piece) /\ Len(SubSeq(path, k, n)) # 0
  <2>1. k \in Int /\ n \in Int /\ k <= n /\ n - k + 1 # 0 /\ \A i \in k .. n : i \in 1 .. n
    BY <1>1, <1>3
  <2>2. \A i \in k .. n : path[i] \in Piece
    BY <1>1, <2>1
  <2>3. /\ SubSeq(path, k, n) \in Seq(Piece)
        /\ Len(SubSeq(path, k, n)) = IF k <= n THEN n - k + 1 ELSE 0
    BY <2>1, <2>2, SubSeqProperties
  <2>4. QED BY <2>1, <2>3
<1>6. QED BY <1>4, <1>5, EmptySeq

\* The base's path and a relative one, one behind the other, are a path.
LEMMA MergedPathTyped ==
  ASSUME NEW base, NEW u, Good(base), Good(u)
  PROVE  MergedPath(base, u) \in Seq(Piece) \ {<< >>}
<1>1. RawPath(base) \in Seq(Piece) \ {<< >>} /\ RawPath(u) \in Seq(Piece) \ {<< >>}
  BY RawPathTyped
<1>2. Front(RawPath(base)) \in Seq(Piece) /\ Strip(RawPath(u)) \in Seq(Piece) \ {<< >>}
  BY <1>1, FrontOf, StripTyped
<1>3. QED BY <1>2, ConcatProperties, ConcatEqualIffEmpty DEF MergedPath

\* The text of a URL can be parsed.
LEMMA StrTyped ==
  ASSUME NEW u, Good(u), NEW scheme \in Word
  PROVE  /\ Str(u) \in WrittenURL
         /\ [scheme |-> scheme, rest |-> Str(u).rest] \in WrittenURL
         /\ u.host # "" \/ u.port # None => AuthorityFirst(Str(u).rest, u.host, u.port, u.path)
<1>1. u.scheme \in Word /\ u.host \in Word /\ u.port \in Port /\ u.path \in Seq(Piece) \ {<< >>}
  BY DEF Good, URL
<1> DEFINE r == After(Authority(u.host, u.port), u.path)
<1>2. /\ r \in Seq(Piece) \ {<< >>}
      /\ u.host # "" \/ u.port # None => AuthorityFirst(r, u.host, u.port, u.path)
  BY <1>1, AfterTypes
<1>3. Str(u) = [scheme |-> u.scheme, rest |-> r]
  BY DEF Str
<1> HIDE DEF r
<1>4. Str(u).rest = r
  BY <1>3
<1>5. \A w \in Word : [scheme |-> w, rest |-> r] \in WrittenURL
  BY <1>2 DEF WrittenURL
<1>6. Str(u) \in WrittenURL /\ [scheme |-> scheme, rest |-> Str(u).rest] \in WrittenURL
  BY <1>1, <1>3, <1>4, <1>5
<1>7. QED BY <1>2, <1>4, <1>6

\* A URL prints an authority when it has a host or a port.
LEMMA AuthorityIs ==
  ASSUME NEW host, NEW port
  PROVE  Authority(host, port) # << >> <=> host # "" \/ port # None
<1>1. <<Empty, Empty, <<host, port>> >> # << >>
  OBVIOUS
<1>2. QED BY <1>1 DEF Authority

\* The base URL of a client: its path ends with a slash.
LEMMA SlashKept ==
  ASSUME NEW u, Good(u)
  PROVE  Good(EnforceTrailingSlash(u))
<1> DEFINE raw == RawPath(u)
           path == Append(raw, Empty)
<1>1. raw \in Seq(Piece) \ {<< >>}
  BY RawPathTyped
<1>2. CASE Last(raw) = Empty
  BY <1>2 DEF EnforceTrailingSlash
<1>3. CASE Last(raw) # Empty
  <2>1. Len(raw) \in Nat \ {0}
    BY <1>1, EmptySeq
  <2>2. raw = u.path
    <3>1. Last(<<Empty, Empty>>) = Empty
      BY DEF Last
    <3>2. QED BY <1>3, <3>1 DEF RawPath
  <2>3. /\ u.scheme \in Word /\ u.host \in Word /\ u.port \in Port
        /\ NormalizePort(u.port, u.scheme) = u.port
    BY DEF Good, URL
  <2> HIDE DEF raw
  <2>4. /\ path \in Seq(Piece) /\ Len(path) = Len(raw) + 1
        /\ \A i \in 1 .. Len(raw) : path[i] = raw[i]
    BY <1>1, PieceTypes, AppendOf
  <2>5. path # << >>
    BY <2>1, <2>4, EmptySeq
  <2>6. ValidPath(path, u.scheme # "", u.host # "" \/ u.port # None)
    <3>1. ASSUME u.host # "" \/ u.port # None PROVE Rooted(path)
      <4>1. FromRoot(raw)
        BY <2>2, <3>1 DEF Good
      <4>2. raw[1] = Empty
        <5>1. <<Empty>>[1] = Empty
          OBVIOUS
        <5>2. QED BY <4>1, <5>1 DEF FromRoot, Rooted
      <4>3. 1 \in 1 .. Len(raw) /\ Len(path) > 1
        BY <2>1, <2>4
      <4>4. QED BY <2>4, <4>2, <4>3 DEF Rooted
    <3>2. ASSUME u.scheme = "", u.host = "", u.port = None PROVE ~TwoSlashes(path)
      <4>1. ~TwoSlashes(raw)
        BY <2>2, <3>2 DEF Good
      <4>2. SUFFICES ASSUME TwoSlashes(path) PROVE FALSE
        OBVIOUS
      <4>3. Len(raw) >= 2 /\ path[1] = Empty /\ path[2] = Empty
        BY <2>1, <2>4, <4>2 DEF TwoSlashes
      <4>4. 1 \in 1 .. Len(raw) /\ 2 \in 1 .. Len(raw)
        BY <2>1, <4>3
      <4>5. raw[1] = Empty /\ raw[2] = Empty
        BY <2>4, <4>3, <4>4
      <4>6. Len(raw) # 2
        BY <1>3, <4>5 DEF Last
      <4>7. Len(raw) > 2
        <5>1. \A k \in Nat : k >= 2 /\ k # 2 => k > 2
          OBVIOUS
        <5>2. QED BY <2>1, <4>3, <4>6, <5>1
      <4>8. QED BY <4>1, <4>5, <4>7 DEF TwoSlashes
    <3>3. QED BY <3>1, <3>2 DEF ValidPath
  <2> HIDE DEF path
  <2>7. Compose(u.scheme, u.host, u.port, path) # Invalid
    <3>1. Compose(u.scheme, u.host, u.port, path) =
            [scheme |-> u.scheme, host |-> u.host, port |-> u.port,
             path |-> IF u.scheme # "" \/ u.host # "" \/ u.port # None THEN NormalizePath(path) ELSE path]
      BY <2>3, <2>6 DEF Compose
    <3>2. NormalizePath(path) \in Seq(Piece) \ {<< >>} /\ path \in Seq(Piece) \ {<< >>}
      BY <2>4, <2>5, Normalized
    <3> DEFINE q == IF u.scheme # "" \/ u.host # "" \/ u.port # None THEN NormalizePath(path) ELSE path
    <3>5. q \in Seq(Piece) \ {<< >>}
      BY <3>2
    <3>6. Compose(u.scheme, u.host, u.port, path) =
            [scheme |-> u.scheme, host |-> u.host, port |-> u.port, path |-> q]
      BY <3>1
    <3> HIDE DEF q
    <3>3. Compose(u.scheme, u.host, u.port, path) \in URL
      BY <2>3, <3>5, <3>6 DEF URL
    <3>4. QED BY <3>3, UrlAssumption
  <2>8. Of(Compose(u.scheme, u.host, u.port, path), u.scheme, u.host, u.port, path)
    BY <2>3, <2>4, <2>5, <2>7, Composed
  <2>9. QED BY <1>3, <2>8 DEF EnforceTrailingSlash, CopyWithPath, Of, path, raw
<1>4. QED BY <1>2, <1>3

\* A relative location, joined.
LEMMA JoinGood ==
  ASSUME NEW base, NEW u, Good(base), Good(u), Join(base, u) # Invalid,
         u.scheme \in {"", base.scheme}
  PROVE  /\ Good(Join(base, u)) /\ Join(base, u).scheme = base.scheme
         /\ u.host # "" => Join(base, u).host = u.host
         /\ u.host = "" /\ u.port = None /\ base.host # "" => Join(base, u).host = base.host
<1>1. base.scheme \in Word /\ base.host \in Word /\ base.port \in Port /\ base.path \in Seq(Piece) \ {<< >>}
  BY DEF Good, URL
<1>2. CASE u.host # "" \/ u.port # None
  <2> DEFINE t == [scheme |-> base.scheme, rest |-> Str(u).rest]
  <2>1. Join(base, u) = Parse(t)
    BY <1>2, AuthorityIs DEF Join
  <2>2. t \in WrittenURL /\ AuthorityFirst(Str(u).rest, u.host, u.port, u.path)
    BY <1>1, <1>2, StrTyped
  <2>3. t.scheme = base.scheme /\ TwoSlashes(t.rest) /\ t.rest[3][1] = u.host
    BY <2>2 DEF AuthorityFirst
  <2> HIDE DEF t
  <2>4. Of(Parse(t), t.scheme, t.rest[3][1], t.rest[3][2], <<Empty>> \o SubSeq(t.rest, 4, Len(t.rest)))
    BY <2>1, <2>2, <2>3, Parsed
  <2>5. Good(Join(base, u)) /\ Join(base, u).scheme = base.scheme /\ Join(base, u).host = u.host
    BY <2>1, <2>3, <2>4 DEF Of
  <2>6. QED BY <1>2, <2>5
<1>3. CASE u.host = "" /\ u.port = None
  <2> DEFINE path == IF u.path = <<Empty>> THEN base.path ELSE Resolve(base.path, u.path)
             r == After(Authority(base.host, base.port), path)
             t == [scheme |-> base.scheme, rest |-> r]
  <2>1. path \in Seq(Piece) \ {<< >>}
    <3>1. u.path \in Seq(Piece) \ {<< >>}
      BY DEF Good, URL
    <3>2. QED BY <1>1, <3>1, ResolveTyped
  <2>2. Join(base, u) = Parse(t)
    BY <1>3, AuthorityIs DEF Join
  <2> HIDE DEF path
  <2>3. /\ r \in Seq(Piece) \ {<< >>}
        /\ base.host # "" => AuthorityFirst(r, base.host, base.port, path)
    BY <1>1, <2>1, AfterTypes
  <2> HIDE DEF r
  <2>4. t \in WrittenURL /\ t.scheme = base.scheme /\ t.rest = r
    BY <1>1, <2>3 DEF WrittenURL
  <2> HIDE DEF t
  <2>5. /\ TwoSlashes(t.rest) => Of(Parse(t), t.scheme, t.rest[3][1], t.rest[3][2],
                                    <<Empty>> \o SubSeq(t.rest, 4, Len(t.rest)))
        /\ ~TwoSlashes(t.rest) => Of(Parse(t), t.scheme, "", None, t.rest)
    BY <2>2, <2>4, Parsed
  <2>6. Good(Join(base, u)) /\ Join(base, u).scheme = base.scheme
    BY <2>2, <2>4, <2>5 DEF Of
  <2>7. ASSUME base.host # "" PROVE Join(base, u).host = base.host
    <3>1. TwoSlashes(t.rest) /\ t.rest[3][1] = base.host
      BY <2>3, <2>4, <2>7 DEF AuthorityFirst
    <3>2. QED BY <2>2, <2>5, <3>1 DEF Of
  <2>8. QED BY <1>3, <2>6, <2>7
<1>4. QED BY <1>2, <1>3

\* One that urljoin returns as it is.
LEMMA JoinOther ==
  ASSUME NEW base, NEW u, Good(u), Join(base, u) # Invalid, u.scheme \notin {"", base.scheme}
  PROVE  Good(Join(base, u))
<1>1. Join(base, u) = Parse(Str(u))
  BY DEF Join
<1>2. Str(u) \in WrittenURL
  <2>1. u.scheme \in Word
    BY DEF Good, URL
  <2>2. QED BY <2>1, StrTyped
<1>3. QED BY <1>1, <1>2, Parsed DEF Of

\* A location text that gives a port gives a host before it.
NamesHost(t) ==
  t.scheme = "" /\ TwoSlashes(t.rest) /\ t.rest[3][1] = "" => t.rest[3][2] = None

\* What is made of a location: a URL as urlparse leaves it, and with a host.
LEMMA Redirected ==
  ASSUME NEW request, Good(request), NEW t \in WrittenURL, RedirectUrl(request, Parse(t)) # Invalid
  PROVE  LET new == RedirectUrl(request, Parse(t))
         IN  Good(new) /\ (IsAbsolute(request) /\ NamesHost(t) => IsAbsolute(new))
<1> DEFINE u == Parse(t)
<1>1. u # Invalid
  BY DEF RedirectUrl
<1>2. /\ Good(u) /\ u.scheme = t.scheme
      /\ u.scheme = "" /\ u.host = "" /\ NamesHost(t) => u.port = None
  <2>1. CASE TwoSlashes(t.rest)
    <3>1. Of(u, t.scheme, t.rest[3][1], t.rest[3][2], <<Empty>> \o SubSeq(t.rest, 4, Len(t.rest)))
      BY <1>1, <2>1, Parsed
    <3>2. t.rest[3][2] \in Port
      BY <2>1, TextTypes
    <3>3. t.rest[3][2] = None => NormalizePort(t.rest[3][2], t.scheme) = None
      BY <3>2, PortTypes
    <3> HIDE DEF u
    <3>4. QED BY <2>1, <3>1, <3>3 DEF Of, NamesHost
  <2>2. CASE ~TwoSlashes(t.rest)
    <3>1. Of(u, t.scheme, "", None, t.rest) /\ u.port = None
      BY <1>1, <2>2, Parsed
    <3> HIDE DEF u
    <3>2. QED BY <3>1 DEF Of
  <2>3. QED BY <2>1, <2>2
<1> DEFINE new == RedirectUrl(request, u)
<1>3. new # Invalid
  OBVIOUS
<1> HIDE DEF u
<1>4. CASE u.scheme # "" /\ u.host = ""
  <2> DEFINE named == CopyWithHost(u, request.host)
  <2>1. /\ u.scheme \in Word /\ request.host \in Word /\ u.port \in Port
        /\ u.path \in Seq(Piece) \ {<< >>}
    BY <1>2 DEF Good, URL
  <2>2. /\ named = Compose(u.scheme, request.host, u.port, u.path)
        /\ new = IF named = Invalid \/ IsAbsolute(named) THEN named ELSE Join(request, named)
    BY <1>1, <1>4 DEF RedirectUrl, CopyWithHost
  <2> HIDE DEF named
  <2>3. named # Invalid
    BY <1>3, <2>2
  <2>4. Of(named, u.scheme, request.host, u.port, u.path)
    BY <2>1, <2>2, <2>3, Composed
  <2>5. Good(named) /\ (IsAbsolute(request) => IsAbsolute(named))
    BY <1>4, <2>4 DEF Of, IsAbsolute
  <2>6. CASE IsAbsolute(named)
    BY <2>2, <2>5, <2>6 DEF new, u
  <2>7. CASE ~IsAbsolute(named)
    <3>1. new = Join(request, named)
      BY <2>2, <2>3, <2>7
    <3>2. Good(new)
      BY <1>3, <2>5, <3>1, JoinGood, JoinOther
    <3>3. ~IsAbsolute(request)
      BY <2>5, <2>7
    <3>4. QED BY <3>2, <3>3 DEF new, u
  <2>8. QED BY <2>6, <2>7
<1>5. CASE ~IsAbsolute(u) /\ ~(u.scheme # "" /\ u.host = "")
  <2>1. new = Join(request, u)
    BY <1>1, <1>5 DEF RedirectUrl
  <2> HIDE DEF new
  <2>2. u.scheme = ""
    BY <1>5 DEF IsAbsolute
  <2>3. /\ Good(new) /\ new.scheme = request.scheme
        /\ u.host # "" => new.host = u.host
        /\ u.host = "" /\ u.port = None /\ request.host # "" => new.host = request.host
    BY <1>2, <1>3, <2>1, <2>2, JoinGood
  <2>4. Good(new) /\ (IsAbsolute(request) /\ NamesHost(t) => IsAbsolute(new))
    BY <1>2, <2>2, <2>3 DEF IsAbsolute
  <2>5. QED BY <2>4 DEF new, u
<1>6. CASE IsAbsolute(u)
  <2>1. new = u
    BY <1>1, <1>6 DEF RedirectUrl, IsAbsolute
  <2> HIDE DEF new
  <2>2. Good(new) /\ IsAbsolute(new)
    BY <1>2, <1>6, <2>1
  <2>3. QED BY <2>2 DEF new, u
<1>7. QED BY <1>4, <1>5, <1>6

-----------------------------------------------------------------------------
(***************************************************************************)
(* The URL of a request.                                                   *)
(***************************************************************************)
\* How the path of a URL came about that no redirect gave.
PathInv ==
  asked # None /\ url # None =>
    /\ AskedPath \in Seq(Piece) \ {<< >>} /\ FromRoot(AskedPath)
    /\ url.path = NormalizePath(AskedPath)

\* The URL of a request is one that urlparse can have returned, whatever was followed.
UrlInv == client \in Clients /\ (url # None => Good(url)) /\ PathInv

\* So is the base URL, which Client.__init__ and its setter parse.
LEMMA BaseGood == UrlInv => Good(Base)
<1>1. SUFFICES ASSUME UrlInv PROVE Good(Base)
  OBVIOUS
<1>2. client.base \in WrittenURL /\ Parse(client.base) # Invalid
  BY <1>1, RoutingAssumption DEF UrlInv
<1>3. Good(Parse(client.base))
  BY <1>2, Parsed DEF Of
<1>4. QED BY <1>3, SlashKept DEF Base

\* The URL of a request that is built.
LEMMA Built ==
  ASSUME NEW base, Good(base), NEW t \in WrittenURL, Parse(t) # Invalid,
         MergeUrl(base, Parse(t)) # Invalid, IsAbsolute(MergeUrl(base, Parse(t)))
  PROVE  LET path == IF IsAbsolute(Parse(t)) THEN <<Empty>> \o SubSeq(t.rest, 4, Len(t.rest))
                     ELSE MergedPath(base, Parse(t))
             new == MergeUrl(base, Parse(t))
         IN  /\ Good(new) /\ path \in Seq(Piece) \ {<< >>} /\ FromRoot(path)
             /\ new.path = NormalizePath(path)
<1> DEFINE u == Parse(t)
           new == MergeUrl(base, u)
<1>1. CASE IsAbsolute(u)
  <2> DEFINE path == <<Empty>> \o SubSeq(t.rest, 4, Len(t.rest))
  <2>1. TwoSlashes(t.rest)
    <3>1. SUFFICES ASSUME ~TwoSlashes(t.rest) PROVE FALSE
      OBVIOUS
    <3>2. Of(u, t.scheme, "", None, t.rest)
      BY <3>1, Parsed
    <3> HIDE DEF u
    <3>3. QED BY <1>1, <3>2 DEF Of, IsAbsolute
  <2>2. Of(u, t.scheme, t.rest[3][1], t.rest[3][2], path)
    BY <2>1, Parsed
  <2>3. path \in Seq(Piece) \ {<< >>}
    BY <2>1, TextTypes
  <2>4. new = u
    BY <1>1 DEF MergeUrl
  <2> HIDE DEF u, path, new
  <2>5. Good(new) /\ FromRoot(path) /\ new.path = NormalizePath(path)
    BY <1>1, <2>2, <2>4 DEF Of, IsAbsolute
  <2>6. QED BY <1>1, <2>3, <2>5 DEF u, path, new
<1>2. CASE ~IsAbsolute(u)
  <2> DEFINE path == MergedPath(base, u)
  <2>1. Good(u)
    BY Parsed DEF Of
  <2>2. path \in Seq(Piece) \ {<< >>}
    BY <2>1, MergedPathTyped
  <2>3. new = Compose(base.scheme, base.host, base.port, path)
    BY <1>2 DEF MergeUrl, CopyWithPath
  <2>4. base.scheme \in Word /\ base.host \in Word /\ base.port \in Port
    BY DEF Good, URL
  <2>5. new # Invalid /\ IsAbsolute(new)
    OBVIOUS
  <2> HIDE DEF u, path, new
  <2>6. Of(new, base.scheme, base.host, base.port, path)
    BY <2>2, <2>3, <2>4, <2>5, Composed
  <2>7. Good(new) /\ FromRoot(path) /\ new.path = NormalizePath(path)
    BY <2>5, <2>6 DEF Of, IsAbsolute
  <2>8. QED BY <1>2, <2>2, <2>7 DEF u, path, new
<1>3. QED BY <1>1, <1>2

\* A URL is neither absent nor invalid.
LEMMA GoodIsURL == \A u : Good(u) => u # None /\ u # Invalid
  BY UrlAssumption DEF Good

\* Building a request and following a redirect keep the invariant.
LEMMA UrlStep == UrlInv /\ [Next]_vars => UrlInv'
<1>1. SUFFICES ASSUME UrlInv, [Next]_vars PROVE UrlInv'
  OBVIOUS
<1>2. client \in Clients /\ Texts[client.texts] \subseteq WrittenURL
  BY <1>1, RoutingAssumption DEF UrlInv
<1>3. ASSUME NEW t \in Texts[client.texts], BuildRequest(t) PROVE UrlInv'
  <2> DEFINE new == MergeUrl(Base, Parse(t))
             path == IF IsAbsolute(Parse(t)) THEN <<Empty>> \o SubSeq(t.rest, 4, Len(t.rest))
                     ELSE MergedPath(Base, Parse(t))
  <2>1. /\ Parse(t) # Invalid /\ new # Invalid /\ IsAbsolute(new)
        /\ url' = new /\ asked' = t /\ client' = client
    BY <1>3 DEF BuildRequest
  <2>2. t \in WrittenURL /\ Good(Base)
    BY <1>1, <1>2, BaseGood
  <2>3. Good(new) /\ path \in Seq(Piece) \ {<< >>} /\ FromRoot(path) /\ new.path = NormalizePath(path)
    BY <2>1, <2>2, Built
  <2>4. Base' = Base
    BY <2>1 DEF Base
  <2>5. AskedPath' = path
    BY <2>1, <2>4 DEF AskedPath
  <2> HIDE DEF new, path
  <2>6. PathInv'
    BY <2>1, <2>3, <2>5 DEF PathInv
  <2>7. QED BY <1>2, <2>1, <2>3, <2>6 DEF UrlInv
<1>4. ASSUME NEW t \in Texts[client.texts], FollowRedirect(t) PROVE UrlInv'
  <2> DEFINE new == RedirectUrl(url, Parse(t))
  <2>1. /\ url # None /\ asked' = None /\ client' = client
        /\ url' = IF new = Invalid THEN None ELSE new
    BY <1>4 DEF FollowRedirect
  <2>2. t \in WrittenURL /\ Good(url)
    BY <1>1, <1>2, <2>1 DEF UrlInv
  <2>3. new # Invalid => Good(new)
    BY <2>2, Redirected
  <2> HIDE DEF new
  <2>4. QED BY <1>2, <2>1, <2>3 DEF UrlInv, PathInv
<1>5. CASE UNCHANGED vars
  <2>1. AskedPath' = AskedPath
    BY <1>5 DEF vars, AskedPath, Base
  <2>2. QED BY <1>1, <1>5, <2>1 DEF vars, UrlInv, PathInv
<1>6. QED BY <1>1, <1>3, <1>4, <1>5 DEF Next

\* It is an invariant of every client.
LEMMA UrlInvHolds == Spec => []UrlInv
<1>1. Init => UrlInv
  BY DEF Init, UrlInv, PathInv
<1>2. QED BY <1>1, UrlStep, PTL DEF Spec

\* What a request's URL is printed as is read as that URL, if it names a host.
WithHostReadAgain == url # None /\ url.host # "" => Parse(Str(url)) = url

\* For any texts, base URL and chain of redirects: reading the text of a request's URL gives
\* the URL back, as URL.__eq__, __hash__, join and copy_with take for granted (_urls.py).
THEOREM UrlReadAgain == Spec => []WithHostReadAgain
<1>1. UrlInv => WithHostReadAgain
  BY ReadAgain DEF UrlInv, WithHostReadAgain
<1>2. QED BY <1>1, UrlInvHolds, PTL

\* No text has a port and no host, as "//:8000/x" has: _redirect_url (_client.py:502) asks for
\* the host of the request only where there is a scheme, and what it returns has no host then.
HostsNamed == \A c \in Clients : \A t \in Texts[c.texts] : NamesHost(t)

\* What is sent has a scheme and a host.
AbsoluteInv == url # None => IsAbsolute(url)

\* If no location is such a text, the URL of a request, as given by build_request or by any
\* number of redirects, has a scheme and a host and is what its text is read as.
THEOREM UrlsCanonical ==
  ASSUME HostsNamed
  PROVE  Spec => []Canonical
<1>1. Init => AbsoluteInv
  BY DEF Init, AbsoluteInv
<1>2. UrlInv /\ AbsoluteInv /\ [Next]_vars => AbsoluteInv'
  <2>1. SUFFICES ASSUME UrlInv, AbsoluteInv, [Next]_vars PROVE AbsoluteInv'
    OBVIOUS
  <2>2. ASSUME NEW t \in Texts[client.texts], BuildRequest(t) PROVE AbsoluteInv'
    BY <2>2 DEF BuildRequest, AbsoluteInv
  <2>3. ASSUME NEW t \in Texts[client.texts], FollowRedirect(t) PROVE AbsoluteInv'
    <3> DEFINE new == RedirectUrl(url, Parse(t))
    <3>1. url # None /\ url' = IF new = Invalid THEN None ELSE new
      BY <2>3 DEF FollowRedirect
    <3>2. t \in WrittenURL /\ NamesHost(t) /\ Good(url) /\ IsAbsolute(url)
      BY <2>1, <3>1, RoutingAssumption DEF UrlInv, AbsoluteInv, HostsNamed
    <3>3. new # Invalid => IsAbsolute(new)
      BY <3>2, Redirected
    <3> HIDE DEF new
    <3>4. QED BY <3>1, <3>3 DEF AbsoluteInv
  <2>4. CASE UNCHANGED vars
    BY <2>1, <2>4 DEF vars, AbsoluteInv
  <2>5. QED BY <2>1, <2>2, <2>3, <2>4 DEF Next
<1>3. UrlInv /\ AbsoluteInv => Canonical
  BY ReadAgain DEF UrlInv, AbsoluteInv, Canonical, IsAbsolute
<1>4. QED BY <1>1, <1>2, <1>3, UrlInvHolds, PTL DEF Spec

-----------------------------------------------------------------------------
(***************************************************************************)
(* What ".." takes back.                                                   *)
(***************************************************************************)
IsName(e) == e \notin {Dot, DotDot}

\* Counting over one more piece.
LEMMA CountStep ==
  ASSUME NEW a \in Nat, NEW m \in Nat, a <= m + 1, NEW S
  PROVE  LET C(b) == Cardinality({k \in a .. b : k \in S})
         IN  /\ C(m) \in Nat
             /\ C(m + 1) = IF m + 1 \in S THEN C(m) + 1 ELSE C(m)
             /\ m < a => C(m) = 0
<1> DEFINE T == {k \in a .. m : k \in S}
           U == {k \in a .. (m + 1) : k \in S}
<1>1. IsFiniteSet(T) /\ Cardinality(T) \in Nat
  <2>1. IsFiniteSet(a .. m)
    BY FS_Interval
  <2>2. IsFiniteSet(T)
    BY <2>1, FS_Subset
  <2> HIDE DEF T
  <2>3. QED BY <2>2, FS_CardinalityType
<1>2. U = IF m + 1 \in S THEN T \cup {m + 1} ELSE T
  <2>1. \A k : k \in a .. (m + 1) <=> k \in a .. m \/ k = m + 1
    OBVIOUS
  <2>2. QED BY <2>1
<1>3. m + 1 \notin T
  OBVIOUS
<1>4. m < a => T = {}
  OBVIOUS
<1> HIDE DEF T, U
<1>5. Cardinality(T \cup {m + 1}) = Cardinality(T) + 1
  BY <1>1, <1>3, FS_AddElement
<1>6. m < a => Cardinality(T) = 0
  BY <1>4, FS_EmptySet
<1>7. Cardinality(U) = IF m + 1 \in S THEN Cardinality(T) + 1 ELSE Cardinality(T)
  BY <1>2, <1>5
<1>8. QED BY <1>1, <1>6, <1>7 DEF T, U

\* Names and Ups are how often a name, and how often "..", stands in a stretch of the path.
LEMMA NamesUps ==
  ASSUME NEW p, NEW a \in Nat, NEW m \in Nat, a <= m + 1
  PROVE  /\ Names(p, a, m) \in Nat /\ Ups(p, a, m) \in Nat
         /\ Names(p, a, m + 1) = IF IsName(p[m + 1]) THEN Names(p, a, m) + 1 ELSE Names(p, a, m)
         /\ Ups(p, a, m + 1) = IF p[m + 1] = DotDot THEN Ups(p, a, m) + 1 ELSE Ups(p, a, m)
         /\ m < a => Names(p, a, m) = 0 /\ Ups(p, a, m) = 0
<1> DEFINE S == {k \in Nat : IsName(p[k])}
           R == {k \in Nat : p[k] = DotDot}
<1>1. \A b \in Nat : /\ {k \in a .. b : p[k] \notin {Dot, DotDot}} = {k \in a .. b : k \in S}
                     /\ {k \in a .. b : p[k] = DotDot} = {k \in a .. b : k \in R}
  BY DEF IsName
<1>2. \A b \in Nat : /\ Names(p, a, b) = Cardinality({k \in a .. b : k \in S})
                     /\ Ups(p, a, b) = Cardinality({k \in a .. b : k \in R})
  BY <1>1 DEF Names, Ups
<1>3. m + 1 \in S <=> IsName(p[m + 1])
  OBVIOUS
<1>4. m + 1 \in R <=> p[m + 1] = DotDot
  OBVIOUS
<1> HIDE DEF S, R
<1>5. m + 1 \in Nat
  OBVIOUS
<1>6. /\ Cardinality({k \in a .. m : k \in S}) \in Nat
      /\ Cardinality({k \in a .. (m + 1) : k \in S}) =
           IF m + 1 \in S THEN Cardinality({k \in a .. m : k \in S}) + 1
           ELSE Cardinality({k \in a .. m : k \in S})
      /\ m < a => Cardinality({k \in a .. m : k \in S}) = 0
  BY CountStep
<1>7. /\ Cardinality({k \in a .. m : k \in R}) \in Nat
      /\ Cardinality({k \in a .. (m + 1) : k \in R}) =
           IF m + 1 \in R THEN Cardinality({k \in a .. m : k \in R}) + 1
           ELSE Cardinality({k \in a .. m : k \in R})
      /\ m < a => Cardinality({k \in a .. m : k \in R}) = 0
  BY CountStep
<1>8. QED BY <1>2, <1>3, <1>4, <1>5, <1>6, <1>7

\* The names above the ".." that take them back, from the piece a to the piece b.
LeftOver(p, a, b) == Names(p, a, b) - Ups(p, a, b)

\* One more piece adds one, takes one or changes nothing.
LEMMA LeftOverStep ==
  ASSUME NEW p, NEW a \in Nat, NEW m \in Nat, a <= m + 1
  PROVE  /\ LeftOver(p, a, m) \in Int
         /\ IsName(p[m + 1]) => LeftOver(p, a, m + 1) = LeftOver(p, a, m) + 1
         /\ p[m + 1] = Dot => LeftOver(p, a, m + 1) = LeftOver(p, a, m)
         /\ p[m + 1] = DotDot => LeftOver(p, a, m + 1) = LeftOver(p, a, m) - 1
         /\ m < a => LeftOver(p, a, m) = 0
<1>1. Dot # DotDot
  <2>1. "." # ".."
    OBVIOUS
  <2>2. QED BY <2>1 DEF Dot, DotDot, Seg
<1>2. /\ Names(p, a, m) \in Nat /\ Ups(p, a, m) \in Nat
      /\ Names(p, a, m + 1) = IF IsName(p[m + 1]) THEN Names(p, a, m) + 1 ELSE Names(p, a, m)
      /\ Ups(p, a, m + 1) = IF p[m + 1] = DotDot THEN Ups(p, a, m) + 1 ELSE Ups(p, a, m)
      /\ m < a => Names(p, a, m) = 0 /\ Ups(p, a, m) = 0
  BY NamesUps
<1>3. /\ IsName(p[m + 1]) => p[m + 1] # DotDot
      /\ p[m + 1] = Dot => ~IsName(p[m + 1]) /\ p[m + 1] # DotDot
      /\ p[m + 1] = DotDot => ~IsName(p[m + 1])
  BY <1>1 DEF IsName
<1> DEFINE x == Names(p, a, m)
           y == Ups(p, a, m)
           x1 == Names(p, a, m + 1)
           y1 == Ups(p, a, m + 1)
<1>4. LeftOver(p, a, m) = x - y /\ LeftOver(p, a, m + 1) = x1 - y1
  BY DEF LeftOver
<1> HIDE DEF x, y, x1, y1
<1>5. x \in Nat /\ y \in Nat /\ (m < a => x = 0 /\ y = 0)
  BY <1>2 DEF x, y
<1>6. /\ IsName(p[m + 1]) => x1 = x + 1 /\ y1 = y
      /\ p[m + 1] = Dot => x1 = x /\ y1 = y
      /\ p[m + 1] = DotDot => x1 = x /\ y1 = y + 1
  BY <1>2, <1>3 DEF x, y, x1, y1
<1>7. QED BY <1>4, <1>5, <1>6

\* One ".." takes back the piece i of the path.
Takes(p, i, j) == LeftOver(p, i, j) = 0 /\ \A m \in i..(j - 1) : LeftOver(p, i, m) > 0

\* TakenBack says that some ".." takes the piece.
LEMMA TakenBackIs ==
  ASSUME NEW p, Len(p) \in Nat, NEW i \in Nat
  PROVE  TakenBack(p, i) <=> \E j \in (i + 1)..Len(p) : Takes(p, i, j)
<1>1. ASSUME NEW m \in Nat, i <= m
      PROVE  /\ Names(p, i, m) = Ups(p, i, m) <=> LeftOver(p, i, m) = 0
             /\ Names(p, i, m) > Ups(p, i, m) <=> LeftOver(p, i, m) > 0
  <2>1. Names(p, i, m) \in Nat /\ Ups(p, i, m) \in Nat
    <3>1. i <= m + 1
      BY <1>1
    <3>2. QED BY <3>1, NamesUps
  <2>2. QED BY <2>1 DEF LeftOver
<1>2. ASSUME NEW j \in (i + 1)..Len(p)
      PROVE  /\ j \in Nat /\ i <= j
             /\ \A m \in i..(j - 1) : m \in Nat /\ i <= m
  OBVIOUS
<1>3. \A j \in (i + 1)..Len(p) :
        Takes(p, i, j) <=> /\ Names(p, i, j) = Ups(p, i, j)
                           /\ \A m \in i..(j - 1) : Names(p, i, m) > Ups(p, i, m)
  BY <1>1, <1>2 DEF Takes
<1>4. QED BY <1>3 DEF TakenBack

\* What normalize_path has kept of the first m pieces.
Kept(p, m) == {i \in 2..m : IsName(p[i]) /\ ~\E j \in (i + 1)..m : Takes(p, i, j)}

\* The output after m pieces: the root and the pieces at the places o, which are those
\* not taken back; as many names are left over from each of them on as there are places.
Stack(p, m, out, o) ==
  /\ Enumerates(o, Len(o), Kept(p, m)) /\ o \in Seq(Nat)
  /\ out = <<Empty>> \o [k \in 1..Len(o) |-> p[o[k]]]
  /\ \A k \in 1..Len(o) : /\ LeftOver(p, o[k], m) = Len(o) - k + 1
                          /\ \A b \in o[k]..m : LeftOver(p, o[k], b) > 0

\* What one more piece keeps of the pieces so far, and whether it is kept itself.
LEMMA KeptStep ==
  ASSUME NEW p, NEW m \in Nat \ {0}
  PROVE  /\ Kept(p, m) \in SUBSET (2 .. m)
         /\ \A i : i \in Kept(p, m + 1) <=>
              \/ i \in Kept(p, m) /\ ~Takes(p, i, m + 1)
              \/ i = m + 1 /\ IsName(p[m + 1])
<1>1. \A i : i \in 2 .. (m + 1) <=> i \in 2 .. m \/ i = m + 1
  OBVIOUS
<1>2. \A i \in 2 .. m : \A j : j \in (i + 1) .. (m + 1) <=> j \in (i + 1) .. m \/ j = m + 1
  OBVIOUS
<1>3. \A j : j \notin ((m + 1) + 1) .. (m + 1)
  OBVIOUS
<1>4. m + 1 \notin 2 .. m
  OBVIOUS
<1>5. QED BY <1>1, <1>2, <1>3, <1>4 DEF Kept

\* The parts of Stack.
LEMMA StackOf ==
  ASSUME NEW p, NEW m \in Nat \ {0}, NEW out, NEW o, Stack(p, m, out, o)
  PROVE  /\ Len(o) \in Nat /\ o \in Seq(Nat)
         /\ \A k \in 1 .. Len(o) : o[k] \in Kept(p, m) /\ o[k] \in 2 .. m /\ o[k] \in Nat
         /\ \A i \in Kept(p, m) : \E k \in 1 .. Len(o) : o[k] = i
         /\ \A j, k \in 1 .. Len(o) : j < k => o[j] < o[k]
<1>1. o \in Seq(Nat) /\ Len(o) \in Nat
  BY DEF Stack
<1>2. \A k \in 1 .. Len(o) : o[k] \in Kept(p, m)
  BY DEF Stack, Enumerates
<1>3. QED BY <1>1, <1>2, KeptStep DEF Stack, Enumerates

\* "." changes nothing.
LEMMA StackDot ==
  ASSUME NEW p, NEW m \in Nat \ {0}, NEW out, NEW o, Stack(p, m, out, o), p[m + 1] = Dot
  PROVE  Stack(p, m + 1, out, o)
<1>1. ~IsName(p[m + 1])
  BY DEF IsName
<1>2. \A k \in 1 .. Len(o) : LeftOver(p, o[k], m + 1) = LeftOver(p, o[k], m) /\ LeftOver(p, o[k], m) > 0
  <2>1. \A k \in 1 .. Len(o) : o[k] \in Nat /\ o[k] <= m + 1 /\ m \in o[k] .. m
    <3>1. \A i \in 2 .. m : i \in Nat /\ i <= m + 1 /\ m \in i .. m
      OBVIOUS
    <3>2. QED BY <3>1, StackOf
  <2>2. QED BY <2>1, LeftOverStep DEF Stack
<1>3. \A i \in Kept(p, m) : ~Takes(p, i, m + 1)
  <2>1. ASSUME NEW k \in 1 .. Len(o) PROVE ~Takes(p, o[k], m + 1)
    <3>1. LeftOver(p, o[k], m + 1) > 0
      BY <1>2
    <3>2. QED BY <3>1 DEF Takes
  <2>2. QED BY <2>1, StackOf
<1>4. Kept(p, m + 1) = Kept(p, m)
  BY <1>1, <1>3, KeptStep
<1>5. \A k \in 1 .. Len(o) : \A b \in o[k] .. (m + 1) : LeftOver(p, o[k], b) > 0
  <2>1. \A k \in 1 .. Len(o) : \A b \in o[k] .. (m + 1) : b \in o[k] .. m \/ b = m + 1
    BY StackOf
  <2>2. QED BY <1>2, <2>1 DEF Stack
<1>6. QED BY <1>2, <1>4, <1>5 DEF Stack

\* A name is put on top.
LEMMA StackName ==
  ASSUME NEW p, NEW m \in Nat \ {0}, NEW out \in Seq(Piece), NEW o, Stack(p, m, out, o),
         IsName(p[m + 1]), p[m + 1] \in Piece, \A i \in 1 .. m : p[i] \in Piece
  PROVE  Stack(p, m + 1, Append(out, p[m + 1]), Append(o, m + 1))
<1> DEFINE n == Len(o)
           q == Append(o, m + 1)
<1>0. m \in Nat /\ m + 1 \in Nat
  OBVIOUS
<1>1. /\ n \in Nat /\ o \in Seq(Nat)
      /\ \A k \in 1 .. n : o[k] \in Kept(p, m) /\ o[k] \in 2 .. m /\ o[k] \in Nat
      /\ \A i \in Kept(p, m) : \E k \in 1 .. n : o[k] = i
      /\ \A j, k \in 1 .. n : j < k => o[j] < o[k]
  BY StackOf
<1>2. /\ q \in Seq(Nat) /\ Len(q) = n + 1
      /\ \A k \in 1 .. n : q[k] = o[k]
      /\ q[n + 1] = m + 1
  BY <1>1, <1>0, AppendOf
<1>3. /\ \A i \in 2 .. m : i \in Nat /\ i <= m + 1 /\ m \in i .. m /\ i < m + 1
      /\ \A i \in 2 .. m : \A b \in i .. (m + 1) : b \in i .. m \/ b = m + 1
      /\ \A k \in 1 .. (n + 1) : k \in 1 .. n \/ k = n + 1
  <2>1. \A k \in 1 .. (n + 1) : k \in 1 .. n \/ k = n + 1
    BY <1>1
  <2>2. \A i \in 2 .. m : i \in Nat /\ i <= m + 1 /\ m \in i .. m /\ i < m + 1
    OBVIOUS
  <2>3. \A i \in 2 .. m : \A b \in i .. (m + 1) : b \in i .. m \/ b = m + 1
    OBVIOUS
  <2>4. QED BY <2>1, <2>2, <2>3
<1>4. ASSUME NEW k \in 1 .. n
      PROVE  LeftOver(p, o[k], m + 1) = LeftOver(p, o[k], m) + 1 /\ LeftOver(p, o[k], m + 1) > 0
  <2>1. o[k] \in Nat /\ o[k] <= m + 1 /\ m \in o[k] .. m
    BY <1>1, <1>3
  <2>2. LeftOver(p, o[k], m) \in Int /\ LeftOver(p, o[k], m + 1) = LeftOver(p, o[k], m) + 1
    BY <2>1, LeftOverStep
  <2>3. LeftOver(p, o[k], m) > 0
    BY <2>1 DEF Stack
  <2>4. QED BY <2>2, <2>3
<1>5. \A i \in Kept(p, m) : ~Takes(p, i, m + 1)
  <2>1. ASSUME NEW k \in 1 .. n PROVE ~Takes(p, o[k], m + 1)
    <3>1. ~ (0 > 0)
      OBVIOUS
    <3>2. LeftOver(p, o[k], m + 1) # 0
      BY <1>4, <3>1
    <3>3. QED BY <3>2 DEF Takes
  <2>2. QED BY <1>1, <2>1
<1>6. Kept(p, m + 1) = Kept(p, m) \cup {m + 1} /\ Kept(p, m) \in SUBSET (2 .. m)
  BY <1>5, KeptStep
<1>7. Enumerates(q, n + 1, Kept(p, m + 1))
  <2>1. Enumerates(o, n, Kept(p, m))
    BY DEF Stack
  <2>2. Kept(p, m) \in SUBSET Int /\ \A x \in Kept(p, m) : x < m + 1
    BY <1>6
  <2>3. Enumerates([k \in 1 .. (n + 1) |-> IF k = n + 1 THEN m + 1 ELSE o[k]], n + 1, Kept(p, m) \cup {m + 1})
    BY <1>1, <1>0, <2>1, <2>2, EnumeratesStep
  <2>4. q = [k \in 1 .. (n + 1) |-> IF k = n + 1 THEN m + 1 ELSE o[k]]
    <3> DEFINE f == [k \in 1 .. (n + 1) |-> IF k = n + 1 THEN m + 1 ELSE o[k]]
    <3>1. f \in Seq(Nat) /\ Len(f) = n + 1
      <4>1. \A k \in 1 .. (n + 1) : (IF k = n + 1 THEN m + 1 ELSE o[k]) \in Nat
        BY <1>0, <1>1, <1>3
      <4>2. n + 1 \in Nat
        BY <1>1
      <4>3. QED BY <4>1, <4>2
    <3>2. \A k \in 1 .. (n + 1) : f[k] = q[k]
      <4>1. ~ (n + 1 \in 1 .. n)
        BY <1>1
      <4>2. QED BY <1>2, <1>3, <4>1
    <3> HIDE DEF f, q
    <3>3. QED BY <1>2, <3>1, <3>2, SeqEqual DEF f
  <2>5. QED BY <1>6, <2>3, <2>4
<1>8. \A k \in 1 .. (n + 1) : /\ LeftOver(p, q[k], m + 1) = (n + 1) - k + 1
                              /\ \A b \in q[k] .. (m + 1) : LeftOver(p, q[k], b) > 0
  <2>1. ASSUME NEW k \in 1 .. n
        PROVE  /\ LeftOver(p, o[k], m + 1) = (n + 1) - k + 1
               /\ \A b \in o[k] .. (m + 1) : LeftOver(p, o[k], b) > 0
    <3>1. LeftOver(p, o[k], m) = n - k + 1
      BY DEF Stack
    <3>2. LeftOver(p, o[k], m + 1) = (n + 1) - k + 1
      <4>1. \A x \in Nat : \A y \in 1 .. x : (x - y + 1) + 1 = (x + 1) - y + 1
        OBVIOUS
      <4>2. QED BY <1>1, <1>4, <3>1, <4>1
    <3>3. \A b \in o[k] .. m : LeftOver(p, o[k], b) > 0
      BY DEF Stack
    <3>4. QED BY <1>1, <1>3, <1>4, <3>2, <3>3
  <2>2. /\ LeftOver(p, m + 1, m + 1) = 1
        /\ \A b \in (m + 1) .. (m + 1) : LeftOver(p, m + 1, b) > 0
    <3>1. m + 1 <= m + 1 /\ m < m + 1 /\ m + 1 \in Nat
      OBVIOUS
    <3>2. LeftOver(p, m + 1, m + 1) = LeftOver(p, m + 1, m) + 1 /\ LeftOver(p, m + 1, m) = 0
      BY <3>1, LeftOverStep
    <3>3. \A b \in (m + 1) .. (m + 1) : b = m + 1
      OBVIOUS
    <3>4. QED BY <3>2, <3>3
  <2>3. (n + 1) - (n + 1) + 1 = 1
    BY <1>1
  <2>4. QED BY <1>2, <1>3, <2>1, <2>2, <2>3
<1>9. Append(out, p[m + 1]) = <<Empty>> \o [k \in 1 .. (n + 1) |-> p[q[k]]]
  <2> DEFINE s == [k \in 1 .. n |-> p[o[k]]]
             s1 == [k \in 1 .. (n + 1) |-> p[q[k]]]
  <2>1. s \in Seq(Piece) /\ Len(s) = n
    <3>1. \A k \in 1 .. n : p[o[k]] \in Piece
      <4>1. \A i \in 2 .. m : p[i] \in Piece
        OBVIOUS
      <4>2. QED BY <1>1, <4>1
    <3>2. QED BY <1>1, <3>1
  <2>2. Append(s, p[m + 1]) = s1
    <3>1. /\ Append(s, p[m + 1]) \in Seq(Piece) /\ Len(Append(s, p[m + 1])) = n + 1
          /\ \A k \in 1 .. n : Append(s, p[m + 1])[k] = s[k]
          /\ Append(s, p[m + 1])[n + 1] = p[m + 1]
      BY <2>1, AppendOf
    <3>2. \A k \in 1 .. n : s[k] = p[o[k]] /\ p[o[k]] \in Piece
      <4>1. \A i \in 2 .. m : p[i] \in Piece
        OBVIOUS
      <4>2. QED BY <1>1, <4>1
    <3>3. \A k \in 1 .. (n + 1) : s1[k] = p[q[k]] /\ p[q[k]] \in Piece
      BY <1>2, <1>3, <3>2
    <3>4. s1 \in Seq(Piece) /\ Len(s1) = n + 1
      <4>1. \A k \in 1 .. (n + 1) : p[q[k]] \in Piece
        BY <3>3
      <4>2. n + 1 \in Nat
        BY <1>1
      <4>3. QED BY <4>1, <4>2
    <3>5. \A k \in 1 .. (n + 1) : Append(s, p[m + 1])[k] = s1[k]
      BY <1>2, <1>3, <3>1, <3>2, <3>3
    <3> HIDE DEF s, s1
    <3>6. QED BY <3>1, <3>4, <3>5, SeqEqual
  <2>3. out = <<Empty>> \o s
    BY DEF Stack
  <2>4. <<Empty>> \in Seq(Piece)
    BY PieceTypes
  <2> HIDE DEF s, s1
  <2>5. <<Empty>> \o Append(s, p[m + 1]) = Append(<<Empty>> \o s, p[m + 1])
    BY <2>1, <2>4, ConcatAppend
  <2>6. QED BY <2>2, <2>3, <2>5 DEF s1
<1> HIDE DEF q
<1>10. Len(q) = n + 1
  BY <1>2
<1>11. Stack(p, m + 1, Append(out, p[m + 1]), q)
  BY <1>2, <1>7, <1>8, <1>9 DEF Stack
<1>12. QED BY <1>11 DEF q

\* ".." with nothing below the root.
LEMMA StackRoot ==
  ASSUME NEW p, NEW m \in Nat \ {0}, NEW out, NEW o, Stack(p, m, out, o),
         p[m + 1] = DotDot, Len(o) = 0
  PROVE  Stack(p, m + 1, out, o)
<1>1. ~IsName(p[m + 1])
  BY DEF IsName
<1>2. Kept(p, m) = {}
  <2>1. \A i \in Kept(p, m) : \E k \in 1 .. Len(o) : o[k] = i
    BY StackOf
  <2>2. \A k \in 1 .. Len(o) : FALSE
    OBVIOUS
  <2>3. QED BY <2>1, <2>2
<1>3. Kept(p, m + 1) = Kept(p, m)
  BY <1>1, <1>2, KeptStep
<1>4. QED BY <1>3 DEF Stack

\* ".." takes the name on top.
LEMMA StackUp ==
  ASSUME NEW p, NEW m \in Nat \ {0}, NEW out \in Seq(Piece), NEW o, Stack(p, m, out, o),
         p[m + 1] = DotDot, Len(o) # 0, \A i \in 1 .. m : p[i] \in Piece
  PROVE  out # << >> /\ out # <<Empty>> /\ Stack(p, m + 1, Front(out), Front(o))
<1> DEFINE n == Len(o)
           q == Front(o)
<1>1. /\ n \in Nat /\ o \in Seq(Nat)
      /\ \A k \in 1 .. n : o[k] \in Kept(p, m) /\ o[k] \in 2 .. m /\ o[k] \in Nat
      /\ \A i \in Kept(p, m) : \E k \in 1 .. n : o[k] = i
      /\ \A j, k \in 1 .. n : j < k => o[j] < o[k]
  BY StackOf
<1>2. n \in Nat \ {0} /\ o # << >> /\ n - 1 \in Nat
  <2>1. Len(<< >>) = 0
    OBVIOUS
  <2>2. QED BY <1>1, <2>1
<1>3. /\ q \in Seq(Nat) /\ Len(q) = n - 1
      /\ \A k \in 1 .. (n - 1) : q[k] = o[k]
  BY <1>1, <1>2, FrontOf
<1>4. /\ \A i \in 2 .. m : i \in Nat /\ i <= m + 1 /\ m \in i .. m /\ i < m + 1
      /\ \A i \in 2 .. m : \A b \in i .. (m + 1) : b \in i .. m \/ b = m + 1
      /\ \A i \in 2 .. m : \A b \in i .. ((m + 1) - 1) : b \in i .. m
      /\ \A k \in 1 .. n : k \in 1 .. (n - 1) \/ k = n
      /\ \A k \in 1 .. (n - 1) : k \in 1 .. n /\ k < n
      /\ n \in 1 .. n
  BY <1>2
<1>5. ~IsName(p[m + 1])
  BY DEF IsName
<1>6. ASSUME NEW k \in 1 .. n
      PROVE  /\ LeftOver(p, o[k], m + 1) = n - k
             /\ \A b \in o[k] .. m : LeftOver(p, o[k], b) > 0
  <2>1. o[k] \in Nat /\ o[k] <= m + 1
    BY <1>1, <1>4
  <2>2. LeftOver(p, o[k], m + 1) = LeftOver(p, o[k], m) - 1
    BY <2>1, LeftOverStep
  <2>3. LeftOver(p, o[k], m) = n - k + 1 /\ \A b \in o[k] .. m : LeftOver(p, o[k], b) > 0
    BY DEF Stack
  <2>4. (n - k + 1) - 1 = n - k
    BY <1>2
  <2>5. QED BY <2>2, <2>3, <2>4
<1>7. \A k \in 1 .. n : Takes(p, o[k], m + 1) <=> k = n
  <2>1. ASSUME NEW k \in 1 .. n PROVE Takes(p, o[k], m + 1) <=> k = n
    <3>1. n - k = 0 <=> k = n
      BY <1>2
    <3>2. \A b \in o[k] .. ((m + 1) - 1) : LeftOver(p, o[k], b) > 0
      BY <1>1, <1>4, <1>6
    <3>3. QED BY <1>6, <3>1, <3>2 DEF Takes
  <2>2. QED BY <2>1
<1>8. \A k \in 1 .. (n - 1) : o[k] # o[n]
  <2>1. \A k \in 1 .. (n - 1) : o[k] < o[n]
    BY <1>1, <1>4
  <2>2. o[n] \in Nat
    BY <1>1, <1>4
  <2>3. ~ (o[n] < o[n])
    BY <2>2
  <2>4. QED BY <2>1, <2>3
<1>9. \A i : i \in Kept(p, m + 1) <=> \E k \in 1 .. (n - 1) : o[k] = i
  <2>1. ASSUME NEW i PROVE i \in Kept(p, m + 1) <=> i \in Kept(p, m) /\ ~Takes(p, i, m + 1)
    BY <1>5, KeptStep
  <2>2. ASSUME NEW i, i \in Kept(p, m), ~Takes(p, i, m + 1) PROVE \E k \in 1 .. (n - 1) : o[k] = i
    <3>1. PICK k \in 1 .. n : o[k] = i
      BY <1>1, <2>2
    <3>2. k # n
      BY <1>7, <2>2, <3>1
    <3>3. QED BY <1>4, <3>1, <3>2
  <2>3. ASSUME NEW k \in 1 .. (n - 1) PROVE o[k] \in Kept(p, m) /\ ~Takes(p, o[k], m + 1)
    <3>1. k \in 1 .. n /\ k # n
      BY <1>2
    <3>2. QED BY <1>1, <1>7, <3>1
  <2>4. QED BY <2>1, <2>2, <2>3
<1>10. Enumerates(q, n - 1, Kept(p, m + 1))
  <2>1. q \in [1 .. (n - 1) -> Kept(p, m + 1)]
    <3>1. \A k \in 1 .. (n - 1) : q[k] \in Kept(p, m + 1)
      BY <1>3, <1>9
    <3>2. q = [k \in 1 .. (n - 1) |-> q[k]]
      <4> HIDE DEF q
      <4>1. QED BY <1>3
    <3> HIDE DEF q
    <3>3. QED BY <3>1, <3>2
  <2>2. \A x \in Kept(p, m + 1) : \E k \in 1 .. (n - 1) : q[k] = x
    BY <1>3, <1>9
  <2>3. \A j, k \in 1 .. (n - 1) : j < k => q[j] < q[k]
    BY <1>1, <1>3, <1>4
  <2>4. QED BY <2>1, <2>2, <2>3 DEF Enumerates
<1>11. \A k \in 1 .. (n - 1) : /\ LeftOver(p, q[k], m + 1) = (n - 1) - k + 1
                               /\ \A b \in q[k] .. (m + 1) : LeftOver(p, q[k], b) > 0
  <2>1. ASSUME NEW k \in 1 .. (n - 1)
        PROVE  /\ LeftOver(p, o[k], m + 1) = (n - 1) - k + 1
               /\ \A b \in o[k] .. (m + 1) : LeftOver(p, o[k], b) > 0
    <3>1. k \in 1 .. n /\ n - k = (n - 1) - k + 1 /\ n - k > 0
      BY <1>2
    <3>2. o[k] \in 2 .. m
      BY <1>1, <3>1
    <3>3. LeftOver(p, o[k], m + 1) = n - k /\ \A b \in o[k] .. m : LeftOver(p, o[k], b) > 0
      BY <1>6, <3>1
    <3>4. \A b \in o[k] .. (m + 1) : b \in o[k] .. m \/ b = m + 1
      BY <1>4, <3>2
    <3>5. QED BY <3>1, <3>3, <3>4
  <2>2. QED BY <1>3, <2>1
<1> DEFINE s == [k \in 1 .. n |-> p[o[k]]]
           s1 == [k \in 1 .. (n - 1) |-> p[q[k]]]
<1>12. out = <<Empty>> \o s /\ <<Empty>> \in Seq(Piece) /\ Len(<<Empty>>) = 1 /\ <<Empty>>[1] = Empty
  <2>1. out = <<Empty>> \o s
    BY DEF Stack
  <2> HIDE DEF s
  <2>2. <<Empty>> \in Seq(Piece) /\ Len(<<Empty>>) = 1 /\ <<Empty>>[1] = Empty
    BY PieceTypes
  <2>3. QED BY <2>1, <2>2
<1>13. s \in Seq(Piece) /\ Len(s) = n /\ \A k \in 1 .. n : s[k] = p[o[k]] /\ p[o[k]] \in Piece
  <2>1. \A k \in 1 .. n : p[o[k]] \in Piece
    <3>1. \A i \in 2 .. m : p[i] \in Piece
      OBVIOUS
    <3>2. QED BY <1>1, <3>1
  <2>2. QED BY <1>1, <2>1
<1>14. s1 \in Seq(Piece) /\ Len(s1) = n - 1 /\ \A k \in 1 .. (n - 1) : s1[k] = s[k]
  <2>1. \A k \in 1 .. (n - 1) : q[k] = o[k] /\ k \in 1 .. n
    BY <1>3, <1>4
  <2>2. \A k \in 1 .. (n - 1) : p[q[k]] \in Piece /\ p[q[k]] = s[k]
    BY <1>13, <2>1
  <2> HIDE DEF q, s
  <2>3. s1 \in Seq(Piece) /\ Len(s1) = n - 1
    BY <1>2, <2>2
  <2>4. \A k \in 1 .. (n - 1) : s1[k] = p[q[k]]
    OBVIOUS
  <2>5. QED BY <2>2, <2>3, <2>4
<1> HIDE DEF s, s1, q
<1>15. /\ Len(out) = 1 + n
       /\ \A i \in 1 .. (1 + n) : out[i] = IF i <= 1 THEN <<Empty>>[i] ELSE s[i - 1]
  <2>1. /\ Len(out) = Len(<<Empty>>) + Len(s)
        /\ \A i \in 1 .. (Len(<<Empty>>) + Len(s)) :
             out[i] = IF i <= Len(<<Empty>>) THEN <<Empty>>[i] ELSE s[i - Len(<<Empty>>)]
    BY <1>12, <1>13, ConcatProperties
  <2>2. QED BY <1>12, <1>13, <2>1
<1>16. out # << >> /\ out # <<Empty>>
  <2>1. Len(out) # 0 /\ Len(out) # 1 /\ Len(<< >>) = 0
    BY <1>2, <1>15
  <2>2. QED BY <1>12, <2>1
<1>17. Front(out) = <<Empty>> \o s1
  <2>1. /\ Front(out) \in Seq(Piece) /\ Len(Front(out)) = n
        /\ \A i \in 1 .. n : Front(out)[i] = out[i]
    <3>1. Len(out) - 1 = n
      BY <1>2, <1>15
    <3>2. /\ Front(out) \in Seq(Piece) /\ Len(Front(out)) = Len(out) - 1
          /\ \A i \in 1 .. (Len(out) - 1) : Front(out)[i] = out[i]
      BY <1>16, FrontOf
    <3>3. QED BY <3>1, <3>2
  <2>2. /\ <<Empty>> \o s1 \in Seq(Piece) /\ Len(<<Empty>> \o s1) = 1 + (n - 1)
        /\ \A i \in 1 .. (1 + (n - 1)) :
             (<<Empty>> \o s1)[i] = IF i <= 1 THEN <<Empty>>[i] ELSE s1[i - 1]
    <3>1. /\ <<Empty>> \o s1 \in Seq(Piece) /\ Len(<<Empty>> \o s1) = Len(<<Empty>>) + Len(s1)
          /\ \A i \in 1 .. (Len(<<Empty>>) + Len(s1)) :
               (<<Empty>> \o s1)[i] = IF i <= Len(<<Empty>>) THEN <<Empty>>[i] ELSE s1[i - Len(<<Empty>>)]
      BY <1>12, <1>14, ConcatProperties
    <3>2. QED BY <1>12, <1>14, <3>1
  <2>3. 1 + (n - 1) = n
    BY <1>2
  <2>4. \A i \in 1 .. n : Front(out)[i] = (<<Empty>> \o s1)[i]
    <3>1. ASSUME NEW i \in 1 .. n PROVE Front(out)[i] = (<<Empty>> \o s1)[i]
      <4>1. i \in 1 .. (1 + n) /\ (i <= 1 \/ i - 1 \in 1 .. (n - 1))
        BY <1>2
      <4>2. Front(out)[i] = IF i <= 1 THEN <<Empty>>[i] ELSE s[i - 1]
        BY <1>15, <2>1, <4>1
      <4>3. (<<Empty>> \o s1)[i] = IF i <= 1 THEN <<Empty>>[i] ELSE s1[i - 1]
        BY <2>2, <2>3
      <4>4. QED BY <1>14, <4>1, <4>2, <4>3
    <3>2. QED BY <3>1
  <2>5. QED BY <2>1, <2>2, <2>3, <2>4, SeqEqual
<1>18. Stack(p, m + 1, Front(out), q)
  BY <1>3, <1>10, <1>11, <1>17 DEF Stack, s1
<1>19. QED BY <1>16, <1>18 DEF q

\* The first piece is the root.
LEMMA StackFirst ==
  ASSUME NEW p \in Seq(Piece), p # << >>, p[1] = Empty
  PROVE  Stack(p, 1, <<Empty>>, << >>)
<1>1. Kept(p, 1) = {}
  <2>1. 2 .. 1 = {}
    OBVIOUS
  <2>2. QED BY <2>1 DEF Kept
<1>2. Enumerates(<< >>, 0, {}) /\ << >> \in Seq(Nat) /\ Len(<< >>) = 0
  BY DEF Enumerates
<1>3. <<Empty>> = <<Empty>> \o [k \in 1 .. 0 |-> p[<< >>[k]]]
  <2>1. [k \in 1 .. 0 |-> p[<< >>[k]]] = << >>
    OBVIOUS
  <2>2. <<Empty>> \in Seq(Piece)
    BY PieceTypes
  <2>3. <<Empty>> \o << >> = <<Empty>>
    BY <2>2, ConcatEmptySeq
  <2>4. QED BY <2>1, <2>3
<1>4. \A k \in 1 .. 0 : FALSE
  OBVIOUS
<1>5. QED BY <1>1, <1>2, <1>3, <1>4 DEF Stack

\* One round of the loop of normalize_path.
LEMMA StackStep ==
  ASSUME NEW p \in Seq(Piece), NEW m \in Nat \ {0}, m + 1 <= Len(p),
         NEW out \in Seq(Piece), NEW o, Stack(p, m, out, o)
  PROVE  \E q : Stack(p, m + 1, Descend(out, p[m + 1]), q)
<1>1. p[m + 1] \in Piece /\ \A i \in 1 .. m : p[i] \in Piece
  <2>1. Len(p) \in Nat
    OBVIOUS
  <2>2. \A i \in 1 .. (m + 1) : i \in 1 .. Len(p)
    BY <2>1
  <2>3. m + 1 \in 1 .. (m + 1) /\ \A i \in 1 .. m : i \in 1 .. (m + 1)
    OBVIOUS
  <2>4. QED BY <2>2, <2>3
<1>2. CASE p[m + 1] = Dot
  <2>1. Descend(out, p[m + 1]) = out
    BY <1>2 DEF Descend
  <2>2. QED BY <1>2, <2>1, StackDot
<1>3. CASE IsName(p[m + 1])
  <2>1. Descend(out, p[m + 1]) = Append(out, p[m + 1])
    BY <1>3 DEF Descend, IsName
  <2>2. QED BY <1>1, <1>3, <2>1, StackName
<1>4. CASE p[m + 1] = DotDot /\ Len(o) = 0
  <2>1. out = <<Empty>>
    <3>1. [k \in 1 .. 0 |-> p[o[k]]] = << >>
      OBVIOUS
    <3>2. <<Empty>> \in Seq(Piece)
      BY PieceTypes
    <3>3. <<Empty>> \o << >> = <<Empty>>
      BY <3>2, ConcatEmptySeq
    <3>4. out = <<Empty>> \o [k \in 1 .. Len(o) |-> p[o[k]]]
      BY DEF Stack
    <3>5. QED BY <1>4, <3>1, <3>3, <3>4
  <2>2. Descend(out, p[m + 1]) = out
    <3>1. DotDot # Dot
      <4>1. "." # ".."
        OBVIOUS
      <4>2. QED BY <4>1 DEF Dot, DotDot, Seg
    <3>2. QED BY <1>4, <2>1, <3>1 DEF Descend
  <2>3. QED BY <1>4, <2>2, StackRoot
<1>5. CASE p[m + 1] = DotDot /\ Len(o) # 0
  <2>1. out # << >> /\ out # <<Empty>> /\ Stack(p, m + 1, Front(out), Front(o))
    BY <1>1, <1>5, StackUp
  <2>2. Descend(out, p[m + 1]) = Front(out)
    <3>1. DotDot # Dot
      <4>1. "." # ".."
        OBVIOUS
      <4>2. QED BY <4>1 DEF Dot, DotDot, Seg
    <3>2. QED BY <1>5, <2>1, <3>1 DEF Descend
  <2>3. QED BY <2>1, <2>2
<1>6. QED BY <1>2, <1>3, <1>4, <1>5 DEF IsName

\* normalize_path of a path from the root: the root and the pieces not taken back.
LEMMA Resolved ==
  ASSUME NEW p \in Seq(Piece), p # << >>, p[1] = Empty
  PROVE  NormalizePath(p) =
           <<Empty>> \o Selected(p, {i \in 2 .. Len(p) : p[i] \notin {Dot, DotDot} /\ ~TakenBack(p, i)})
<1> DEFINE n == Len(p)
           K == {i \in 2 .. n : p[i] \notin {Dot, DotDot} /\ ~TakenBack(p, i)}
<1>1. n \in Nat \ {0}
  BY EmptySeq
<1>2. PICK g : DescendsBy(p, g) /\ \A m \in 0 .. n : g[m] \in Seq(Piece)
  BY DescendRuns
<1> DEFINE D == {m \in 0 .. (n - 1) : \E o : Stack(p, m + 1, g[m + 1], o)}
<1>3. 0 \in D
  <2>1. g[1] = Descend(<< >>, Empty)
    <3>1. 1 \in 1 .. n /\ 1 - 1 = 0
      BY <1>1
    <3>2. QED BY <1>2, <3>1 DEF DescendsBy
  <2>2. g[1] = <<Empty>>
    <3>1. Append(<< >>, Empty) = <<Empty>>
      OBVIOUS
    <3>2. QED BY <2>1, <3>1, PieceTypes DEF Descend
  <2>3. 0 \in 0 .. (n - 1) /\ 0 + 1 = 1
    BY <1>1
  <2>4. QED BY <2>2, <2>3, StackFirst
<1>4. ASSUME NEW m \in 0 .. ((n - 1) - 1), m \in D PROVE m + 1 \in D
  <2>1. /\ m + 1 \in Nat \ {0} /\ (m + 1) + 1 <= n /\ m + 1 \in 0 .. n
        /\ (m + 1) + 1 \in 1 .. n /\ ((m + 1) + 1) - 1 = m + 1 /\ m + 1 \in 0 .. (n - 1)
    BY <1>1
  <2>2. PICK o : Stack(p, m + 1, g[m + 1], o)
    BY <1>4
  <2>3. g[(m + 1) + 1] = Descend(g[m + 1], p[(m + 1) + 1]) /\ g[m + 1] \in Seq(Piece)
    BY <1>2, <2>1 DEF DescendsBy
  <2>4. \E q : Stack(p, (m + 1) + 1, Descend(g[m + 1], p[(m + 1) + 1]), q)
    BY <2>1, <2>2, <2>3, StackStep
  <2>5. QED BY <2>1, <2>3, <2>4
<1>5. n - 1 \in D
  <2> HIDE DEF D, n
  <2>1. n - 1 \in Nat /\ n - 1 \in 0 .. (n - 1)
    BY <1>1
  <2>2. 0 .. (n - 1) \subseteq D
    BY <1>3, <1>4, <2>1, FirstNumbers
  <2>3. QED BY <2>1, <2>2
<1>6. (n - 1) + 1 = n
  BY <1>1
<1>7. PICK o : Stack(p, n, g[n], o)
  BY <1>5, <1>6
<1>8. K = Kept(p, n)
  <2>1. ASSUME NEW i \in 2 .. n
        PROVE  p[i] \notin {Dot, DotDot} /\ ~TakenBack(p, i) <=>
                 IsName(p[i]) /\ ~\E j \in (i + 1)..n : Takes(p, i, j)
    BY TakenBackIs DEF IsName
  <2>2. QED BY <2>1 DEF Kept
<1> HIDE DEF K, D
<1>9. Kept(p, n) \in SUBSET Int /\ Enumerates(o, Len(o), Kept(p, n)) /\ Len(o) \in Nat
  BY <1>1, <1>7, KeptStep, StackOf DEF Stack
<1>10. Ascending(K) = o
  BY <1>8, <1>9, AscendingIs
<1>11. Selected(p, K) = [k \in 1 .. Len(o) |-> p[o[k]]]
  <2>1. DOMAIN o = 1 .. Len(o)
    BY <1>9 DEF Enumerates
  <2>2. QED BY <1>10, <2>1 DEF Selected
<1>12. g[n] = <<Empty>> \o Selected(p, K)
  BY <1>7, <1>11 DEF Stack
<1>13. g[n] # << >>
  <2>1. g[n] # << >>
    <3>1. [k \in 1 .. Len(o) |-> p[o[k]]] \in Seq(Piece)
      <4>1. \A k \in 1 .. Len(o) : o[k] \in 2 .. n
        BY <1>1, <1>7, StackOf
      <4>2. \A i \in 2 .. n : p[i] \in Piece
        BY <1>1
      <4>3. QED BY <1>9, <4>1, <4>2
    <3>2. <<Empty>> \in Seq(Piece) /\ <<Empty>> # << >>
      BY PieceTypes
    <3>3. QED BY <1>11, <1>12, <3>1, <3>2, ConcatEqualIffEmpty
  <2>2. QED BY <2>1
<1>14. NormalizePath(p) = g[n]
  BY <1>2, <1>13 DEF NormalizePath, DescendsBy, Joined
<1>15. QED BY <1>12, <1>14 DEF K

\* For any path a request is asked for, alone or behind any base URL: normalize_path leaves what
\* RFC 3986, 5.2.4, does, less the slash for a dot segment at the end: the root and the pieces
\* that no later ".." takes back, in their order.
THEOREM PathsResolved == Spec => []PathResolved
<1>1. UrlInv => PathResolved
  <2>1. SUFFICES ASSUME UrlInv, url # None, asked # None
        PROVE  url.path = <<Empty>> \o Selected(AskedPath,
                 {i \in 2 .. Len(AskedPath) : AskedPath[i] \notin {Dot, DotDot} /\ ~TakenBack(AskedPath, i)})
    BY DEF PathResolved, RemoveDotSegments, Dots
  <2>2. /\ AskedPath \in Seq(Piece) /\ AskedPath # << >> /\ FromRoot(AskedPath)
        /\ url.path = NormalizePath(AskedPath)
    BY <2>1 DEF UrlInv, PathInv
  <2>3. AskedPath[1] = Empty
    <3>1. <<Empty>>[1] = Empty
      OBVIOUS
    <3>2. QED BY <2>2, <3>1 DEF FromRoot, Rooted
  <2>4. QED BY <2>2, <2>3, Resolved
<1>2. QED BY <1>1, UrlInvHolds, PTL

-----------------------------------------------------------------------------
(***************************************************************************)
(* Which of the mounts is used, and what NO_PROXY exempts.                 *)
(***************************************************************************)
Five == [1 .. 5 -> Int]

\* x before y, the first of five numbers deciding first.
LexLess(x, y) ==
  \/ x[1] < y[1]
  \/ x[1] = y[1] /\ x[2] < y[2]
  \/ x[1] = y[1] /\ x[2] = y[2] /\ x[3] < y[3]
  \/ x[1] = y[1] /\ x[2] = y[2] /\ x[3] = y[3] /\ x[4] < y[4]
  \/ x[1] = y[1] /\ x[2] = y[2] /\ x[3] = y[3] /\ x[4] = y[4] /\ x[5] < y[5]

\* The order of tuples of five numbers is transitive and total.
LEMMA LexOrder ==
  /\ \A x \in Five, y \in Five : LexLess(x, y) => ~LexLess(y, x)
  /\ \A x \in Five, y \in Five, z \in Five : LexLess(x, y) /\ ~LexLess(z, y) => LexLess(x, z)
<1>1. \A x \in Five : x[1] \in Int /\ x[2] \in Int /\ x[3] \in Int /\ x[4] \in Int /\ x[5] \in Int
  BY DEF Five
<1>2. ASSUME NEW x \in Five, NEW y \in Five, LexLess(x, y) PROVE ~LexLess(y, x)
  BY <1>1, <1>2 DEF LexLess
<1>3. ASSUME NEW x \in Five, NEW y \in Five, NEW z \in Five, LexLess(x, y), ~LexLess(z, y)
      PROVE  LexLess(x, z)
  BY <1>1, <1>3, SMTT(60) DEF LexLess
<1>4. QED BY <1>2, <1>3

\* URLPattern.__lt__ compares tuples.
LEMMA BeforeIs ==
  ASSUME NEW p, NEW q, Priority(p) \in Five, Priority(q) \in Five
  PROVE  Before(p, q) <=> LexLess(Priority(p), Priority(q))
<1> DEFINE x == Priority(p)
           y == Priority(q)
           At(k) == x[k] < y[k] /\ \A j \in 1 .. (k - 1) : x[j] = y[j]
<1>1. Before(p, q) <=> \E k \in 1 .. 5 : At(k)
  BY DEF Before
<1> HIDE DEF x, y
<1>2. \A k \in 1 .. 5 : k = 1 \/ k = 2 \/ k = 3 \/ k = 4 \/ k = 5
  OBVIOUS
<1>3. /\ At(1) <=> x[1] < y[1]
      /\ At(2) <=> x[1] = y[1] /\ x[2] < y[2]
      /\ At(3) <=> x[1] = y[1] /\ x[2] = y[2] /\ x[3] < y[3]
  <2>1. 1 .. (1 - 1) = {} /\ 1 .. (2 - 1) = {1} /\ 1 .. (3 - 1) = {1, 2}
    OBVIOUS
  <2>2. QED BY <2>1
<1>4. /\ At(4) <=> x[1] = y[1] /\ x[2] = y[2] /\ x[3] = y[3] /\ x[4] < y[4]
      /\ At(5) <=> x[1] = y[1] /\ x[2] = y[2] /\ x[3] = y[3] /\ x[4] = y[4] /\ x[5] < y[5]
  <2>1. 1 .. (4 - 1) = {1, 2, 3} /\ 1 .. (5 - 1) = {1, 2, 3, 4}
    OBVIOUS
  <2>2. QED BY <2>1
<1>5. 1 \in 1 .. 5 /\ 2 \in 1 .. 5 /\ 3 \in 1 .. 5 /\ 4 \in 1 .. 5 /\ 5 \in 1 .. 5
  OBVIOUS
<1> HIDE DEF At
<1>6. (\E k \in 1 .. 5 : At(k)) <=> At(1) \/ At(2) \/ At(3) \/ At(4) \/ At(5)
  BY <1>2, <1>5
<1>7. QED BY <1>1, <1>3, <1>4, <1>6 DEF LexLess, x, y

\* Of some of the mounts, the one that is tried first.
Foremost(ms, fit, i) ==
  /\ i \in fit
  /\ \A j \in fit \ {i} : \/ Before(ms[i].pattern, ms[j].pattern)
                          \/ ~Before(ms[j].pattern, ms[i].pattern) /\ i < j

\* A stable sort of a finite table has a first pattern that matches, if any does.
LEMMA ForemostExists ==
  ASSUME NEW ms, NEW n \in Nat, NEW fit \in SUBSET (1 .. n), fit # {},
         \A i \in fit : Priority(ms[i].pattern) \in Five
  PROVE  \E i : Foremost(ms, fit, i)
<1> DEFINE R(i, j) == Before(ms[i].pattern, ms[j].pattern)
           C == {m \in 0 .. n : \/ fit \cap 1 .. m = {}
                                \/ \E i : Foremost(ms, fit \cap 1 .. m, i)}
<1>1. /\ \A i, j \in fit : R(i, j) => ~R(j, i)
      /\ \A i, j, k \in fit : R(i, j) /\ ~R(k, j) => R(i, k)
  <2> DEFINE X(i) == Priority(ms[i].pattern)
  <2>1. \A i \in fit : X(i) \in Five
    OBVIOUS
  <2>2. \A i, j \in fit : R(i, j) <=> LexLess(X(i), X(j))
    BY BeforeIs
  <2> HIDE DEF X, R
  <2>3. QED BY <2>1, <2>2, LexOrder
<1>2. \A ns, i : Foremost(ms, ns, i) <=>
        i \in ns /\ \A j \in ns \ {i} : R(i, j) \/ (~R(j, i) /\ i < j)
  BY DEF Foremost
<1> HIDE DEF R
<1>3. 0 \in C
  <2>1. 1 .. 0 = {}
    OBVIOUS
  <2>2. QED BY <2>1
<1>4. ASSUME NEW m \in 0 .. (n - 1), m \in C PROVE m + 1 \in C
  <2> DEFINE old == fit \cap 1 .. m
             new == fit \cap 1 .. (m + 1)
  <2>1. m + 1 \in 0 .. n /\ new = IF m + 1 \in fit THEN old \cup {m + 1} ELSE old
    <3>1. 1 .. (m + 1) = (1 .. m) \cup {m + 1}
      OBVIOUS
    <3>2. m + 1 \in 0 .. n
      OBVIOUS
    <3>3. QED BY <3>1, <3>2
  <2>2. \A j \in old : j \in fit /\ j \in Nat /\ j < m + 1
    OBVIOUS
  <2>3. old = {} \/ \E i : Foremost(ms, old, i)
    BY <1>4
  <2> HIDE DEF old, new
  <2>4. CASE m + 1 \notin fit
    BY <2>1, <2>3, <2>4 DEF old, new
  <2>5. CASE m + 1 \in fit /\ old = {}
    <3>1. new = {m + 1}
      BY <2>1, <2>5
    <3>2. Foremost(ms, new, m + 1)
      BY <1>2, <3>1
    <3>3. QED BY <2>1, <3>2 DEF new
  <2>6. CASE m + 1 \in fit /\ old # {}
    <3>1. PICK b : Foremost(ms, old, b)
      BY <2>3, <2>6
    <3>2. b \in old /\ b \in fit /\ b < m + 1 /\ new = old \cup {m + 1}
      BY <1>2, <2>1, <2>2, <2>6, <3>1
    <3>3. \A j \in old \ {b} : R(b, j) \/ (~R(j, b) /\ b < j)
      BY <1>2, <3>1
    <3>4. CASE R(m + 1, b)
      <4>1. \A j \in old : R(m + 1, j)
        <5>1. ASSUME NEW j \in old, j # b PROVE ~R(j, b)
          BY <1>1, <2>2, <3>2, <3>3, <5>1
        <5>2. QED BY <1>1, <2>2, <2>6, <3>2, <3>4, <5>1
      <4>2. Foremost(ms, new, m + 1)
        BY <1>2, <3>2, <4>1
      <4>3. QED BY <2>1, <4>2 DEF new
    <3>5. CASE ~R(m + 1, b)
      <4>1. Foremost(ms, new, b)
        BY <1>2, <3>2, <3>3, <3>5
      <4>2. QED BY <2>1, <4>1 DEF new
    <3>6. QED BY <3>4, <3>5
  <2>7. QED BY <2>4, <2>5, <2>6
<1>5. n \in C
  <2> HIDE DEF C
  <2>1. 0 .. n \subseteq C
    BY <1>3, <1>4, FirstNumbers
  <2>2. n \in 0 .. n
    OBVIOUS
  <2>3. QED BY <2>1, <2>2
<1>6. fit \cap 1 .. n = fit
  OBVIOUS
<1>7. QED BY <1>5, <1>6

\* An entry of the table that HTTP_PROXY, HTTPS_PROXY or ALL_PROXY gives.
Proxied(scheme) == Mount(Pattern(scheme, "any", "", None), "proxy")
\* An entry of the table that one of NO_PROXY gives.
Exempt(entry) == Mount(Exemption(entry), Direct)
\* The entries of NO_PROXY that are read as patterns.
Readable == {e \in Entries : e.form \notin {"star", "ignored"}}
\* The entries that get_environment_proxies can give.
EnvironmentMount == {Proxied(s) : s \in {"http", "https", "all"}} \cup {Exempt(e) : e \in Readable}

\* No port is no default port.
LEMMA PlainPort == \A scheme : NormalizePort(None, scheme) = None
  BY DEF NormalizePort

\* A scheme has a length, and only "all" has none.
LEMMA SchemeLengths ==
  /\ \A s \in Schemes : SchemeLength(s) \in Nat
  /\ SchemeLength("all") = 0
  /\ \A s \in Schemes \ {"all"} : SchemeLength(s) # 0
<1>1. /\ SchemeLength("all") = 0 /\ SchemeLength("ws") = 2 /\ SchemeLength("wss") = 3
      /\ SchemeLength("http") = 4 /\ SchemeLength("https") = 5
  BY DEF SchemeLength
<1>2. \A s \in Schemes : s = "all" \/ s = "ws" \/ s = "wss" \/ s = "http" \/ s = "https"
  BY DEF Schemes
<1>3. QED BY <1>1, <1>2

\* A pattern without a host has no length to take off.
LEMMA NoMinus ==
  ASSUME NEW x \in Int, x = 0
  PROVE  -x = 0
<1>1. \A y \in Int : -y = 0 - y
  OBVIOUS
<1>2. -x = 0 - x
  BY <1>1
<1>3. 0 - x = 0
  OBVIOUS
<1>4. QED BY <1>2, <1>3, Zenon

\* What the entry of a proxy matches, and where it comes.
LEMMA ProxiedIs ==
  ASSUME NEW s \in {"http", "https", "all"}
  PROVE  /\ Proxied(s).transport = "proxy" /\ Proxied(s).pattern = Pattern(s, "any", "", None)
         /\ \A u : Matches(Proxied(s).pattern, u) <=> s = "all" \/ s = u.scheme
         /\ s \in Schemes /\ Priority(Proxied(s).pattern) = <<1, 2, 0, 0, -SchemeLength(s)>>
         /\ Priority(Proxied(s).pattern) \in Five
<1> DEFINE p == [scheme |-> s, kind |-> "any", host |-> "", port |-> None]
<1>1. Pattern(s, "any", "", None) = p
  BY DEF Pattern
<1>11. Proxied(s) = [pattern |-> p, transport |-> "proxy"]
  BY <1>1 DEF Proxied, Mount
<1>2. PortOf(p) = None
  BY PlainPort DEF PortOf
<1>3. \A u : Matches(p, u) <=> s = "all" \/ s = u.scheme
  BY <1>2 DEF Matches, MatchesHost
<1>4. -HostLength(p) = 0
  <2>1. p.kind = "any"
    OBVIOUS
  <2> HIDE DEF p
  <2>2. HostLength(p) = 0
    BY <2>1 DEF HostLength
  <2>3. HostLength(p) \in Int
    BY <2>2
  <2>4. QED BY <2>2, <2>3, NoMinus
<1>5. Priority(p) = <<1, 2, 0, 0, -SchemeLength(s)>>
  <2>1. p.kind = "any" /\ p.scheme = s
    OBVIOUS
  <2> HIDE DEF p
  <2>2. QED BY <1>2, <1>4, <2>1 DEF Priority
<1>6. s \in Schemes
  BY DEF Schemes
<1> HIDE DEF p
<1>9. Proxied(s).pattern = p /\ Proxied(s).transport = "proxy"
  BY <1>11
<1>7. \A x \in Nat : <<1, 2, 0, 0, -x>> \in Five
  BY DEF Five
<1>8. Priority(p) \in Five
  BY <1>5, <1>6, <1>7, SchemeLengths
<1>10. QED BY <1>1, <1>3, <1>5, <1>6, <1>8, <1>9

\* The kind of host an entry is read as.
LEMMA ExemptionIs ==
  ASSUME NEW entry \in Readable
  PROVE  LET p == Exemption(entry)
         IN  /\ p.scheme = entry.scheme /\ p.host = entry.host /\ p.port = entry.port
             /\ entry.scheme \in Schemes /\ WellFormed(p)
             /\ \/ entry.form \in {"name", "domain"} /\ p.kind = "domain"
                \/ entry.form \in {"dot", "sub"} /\ p.kind = "sub"
                \/ entry.form \in {"network", "net"} /\ p.kind = "net"
                \/ entry.form \in {"address", "exact"} /\ p.kind = "exact"
                \/ entry.form = "any" /\ p.kind = "any"
             /\ \A s : p = Pattern(s, "any", "", None)
                         <=> entry = [form |-> "any", scheme |-> s, host |-> "", port |-> None]
<1> DEFINE f == entry.form
           kind == CASE f = "name" -> "domain" [] f = "dot" -> "sub"
                     [] f = "network" -> "net" [] f = "address" -> "exact" [] OTHER -> f
           p == [scheme |-> entry.scheme, kind |-> kind, host |-> entry.host, port |-> entry.port]
<1>1. Exemption(entry) = p
  BY DEF Exemption, Pattern
<1>2. entry \in Entries /\ f \notin {"star", "ignored"}
  BY DEF Readable
<1>3. /\ entry \in [form : {"star", "ignored"} \cup Bare \cup Kinds, scheme : Schemes, host : STRING, port : Port]
      /\ f \in Bare \cup Kinds => WellFormed(Exemption(entry))
  BY <1>2 DEF Entries
<1>4. f \in Bare \cup Kinds /\ entry.scheme \in Schemes
  BY <1>2, <1>3
<1>5. \/ f \in {"name", "domain"} /\ kind = "domain"
      \/ f \in {"dot", "sub"} /\ kind = "sub"
      \/ f \in {"network", "net"} /\ kind = "net"
      \/ f \in {"address", "exact"} /\ kind = "exact"
      \/ f = "any" /\ kind = "any"
  BY <1>4 DEF Bare, Kinds
<1>6. p.scheme = entry.scheme /\ p.host = entry.host /\ p.port = entry.port /\ p.kind = kind
  OBVIOUS
<1>7. entry = [form |-> f, scheme |-> entry.scheme, host |-> entry.host, port |-> entry.port]
  BY <1>3
<1>8. kind = "any" <=> f = "any"
  BY <1>5
<1> HIDE DEF kind
<1>9. ASSUME NEW s
      PROVE  p = Pattern(s, "any", "", None)
               <=> entry = [form |-> "any", scheme |-> s, host |-> "", port |-> None]
  <2>1. p = Pattern(s, "any", "", None)
          <=> entry.scheme = s /\ kind = "any" /\ entry.host = "" /\ entry.port = None
    BY DEF Pattern
  <2>2. entry = [form |-> "any", scheme |-> s, host |-> "", port |-> None]
          <=> f = "any" /\ entry.scheme = s /\ entry.host = "" /\ entry.port = None
    <3>1. ASSUME entry = [form |-> "any", scheme |-> s, host |-> "", port |-> None]
          PROVE  f = "any" /\ entry.scheme = s /\ entry.host = "" /\ entry.port = None
      BY <3>1
    <3>2. ASSUME f = "any", entry.scheme = s, entry.host = "", entry.port = None
          PROVE  entry = [form |-> "any", scheme |-> s, host |-> "", port |-> None]
      BY <1>7, <3>2
    <3>3. QED BY <3>1, <3>2
  <2>3. QED BY <1>8, <2>1, <2>2
<1> HIDE DEF p
<1>10. QED BY <1>1, <1>3, <1>4, <1>5, <1>6, <1>9

\* An entry of NO_PROXY matches the URLs it names.
LEMMA ExemptMatches ==
  ASSUME NEW entry \in Readable, NEW u
  PROVE  Matches(Exemption(entry), u) <=> Named(entry, u)
<1> DEFINE p == Exemption(entry)
<1>1. /\ p.scheme = entry.scheme /\ p.host = entry.host /\ p.port = entry.port
      /\ \/ entry.form \in {"name", "domain"} /\ p.kind = "domain"
         \/ entry.form \in {"dot", "sub"} /\ p.kind = "sub"
         \/ entry.form \in {"network", "net"} /\ p.kind = "net"
         \/ entry.form \in {"address", "exact"} /\ p.kind = "exact"
         \/ entry.form = "any" /\ p.kind = "any"
  BY ExemptionIs
<1> HIDE DEF p
<1> DEFINE names == CASE entry.form \in {"name", "domain"} -> IsSuffix(Labels[entry.host], Labels[u.host])
                      [] entry.form \in {"dot", "sub"} -> IsStrictSuffix(Labels[entry.host], Labels[u.host])
                      [] entry.form \in {"network", "net"} -> u.host \in Networks[entry.host]
                      [] entry.form \in {"address", "exact"} -> u.host = entry.host
                      [] entry.form = "any" -> TRUE
                      [] OTHER -> FALSE
<1>2. MatchesHost(p, u.host) <=> names
  <2>1. CASE entry.form \in {"name", "domain"} /\ p.kind = "domain"
    BY <1>1, <2>1 DEF MatchesHost
  <2>2. CASE entry.form \in {"dot", "sub"} /\ p.kind = "sub"
    BY <1>1, <2>2 DEF MatchesHost
  <2>3. CASE entry.form \in {"network", "net"} /\ p.kind = "net"
    BY <1>1, <2>3 DEF MatchesHost
  <2>4. CASE entry.form \in {"address", "exact"} /\ p.kind = "exact"
    BY <1>1, <2>4 DEF MatchesHost
  <2>5. CASE entry.form = "any" /\ p.kind = "any"
    BY <1>1, <2>5 DEF MatchesHost
  <2>6. QED BY <1>1, <2>1, <2>2, <2>3, <2>4, <2>5
<1>3. PortOf(p) = NormalizePort(entry.port, entry.scheme)
  BY <1>1 DEF PortOf
<1>4. Named(entry, u) <=> /\ entry.scheme \in {"all", u.scheme}
                          /\ NormalizePort(entry.port, entry.scheme) \in {None, u.port} /\ names
  BY DEF Named
<1> HIDE DEF names
<1>5. Matches(p, u) <=> (p.scheme = "all" \/ p.scheme = u.scheme) /\ MatchesHost(p, u.host)
                           /\ (PortOf(p) = None \/ PortOf(p) = u.port)
  BY DEF Matches
<1>6. QED BY <1>1, <1>2, <1>3, <1>4, <1>5 DEF p

\* Where an entry of NO_PROXY comes: by its port, its host, its scheme.
LEMMA ExemptPriority ==
  ASSUME NEW entry \in Readable
  PROVE  LET x == Priority(Exemption(entry))
         IN  /\ x \in Five
             /\ x[1] = IF NormalizePort(entry.port, entry.scheme) # None THEN 0 ELSE 1
             /\ entry.form # "any" => x[2] \in {0, 1}
             /\ entry.form = "any" => /\ x[2] = 2 /\ x[3] = 0 /\ x[4] = 0
                                      /\ x[5] = -SchemeLength(entry.scheme)
<1> DEFINE p == Exemption(entry)
           e == SchemeLength(p.scheme)
           port == IF PortOf(p) # None THEN 0 ELSE 1
<1>1. /\ p.scheme = entry.scheme /\ p.host = entry.host /\ p.port = entry.port
      /\ p.scheme \in Schemes /\ WellFormed(p)
      /\ \/ entry.form # "any" /\ p.kind \in {"domain", "sub", "exact"}
         \/ entry.form # "any" /\ p.kind = "net"
         \/ entry.form = "any" /\ p.kind = "any"
  <2>1. "any" \notin {"name", "domain"} /\ "any" \notin {"dot", "sub"}
        /\ "any" \notin {"network", "net"} /\ "any" \notin {"address", "exact"}
    OBVIOUS
  <2>2. QED BY <2>1, ExemptionIs
<1>2. e \in Nat
  BY <1>1, SchemeLengths
<1>3. PortOf(p) = NormalizePort(entry.port, entry.scheme)
  BY <1>1 DEF PortOf
<1> HIDE DEF p
<1>4. port \in Int /\ port = IF NormalizePort(entry.port, entry.scheme) # None THEN 0 ELSE 1
  BY <1>3
<1>5. \A a, b, c, d, f \in Int : LET t == <<a, b, c, d, f>>
                                 IN  t \in Five /\ t[1] = a /\ t[2] = b /\ t[3] = c /\ t[4] = d /\ t[5] = f
  BY DEF Five
<1>6. -e \in Int /\ 0 \in Int /\ 1 \in Int /\ 2 \in Int
  BY <1>2
<1>7. CASE entry.form # "any" /\ p.kind \in {"domain", "sub", "exact"}
  <2>1. p.host \in DOMAIN Labels \/ p.kind = "domain" \/ p.kind = "sub"
    BY <1>1, <1>7 DEF WellFormed
  <2>2. Length[p.host] \in Nat
    BY <1>1, <1>7, MountAssumption DEF WellFormed
  <2>3. HostLength(p) \in Nat
    <3>1. CASE p.kind = "domain"
      BY <2>2, <3>1 DEF HostLength
    <3>2. CASE p.kind = "sub"
      BY <2>2, <3>2 DEF HostLength
    <3>3. CASE p.kind = "exact"
      BY <2>2, <3>3 DEF HostLength
    <3>4. QED BY <1>7, <3>1, <3>2, <3>3
  <2>4. -HostLength(p) \in Int
    BY <2>3
  <2>5. p.kind # "net" /\ p.kind # "any"
    BY <1>7
  <2>6. Priority(p) = <<port, 0, 0, -HostLength(p), -e>>
    BY <2>5 DEF Priority
  <2> HIDE DEF port, e
  <2>7. QED BY <1>4, <1>5, <1>6, <1>7, <2>4, <2>6 DEF p
<1>8. CASE entry.form # "any" /\ p.kind = "net"
  <2>1. IsFiniteSet(Networks[p.host])
    BY <1>1, <1>8, MountAssumption DEF WellFormed
  <2>2. Cardinality(Networks[p.host]) \in Int
    BY <2>1, FS_CardinalityType
  <2>3. Priority(p) = <<port, 1, Cardinality(Networks[p.host]), 0, -e>>
    BY <1>8 DEF Priority
  <2> HIDE DEF port, e
  <2>4. QED BY <1>4, <1>5, <1>6, <1>8, <2>2, <2>3 DEF p
<1>9. CASE entry.form = "any" /\ p.kind = "any"
  <2>1. -HostLength(p) = 0
    <3>1. HostLength(p) = 0
      BY <1>9 DEF HostLength
    <3>2. HostLength(p) \in Int
      BY <3>1
    <3>3. QED BY <3>1, <3>2, NoMinus
  <2>2. Priority(p) = <<port, 2, 0, 0, -e>>
    BY <1>9, <2>1 DEF Priority
  <2>3. -e = -SchemeLength(entry.scheme)
    BY <1>1
  <2> HIDE DEF port, e
  <2>4. QED BY <1>4, <1>5, <1>6, <1>9, <2>2, <2>3 DEF p
<1>10. QED BY <1>1, <1>7, <1>8, <1>9

\* A proxy comes after the entries it yields to, its own pattern apart, and before no other of
\* those that name the URL.
LEMMA YieldsIs ==
  ASSUME NEW entry \in Readable, NEW s \in {"http", "https", "all"}
  PROVE  /\ YieldsTo(s, entry) /\ Exemption(entry) # Proxied(s).pattern =>
              LexLess(Priority(Exemption(entry)), Priority(Proxied(s).pattern))
         /\ YieldsTo(s, entry) \/ Exemption(entry) # Proxied(s).pattern
         /\ \A u : ~YieldsTo(s, entry) /\ Named(entry, u) /\ s \in {u.scheme, "all"} =>
                     ~LexLess(Priority(Exemption(entry)), Priority(Proxied(s).pattern))
<1> DEFINE x == Priority(Exemption(entry))
           y == Priority(Proxied(s).pattern)
           own == [form |-> "any", scheme |-> s, host |-> "", port |-> None]
<1>1. /\ x \in Five
      /\ x[1] = IF NormalizePort(entry.port, entry.scheme) # None THEN 0 ELSE 1
      /\ entry.form # "any" => x[2] \in {0, 1}
      /\ entry.form = "any" => x[2] = 2 /\ x[3] = 0 /\ x[4] = 0 /\ x[5] = -SchemeLength(entry.scheme)
  BY ExemptPriority
<1>2. y = <<1, 2, 0, 0, -SchemeLength(s)>> /\ s \in Schemes
  BY ProxiedIs
<1>3. entry.scheme \in Schemes /\ (Exemption(entry) = Proxied(s).pattern <=> entry = own)
  <2>1. Proxied(s).pattern = Pattern(s, "any", "", None)
    BY ProxiedIs
  <2>2. entry.scheme \in Schemes /\ (Exemption(entry) = Pattern(s, "any", "", None) <=> entry = own)
    BY ExemptionIs
  <2>3. QED BY <2>1, <2>2
<1>4. YieldsTo(s, entry) <=> \/ entry.form # "any"
                             \/ NormalizePort(entry.port, entry.scheme) # None
                             \/ entry = own
                             \/ s = "all" /\ entry.scheme # "all"
  BY DEF YieldsTo
<1> DEFINE a == SchemeLength(entry.scheme)
           b == SchemeLength(s)
<1>5. a \in Nat /\ b \in Nat /\ (entry.scheme = "all" => a = 0)
      /\ (s = "all" => b = 0) /\ (entry.scheme # "all" => a # 0) /\ (entry.scheme = s => a = b)
  BY <1>2, <1>3, SchemeLengths
<1>6. y[1] = 1 /\ y[2] = 2 /\ y[3] = 0 /\ y[4] = 0 /\ y[5] = -b
  BY <1>2
<1>7. \A u : Named(entry, u) => entry.scheme \in {"all", u.scheme}
  BY DEF Named
<1> HIDE DEF own, x, y, a, b
<1>8. ASSUME YieldsTo(s, entry), entry # own PROVE LexLess(x, y)
  <2>1. CASE NormalizePort(entry.port, entry.scheme) # None
    BY <1>1, <1>6, <2>1 DEF LexLess
  <2>2. CASE NormalizePort(entry.port, entry.scheme) = None /\ entry.form # "any"
    BY <1>1, <1>6, <2>2 DEF LexLess
  <2>3. CASE NormalizePort(entry.port, entry.scheme) = None /\ entry.form = "any"
    <3>1. s = "all" /\ entry.scheme # "all"
      BY <1>4, <1>8, <2>3
    <3>2. x[5] < y[5]
      BY <1>1, <1>5, <1>6, <2>3, <3>1 DEF a
    <3>3. QED BY <1>1, <1>6, <2>3, <3>2 DEF LexLess
  <2>4. QED BY <2>1, <2>2, <2>3
<1>9. ASSUME NEW u, ~YieldsTo(s, entry), Named(entry, u), s \in {u.scheme, "all"}
      PROVE  ~LexLess(x, y)
  <2>1. /\ entry.form = "any" /\ NormalizePort(entry.port, entry.scheme) = None
        /\ s = "all" => entry.scheme = "all"
    BY <1>4, <1>9
  <2>2. entry.scheme = "all" \/ entry.scheme = s
    BY <1>7, <1>9, <2>1
  <2>3. x[1] = 1 /\ x[2] = 2 /\ x[3] = 0 /\ x[4] = 0 /\ x[5] = -a
    BY <1>1, <2>1 DEF a
  <2>4. ~(-a < -b)
    BY <1>5, <2>2
  <2>5. QED BY <1>6, <2>3, <2>4 DEF LexLess
<1>10. QED BY <1>3, <1>4, <1>8, <1>9 DEF x, y

\* The schemes that have a proxy, each once.
LEMMA ProxiedSchemes ==
  ASSUME NEW schemes \in SUBSET {"http", "https", "all"}
  PROVE  LET all == <<"http", "https", "all">>
             proxied == Selected(all, {k \in 1..3 : all[k] \in schemes})
         IN  /\ proxied \in Seq({"http", "https", "all"})
             /\ \A k \in 1 .. Len(proxied) : proxied[k] \in schemes
             /\ \A s \in schemes : \E k \in 1 .. Len(proxied) : proxied[k] = s
<1> DEFINE S == {"http", "https", "all"}
           all == <<"http", "https", "all">>
           K == {k \in 1..3 : all[k] \in schemes}
<1>1. all \in Seq(S) /\ Len(all) = 3
  OBVIOUS
<1>2. \A s \in schemes : \E k \in K : all[k] = s
  <2>1. all[1] = "http" /\ all[2] = "https" /\ all[3] = "all"
    OBVIOUS
  <2>2. 1 \in 1 .. 3 /\ 2 \in 1 .. 3 /\ 3 \in 1 .. 3
    OBVIOUS
  <2> HIDE DEF all
  <2>3. \A s \in schemes : s = "http" \/ s = "https" \/ s = "all"
    OBVIOUS
  <2>4. QED BY <2>1, <2>2, <2>3
<1>3. \A k \in K : all[k] \in schemes
  OBVIOUS
<1>4. K \in SUBSET (1 .. 3) /\ 3 \in Nat /\ 3 <= Len(all)
  BY <1>1
<1> DEFINE r == Selected(all, K)
<1> HIDE DEF K, all, S
<1>5. /\ r \in Seq(S)
      /\ \A k \in 1 .. Len(r) : \E i \in K : r[k] = all[i]
      /\ \A i \in K : \E k \in 1 .. Len(r) : r[k] = all[i]
  BY <1>1, <1>4, SelectedElements, ZenonT(60)
<1> HIDE DEF r
<1>6. /\ r \in Seq(S)
      /\ \A k \in 1 .. Len(r) : r[k] \in schemes
      /\ \A s \in schemes : \E k \in 1 .. Len(r) : r[k] = s
  BY <1>2, <1>3, <1>5
<1>7. QED BY <1>6 DEF r, K, all, S

\* The entries of a setting of NO_PROXY that are read as patterns.
Read(noProxy) == {noProxy[k] : k \in {k \in DOMAIN noProxy : noProxy[k].form # "ignored"}}

\* What the environment writes: the proxies in front, the exemptions behind them.
EnvironmentOf(ms, n, schemes, noProxy) ==
  /\ ms \in Seq(EnvironmentMount) /\ n \in Nat /\ n <= Len(ms)
  /\ \A i \in 1 .. n : \E s \in schemes : ms[i] = Proxied(s)
  /\ \A s \in schemes : \E i \in 1 .. n : ms[i] = Proxied(s)
  /\ \A i \in (n + 1) .. Len(ms) : \E e \in Read(noProxy) : ms[i] = Exempt(e)
  /\ \A e \in Read(noProxy) : \E i \in (n + 1) .. Len(ms) : ms[i] = Exempt(e)

\* The table get_environment_proxies makes, in its order.
LEMMA EnvironmentIs ==
  ASSUME NEW schemes \in SUBSET {"http", "https", "all"}, NEW noProxy \in Seq(Entries),
         \A k \in DOMAIN noProxy : noProxy[k].form # "star"
  PROVE  /\ Read(noProxy) \subseteq Readable
         /\ \E n : EnvironmentOf(EnvironmentMounts(schemes, noProxy), n, schemes, noProxy)
<1> DEFINE S == {"http", "https", "all"}
           all == <<"http", "https", "all">>
           proxied == Selected(all, {k \in 1..3 : all[k] \in schemes})
           K == {k \in DOMAIN noProxy : noProxy[k].form # "ignored"}
           read == Selected(noProxy, K)
           P == [k \in DOMAIN proxied |-> Proxied(proxied[k])]
           X == [k \in DOMAIN read |-> Exempt(read[k])]
           n == Len(proxied)
           x == Len(read)
<1>1. /\ proxied \in Seq(S)
      /\ \A k \in 1 .. n : proxied[k] \in schemes
      /\ \A s \in schemes : \E k \in 1 .. n : proxied[k] = s
  BY ProxiedSchemes
<1>2. EnvironmentMounts(schemes, noProxy) = P \o X
  BY DEF EnvironmentMounts, Proxied, Exempt
<1>21. Len(noProxy) \in Nat /\ DOMAIN noProxy = 1 .. Len(noProxy) /\ K \in SUBSET (1 .. Len(noProxy))
  OBVIOUS
<1>22. \A k \in DOMAIN noProxy : noProxy[k] \in Entries
  OBVIOUS
<1>23. Read(noProxy) = {noProxy[k] : k \in K} /\ Read(noProxy) \subseteq Readable
  BY <1>22 DEF Read, Readable
<1> HIDE DEF proxied, K
<1>24. /\ read \in Seq(Entries)
       /\ \A k \in 1 .. x : \E i \in K : read[k] = noProxy[i]
       /\ \A i \in K : \E k \in 1 .. x : read[k] = noProxy[i]
  <2>1. Len(noProxy) <= Len(noProxy)
    BY <1>21
  <2>2. QED BY <1>21, <2>1, SelectedElements
<1> HIDE DEF read
<1>25. /\ \A k \in 1 .. x : read[k] \in Read(noProxy) /\ read[k] \in Readable
       /\ \A e \in Read(noProxy) : \E k \in 1 .. x : read[k] = e
  <2>1. /\ \A i \in K : noProxy[i] \in Read(noProxy)
        /\ \A e \in Read(noProxy) : \E i \in K : e = noProxy[i]
    BY <1>23
  <2> HIDE DEF x
  <2>2. \A k \in 1 .. x : read[k] \in Read(noProxy)
    BY <1>24, <2>1 DEF x
  <2>3. \A e \in Read(noProxy) : \E k \in 1 .. x : read[k] = e
    BY <1>24, <2>1 DEF x
  <2>4. QED BY <1>23, <2>2, <2>3
<1>3. n \in Nat /\ x \in Nat /\ DOMAIN proxied = 1 .. n /\ DOMAIN read = 1 .. x
  BY <1>1, <1>24
<1>4. \A k \in 1 .. n : Proxied(proxied[k]) \in EnvironmentMount
  BY <1>1 DEF EnvironmentMount
<1>5. \A k \in 1 .. x : Exempt(read[k]) \in EnvironmentMount
  BY <1>25 DEF EnvironmentMount
<1>6. /\ P \in Seq(EnvironmentMount) /\ Len(P) = n
      /\ \A k \in 1 .. n : P[k] = Proxied(proxied[k])
  <2>1. P = [k \in 1 .. n |-> Proxied(proxied[k])]
    BY <1>3
  <2> HIDE DEF P, n
  <2>2. QED BY <1>3, <1>4, <2>1
<1>7. /\ X \in Seq(EnvironmentMount) /\ Len(X) = x
      /\ \A k \in 1 .. x : X[k] = Exempt(read[k])
  <2>1. X = [k \in 1 .. x |-> Exempt(read[k])]
    BY <1>3
  <2> HIDE DEF X, x
  <2>2. QED BY <1>3, <1>5, <2>1
<1> DEFINE M == P \o X
<1> HIDE DEF P, X, n, x
<1>8. /\ M \in Seq(EnvironmentMount) /\ Len(M) = n + x
      /\ \A i \in 1 .. (n + x) : M[i] = IF i <= n THEN P[i] ELSE X[i - n]
  BY <1>6, <1>7, ConcatProperties
<1> HIDE DEF M
<1>9. \A i \in 1 .. n : i \in 1 .. (n + x) /\ i <= n
  BY <1>3
<1>10. /\ \A i \in (n + 1) .. (n + x) : i \in 1 .. (n + x) /\ ~ (i <= n) /\ i - n \in 1 .. x
       /\ \A k \in 1 .. x : n + k \in (n + 1) .. (n + x) /\ (n + k) - n = k
  BY <1>3
<1>11. \A i \in 1 .. n : M[i] = Proxied(proxied[i])
  BY <1>6, <1>8, <1>9
<1>12. \A i \in (n + 1) .. (n + x) : M[i] = Exempt(read[i - n])
  BY <1>7, <1>8, <1>10
<1>13. \A k \in 1 .. x : M[n + k] = Exempt(read[k])
  BY <1>10, <1>12
<1>14. \A i \in 1 .. n : \E s \in schemes : M[i] = Proxied(s)
  BY <1>1, <1>11 DEF n
<1>15. \A s \in schemes : \E i \in 1 .. n : M[i] = Proxied(s)
  BY <1>1, <1>11 DEF n
<1>16. \A i \in (n + 1) .. (n + x) : \E e \in Read(noProxy) : M[i] = Exempt(e)
  BY <1>10, <1>12, <1>25 DEF x
<1>17. \A e \in Read(noProxy) : \E i \in (n + 1) .. (n + x) : M[i] = Exempt(e)
  <2>1. SUFFICES ASSUME NEW e \in Read(noProxy) PROVE \E i \in (n + 1) .. (n + x) : M[i] = Exempt(e)
    OBVIOUS
  <2>2. PICK k \in 1 .. x : read[k] = e
    BY <1>25 DEF x
  <2>3. QED BY <1>10, <1>13, <2>2
<1>18. n <= n + x
  BY <1>3
<1>19. EnvironmentOf(M, n, schemes, noProxy)
  BY <1>3, <1>8, <1>14, <1>15, <1>16, <1>17, <1>18 DEF EnvironmentOf
<1>20. QED BY <1>2, <1>19, <1>23 DEF M

\* A dict has every key that was written, no later than it was, with its last value.
LEMMA DictIs ==
  ASSUME NEW S, NEW w \in Seq(S)
  PROVE  LET d == DictOf(w)
         IN  /\ DOMAIN d \subseteq 1 .. Len(w)
             /\ \A i \in DOMAIN d : \E j \in 1 .. Len(w) :
                  /\ d[i] = w[j] /\ w[j].pattern = w[i].pattern
                  /\ \A k \in (j + 1) .. Len(w) : w[k].pattern # w[i].pattern
             /\ \A j \in 1 .. Len(w) : \E i \in DOMAIN d : i <= j /\ w[i].pattern = w[j].pattern
<1> DEFINE n == Len(w)
           First == {i \in DOMAIN w : \A j \in 1 .. (i - 1) : w[j].pattern # w[i].pattern}
           IsLast(i, j) == /\ w[j].pattern = w[i].pattern
                           /\ \A k \in (j + 1) .. n : w[k].pattern # w[i].pattern
           d == [i \in First |-> w[CHOOSE j \in DOMAIN w : IsLast(i, j)]]
<1>1. n \in Nat /\ DOMAIN w = 1 .. n
  OBVIOUS
<1>2. DictOf(w) = d
  BY DEF DictOf
<1>3. ASSUME NEW j \in 1 .. n
      PROVE  \E i \in First : i <= j /\ w[i].pattern = w[j].pattern
  <2> DEFINE T == {i \in 1 .. n : w[i].pattern = w[j].pattern}
  <2>1. T \in SUBSET Nat /\ j \in T /\ T # {}
    BY <1>1
  <2>2. PICK i \in T : \A m \in T : i <= m
    BY <2>1, LeastNat
  <2>3. i \in 1 .. n /\ w[i].pattern = w[j].pattern /\ i <= j
    BY <2>1, <2>2
  <2>4. ASSUME NEW m \in 1 .. (i - 1) PROVE w[m].pattern # w[i].pattern
    <3>1. m \in 1 .. n /\ ~(i <= m)
      BY <1>1, <2>3
    <3>2. m \notin T
      BY <2>2, <3>1
    <3>3. QED BY <2>3, <3>1, <3>2
  <2> HIDE DEF T
  <2>5. QED BY <1>1, <2>3, <2>4
<1>4. ASSUME NEW i \in 1 .. n
      PROVE  \E j \in 1 .. n : IsLast(i, j)
  <2> DEFINE T == {j \in 1 .. n : w[j].pattern = w[i].pattern}
             U == {n - j : j \in T}
  <2>1. U \in SUBSET Nat /\ n - i \in U /\ U # {}
    BY <1>1
  <2>2. PICK m \in U : \A o \in U : m <= o
    BY <2>1, LeastNat
  <2>3. PICK j \in T : m = n - j
    BY <2>2
  <2>4. j \in 1 .. n /\ w[j].pattern = w[i].pattern
    OBVIOUS
  <2>5. ASSUME NEW k \in (j + 1) .. n PROVE w[k].pattern # w[i].pattern
    <3>1. k \in 1 .. n /\ ~(n - j <= n - k)
      BY <1>1, <2>4
    <3>2. n - k \notin U
      BY <2>2, <2>3, <3>1
    <3>3. k \notin T
      BY <3>2
    <3>4. QED BY <3>1, <3>3
  <2> HIDE DEF T, U
  <2>6. QED BY <2>4, <2>5
<1>5. First \subseteq 1 .. n
  BY <1>1
<1> HIDE DEF First, IsLast
<1>6. ASSUME NEW i \in First
      PROVE  \E j \in 1 .. n : d[i] = w[j] /\ IsLast(i, j)
  <2> DEFINE c == CHOOSE j \in DOMAIN w : IsLast(i, j)
  <2>1. \E j \in DOMAIN w : IsLast(i, j)
    BY <1>1, <1>4, <1>5
  <2>2. c \in DOMAIN w /\ IsLast(i, c)
    BY <2>1
  <2>3. d[i] = w[c]
    OBVIOUS
  <2> HIDE DEF c
  <2>4. QED BY <1>1, <2>2, <2>3
<1>7. DOMAIN d = First
  OBVIOUS
<1> HIDE DEF d
<1>8. \A i \in DOMAIN d : \E j \in 1 .. n : /\ d[i] = w[j] /\ w[j].pattern = w[i].pattern
                                           /\ \A k \in (j + 1) .. n : w[k].pattern # w[i].pattern
  BY <1>6, <1>7 DEF IsLast
<1>9. QED BY <1>2, <1>3, <1>5, <1>7, <1>8

\* The dict of the environment: proxies that no entry is written over, and entries; the keys of
\* the proxies have the first places.
TableOf(d, n, schemes, read) ==
  /\ n \in Nat /\ \E size \in Nat : DOMAIN d \subseteq 1 .. size
  /\ \A i \in DOMAIN d :
       \/ \E s \in schemes : d[i] = Proxied(s) /\ \A e \in read : Exemption(e) # Proxied(s).pattern
       \/ \E e \in read : d[i] = Exempt(e)
  /\ \A s \in schemes : \E i \in DOMAIN d : i <= n /\ d[i].pattern = Proxied(s).pattern
  /\ \A e \in read : \E i \in DOMAIN d : d[i].pattern = Exemption(e)
  /\ \A i \in DOMAIN d : i <= n => \E s \in schemes : d[i].pattern = Proxied(s).pattern

\* What is written by the environment makes such a table.
LEMMA TableIs ==
  ASSUME NEW w, NEW n, NEW schemes, NEW noProxy, EnvironmentOf(w, n, schemes, noProxy)
  PROVE  TableOf(DictOf(w), n, schemes, Read(noProxy))
<1> DEFINE d == DictOf(w)
           size == Len(w)
           read == Read(noProxy)
<1>1. w \in Seq(EnvironmentMount) /\ n \in Nat /\ size \in Nat /\ n <= size
  BY DEF EnvironmentOf
<1>2. /\ \A i \in 1 .. n : \E s \in schemes : w[i] = Proxied(s)
      /\ \A s \in schemes : \E i \in 1 .. n : w[i] = Proxied(s)
      /\ \A i \in (n + 1) .. size : \E e \in read : w[i] = Exempt(e)
      /\ \A e \in read : \E i \in (n + 1) .. size : w[i] = Exempt(e)
  BY DEF EnvironmentOf
<1>3. /\ DOMAIN d \subseteq 1 .. size
      /\ \A i \in DOMAIN d : \E j \in 1 .. size :
           /\ d[i] = w[j] /\ w[j].pattern = w[i].pattern
           /\ \A k \in (j + 1) .. size : w[k].pattern # w[i].pattern
      /\ \A j \in 1 .. size : \E i \in DOMAIN d : i <= j /\ w[i].pattern = w[j].pattern
  BY <1>1, DictIs
<1> HIDE DEF d, size, read
<1>4. \A e : Exempt(e).pattern = Exemption(e)
  BY DEF Exempt, Mount
<1>5. \A k \in 1 .. size : k \in 1 .. n \/ k \in (n + 1) .. size
  BY <1>1
<1>6. /\ \A k \in 1 .. n : k \in 1 .. size /\ k <= n /\ \A i \in 1 .. size : i <= k => i <= n
      /\ \A k \in (n + 1) .. size : k \in 1 .. size
      /\ \A j \in 1 .. n, k \in (n + 1) .. size : k \in (j + 1) .. size
      /\ \A i \in 1 .. size : i <= n => i \in 1 .. n
  BY <1>1
<1>7. \A i \in DOMAIN d : i \in 1 .. size /\ d[i].pattern = w[i].pattern
  BY <1>3
<1>8. ASSUME NEW i \in DOMAIN d
      PROVE  \/ \E s \in schemes : d[i] = Proxied(s) /\ \A e \in read : Exemption(e) # Proxied(s).pattern
             \/ \E e \in read : d[i] = Exempt(e)
  <2>1. PICK j \in 1 .. size : /\ d[i] = w[j] /\ w[j].pattern = w[i].pattern
                               /\ \A k \in (j + 1) .. size : w[k].pattern # w[i].pattern
    BY <1>3
  <2>2. CASE j \in 1 .. n
    <3>1. PICK s \in schemes : w[j] = Proxied(s)
      BY <1>2, <2>2
    <3>2. ASSUME NEW e \in read PROVE Exemption(e) # Proxied(s).pattern
      <4>1. PICK k \in (n + 1) .. size : w[k] = Exempt(e)
        BY <1>2
      <4>2. w[k].pattern # w[i].pattern
        BY <1>6, <2>1, <2>2
      <4>3. QED BY <1>4, <2>1, <3>1, <4>1, <4>2
    <3>3. QED BY <2>1, <3>1, <3>2
  <2>3. CASE j \in (n + 1) .. size
    BY <1>2, <2>1, <2>3
  <2>4. QED BY <1>5, <2>2, <2>3
<1>9. ASSUME NEW s \in schemes
      PROVE  \E i \in DOMAIN d : i <= n /\ d[i].pattern = Proxied(s).pattern
  <2>1. PICK j \in 1 .. n : w[j] = Proxied(s)
    BY <1>2
  <2>2. j \in 1 .. size
    BY <1>6
  <2>3. PICK i \in DOMAIN d : i <= j /\ w[i].pattern = w[j].pattern
    BY <1>3, <2>2
  <2>4. i <= n
    BY <1>6, <1>7, <2>3
  <2>5. QED BY <1>7, <2>1, <2>3, <2>4
<1>10. ASSUME NEW e \in read
       PROVE  \E i \in DOMAIN d : d[i].pattern = Exemption(e)
  <2>1. PICK j \in (n + 1) .. size : w[j] = Exempt(e)
    BY <1>2
  <2>2. PICK i \in DOMAIN d : i <= j /\ w[i].pattern = w[j].pattern
    BY <1>3, <1>6
  <2>3. QED BY <1>4, <1>7, <2>1, <2>2
<1>11. ASSUME NEW i \in DOMAIN d, i <= n
       PROVE  \E s \in schemes : d[i].pattern = Proxied(s).pattern
  <2>1. i \in 1 .. n
    BY <1>6, <1>7, <1>11
  <2>2. PICK s \in schemes : w[i] = Proxied(s)
    BY <1>2, <2>1
  <2>3. QED BY <1>7, <2>2
<1>12. TableOf(d, n, schemes, read)
  BY <1>1, <1>3, <1>8, <1>9, <1>10, <1>11 DEF TableOf
<1>13. QED BY <1>12 DEF d, read

\* With these mounts a URL goes through a proxy that no entry has it yield.
LEMMA EnvironmentChoice ==
  ASSUME NEW d, NEW n, NEW schemes \in SUBSET {"http", "https", "all"},
         NEW read \in SUBSET Readable, TableOf(d, n, schemes, read), NEW u
  PROVE  (TransportForUrl(d, u) = "proxy") <=>
           \E s \in schemes \cap {u.scheme, "all"} :
             \A e \in read : Named(e, u) => ~YieldsTo(s, e)
<1> DEFINE fit == Fit(d, u)
           i == CHOOSE i \in fit :
                  \A j \in fit \ {i} :
                    \/ Before(d[i].pattern, d[j].pattern)
                    \/ ~Before(d[j].pattern, d[i].pattern) /\ i < j
           goes == \E s \in schemes \cap {u.scheme, "all"} :
                     \A e \in read : Named(e, u) => ~YieldsTo(s, e)
           PatternOf(s) == Proxied(s).pattern
<1>1. PICK size \in Nat : DOMAIN d \subseteq 1 .. size
  BY DEF TableOf
<1>2. /\ \A k \in DOMAIN d : \/ \E s \in schemes : d[k] = Proxied(s) /\ \A e \in read : Exemption(e) # PatternOf(s)
                             \/ \E e \in read : d[k] = Exempt(e)
      /\ \A s \in schemes : \E k \in DOMAIN d : k <= n /\ d[k].pattern = PatternOf(s)
      /\ \A e \in read : \E k \in DOMAIN d : d[k].pattern = Exemption(e)
      /\ \A k \in DOMAIN d : k <= n => \E s \in schemes : d[k].pattern = PatternOf(s)
      /\ n \in Nat
  BY DEF TableOf
<1>3. \A s \in schemes : /\ Proxied(s).transport = "proxy" /\ Priority(PatternOf(s)) \in Five
                         /\ \A v : Matches(PatternOf(s), v) <=> s = "all" \/ s = v.scheme
  BY ProxiedIs
<1>4. \A e \in read : /\ Exempt(e).transport = Direct /\ Exempt(e).pattern = Exemption(e)
                      /\ Priority(Exemption(e)) \in Five
                      /\ Matches(Exemption(e), u) <=> Named(e, u)
  <2>1. \A e : Exempt(e).transport = Direct /\ Exempt(e).pattern = Exemption(e)
    BY DEF Exempt, Mount
  <2>2. QED BY <2>1, ExemptMatches, ExemptPriority
<1> HIDE DEF PatternOf
<1>5. /\ \A k \in DOMAIN d : Priority(d[k].pattern) \in Five
      /\ fit \subseteq DOMAIN d /\ \A k \in DOMAIN d : k \in fit <=> Matches(d[k].pattern, u)
  <2>1. \A k \in DOMAIN d : Priority(d[k].pattern) \in Five
    BY <1>2, <1>3, <1>4 DEF PatternOf
  <2>2. QED BY <2>1 DEF Fit
<1>6. Direct # "proxy"
  BY DEF Direct
<1>7. CASE fit = {}
  <2>1. TransportForUrl(d, u) = Direct
    BY <1>7 DEF TransportForUrl
  <2>2. \A s \in schemes : s \notin {u.scheme, "all"}
    <3>1. SUFFICES ASSUME NEW s \in schemes, s \in {u.scheme, "all"} PROVE FALSE
      OBVIOUS
    <3> HIDE DEF fit
    <3>2. PICK k \in DOMAIN d : d[k].pattern = PatternOf(s)
      BY <1>2
    <3>3. Matches(PatternOf(s), u)
      BY <1>3, <3>1
    <3>4. QED BY <1>5, <1>7, <3>2, <3>3
  <2>3. QED BY <1>6, <2>1, <2>2
<1>8. CASE fit # {}
  <2> HIDE DEF fit
  <2>1. fit \in SUBSET (1 .. size) /\ \A k \in fit : Priority(d[k].pattern) \in Five
    BY <1>1, <1>5
  <2>2. \E k : Foremost(d, fit, k)
    BY <1>1, <1>8, <2>1, ForemostExists
  <2>3. Foremost(d, fit, i)
    <3>1. \E k \in fit : \A j \in fit \ {k} : \/ Before(d[k].pattern, d[j].pattern)
                                              \/ ~Before(d[j].pattern, d[k].pattern) /\ k < j
      BY <2>2 DEF Foremost
    <3>2. QED BY <3>1 DEF Foremost
  <2>4. TransportForUrl(d, u) = d[i].transport
    BY <1>8 DEF TransportForUrl, Chosen, fit
  <2> HIDE DEF i, goes
  <2>5. i \in fit /\ i \in DOMAIN d
    BY <1>5, <2>3 DEF Foremost
  <2> DEFINE X(k) == Priority(d[k].pattern)
  <2>6. \A j \in fit : j # i => /\ LexLess(X(i), X(j)) \/ (~LexLess(X(j), X(i)) /\ i < j)
                                /\ ~LexLess(X(j), X(i))
    <3>1. SUFFICES ASSUME NEW j \in fit, j # i
          PROVE  /\ LexLess(X(i), X(j)) \/ (~LexLess(X(j), X(i)) /\ i < j)
                 /\ ~LexLess(X(j), X(i))
      OBVIOUS
    <3>2. X(i) \in Five /\ X(j) \in Five
      BY <2>1, <2>5
    <3>3. /\ Before(d[i].pattern, d[j].pattern) <=> LexLess(X(i), X(j))
          /\ Before(d[j].pattern, d[i].pattern) <=> LexLess(X(j), X(i))
      BY <3>2, BeforeIs
    <3>4. \/ Before(d[i].pattern, d[j].pattern)
          \/ ~Before(d[j].pattern, d[i].pattern) /\ i < j
      BY <2>3, <3>1 DEF Foremost
    <3> HIDE DEF X
    <3>5. QED BY <3>2, <3>3, <3>4, LexOrder
  <2>7. ASSUME NEW s \in schemes, d[i] = Proxied(s), \A e \in read : Exemption(e) # PatternOf(s)
        PROVE  goes
    <3>1. d[i].pattern = PatternOf(s)
      BY <2>7 DEF PatternOf
    <3>2. s \in {u.scheme, "all"}
      BY <1>3, <1>5, <2>5, <3>1
    <3>3. ASSUME NEW e \in read, Named(e, u), YieldsTo(s, e) PROVE FALSE
      <4>1. LexLess(Priority(Exemption(e)), Priority(PatternOf(s)))
        BY <2>7, <3>3, YieldsIs DEF PatternOf
      <4>2. PICK j \in DOMAIN d : d[j].pattern = Exemption(e)
        BY <1>2
      <4>3. j \in fit /\ j # i
        BY <1>4, <1>5, <2>7, <3>1, <3>3, <4>2
      <4>4. QED BY <2>6, <3>1, <4>1, <4>2, <4>3
    <3>4. QED BY <3>2, <3>3 DEF goes
  <2>8. ASSUME NEW e \in read, d[i] = Exempt(e), goes
        PROVE  FALSE
    <3>1. PICK s \in schemes \cap {u.scheme, "all"} : \A f \in read : Named(f, u) => ~YieldsTo(s, f)
      BY <2>8 DEF goes
    <3>2. d[i].pattern = Exemption(e) /\ Named(e, u)
      BY <1>4, <1>5, <2>5, <2>8
    <3>3. PICK j \in DOMAIN d : j <= n /\ d[j].pattern = PatternOf(s)
      BY <1>2, <3>1
    <3>4. j \in fit
      BY <1>3, <1>5, <3>1, <3>3
    <3>5. ~YieldsTo(s, e) /\ s \in {u.scheme, "all"}
      BY <3>1, <3>2
    <3>6. Exemption(e) # PatternOf(s) /\ ~LexLess(Priority(Exemption(e)), Priority(PatternOf(s)))
      BY <3>2, <3>5, YieldsIs DEF PatternOf
    <3>7. i # j
      BY <3>2, <3>3, <3>6
    <3>8. i < j
      BY <2>6, <3>2, <3>3, <3>4, <3>6, <3>7
    <3>9. i <= n
      <4>1. i \in Nat /\ j \in Nat /\ n \in Nat
        BY <1>1, <1>2, <2>5
      <4>2. QED BY <3>3, <3>8, <4>1
    <3>10. PICK t \in schemes : d[i].pattern = PatternOf(t)
      BY <1>2, <2>5, <3>9
    <3>11. t \in {u.scheme, "all"} /\ t # s
      BY <1>3, <1>5, <2>5, <3>2, <3>3, <3>6, <3>10
    <3>12. YieldsTo(t, e)
      BY <3>2, <3>10, YieldsIs DEF PatternOf
    <3>13. e = [form |-> "any", scheme |-> t, host |-> "", port |-> None]
      <4>1. PatternOf(t) = Pattern(t, "any", "", None)
        BY ProxiedIs DEF PatternOf
      <4>2. Exemption(e) = Pattern(t, "any", "", None)
        BY <3>2, <3>10, <4>1
      <4>3. QED BY <4>2, ExemptionIs
    <3>14. CASE s = "all"
      <4>1. e.scheme = t /\ t # "all"
        BY <3>11, <3>13, <3>14
      <4>2. QED BY <3>5, <3>14, <4>1 DEF YieldsTo
    <3>15. CASE s # "all"
      <4>1. t = "all" /\ s \in {"http", "https"}
        BY <3>1, <3>11, <3>15
      <4>2. Priority(PatternOf(s)) = <<1, 2, 0, 0, -SchemeLength(s)>>
            /\ Priority(PatternOf(t)) = <<1, 2, 0, 0, -SchemeLength(t)>>
            /\ s \in Schemes
        BY ProxiedIs DEF PatternOf
      <4>3. -SchemeLength(s) < -SchemeLength(t)
        <5>1. SchemeLength(s) \in Nat /\ SchemeLength(s) # 0 /\ SchemeLength(t) = 0
          BY <3>15, <4>1, <4>2, SchemeLengths
        <5>2. \A a \in Nat, b \in Nat : a # 0 /\ b = 0 => -a < -b
          OBVIOUS
        <5>3. QED BY <5>1, <5>2
      <4>4. LexLess(Priority(PatternOf(s)), Priority(PatternOf(t)))
        BY <4>2, <4>3 DEF LexLess
      <4>5. QED BY <2>6, <3>3, <3>4, <3>7, <3>10, <4>4
    <3>16. QED BY <3>14, <3>15
  <2>9. CASE \E s \in schemes : d[i] = Proxied(s) /\ \A e \in read : Exemption(e) # PatternOf(s)
    <3>1. d[i].transport = "proxy"
      BY <1>3, <2>9
    <3>2. goes
      BY <2>7, <2>9
    <3>3. QED BY <2>4, <3>1, <3>2 DEF goes
  <2>10. CASE \E e \in read : d[i] = Exempt(e)
    <3>1. d[i].transport # "proxy"
      BY <1>4, <1>6, <2>10
    <3>2. ~goes
      BY <2>8, <2>10
    <3>3. QED BY <2>4, <3>1, <3>2 DEF goes
  <2>11. QED BY <1>2, <2>5, <2>9, <2>10
<1>9. QED BY <1>7, <1>8

\* The table of a client is what the environment and the user write.
MountsInv ==
  /\ client \in Clients
  /\ mounts = DictOf(EnvironmentMounts(client.environment.schemes, client.environment.noProxy)
                       \o client.mounts)

\* It never changes.
LEMMA MountsKept == Spec => []MountsInv
<1>1. Init => MountsInv
  BY DEF Init, MountsInv
<1>2. MountsInv /\ [Next]_vars => MountsInv'
  BY DEF MountsInv, Next, BuildRequest, FollowRedirect, vars
<1>3. QED BY <1>1, <1>2, PTL DEF Spec

\* For any proxies, any NO_PROXY, with schemes and ports or not, and any hosts, redirected or not:
\* a client without mounts of its own goes through the proxy of the URL's scheme, or of all
\* schemes, unless "*" is among the entries or one names the URL that the proxy yields to
\* (get_environment_proxies, _transport_for_url).
THEOREM NoProxyIsHonoured == Spec => []NoProxyHonoured
<1>1. MountsInv => NoProxyHonoured
  <2> DEFINE schemes == client.environment.schemes
             noProxy == client.environment.noProxy
             env == EnvironmentMounts(schemes, noProxy)
             Off == \E k \in DOMAIN noProxy : noProxy[k].form = "star"
             Goes == \E s \in schemes \cap {url.scheme, "all"} :
                       \A k \in DOMAIN noProxy : Named(noProxy[k], url) => ~YieldsTo(s, noProxy[k])
  <2>1. SUFFICES ASSUME MountsInv, client.mounts = <<>>
        PROVE  (TransportForUrl(mounts, url) = "proxy") <=> ~Off /\ Goes
    BY DEF NoProxyHonoured
  <2>2. schemes \in SUBSET {"http", "https", "all"} /\ noProxy \in Seq(Entries)
    BY <2>1, RoutingAssumption DEF MountsInv
  <2>3. mounts = DictOf(env \o <<>>)
    BY <2>1 DEF MountsInv
  <2> HIDE DEF schemes, noProxy
  <2>4. CASE Off
    <3>1. env \o <<>> = <<>>
      <4>1. env = <<>>
        BY <2>4 DEF EnvironmentMounts
      <4>2. <<>> \o <<>> = <<>>
        BY ConcatEmptySeq, EmptySeq
      <4>3. QED BY <4>1, <4>2
    <3>2. mounts = DictOf(<<>>)
      BY <2>3, <3>1
    <3>3. DOMAIN mounts = {}
      BY <3>2 DEF DictOf
    <3>4. Fit(mounts, url) = {}
      BY <3>3 DEF Fit
    <3>5. TransportForUrl(mounts, url) # "proxy"
      BY <3>4 DEF TransportForUrl, Direct
    <3>6. QED BY <2>4, <3>5
  <2>5. CASE ~Off
    <3>1. /\ Read(noProxy) \in SUBSET Readable
          /\ \E n : EnvironmentOf(env, n, schemes, noProxy)
      BY <2>2, <2>5, EnvironmentIs
    <3>2. PICK n : EnvironmentOf(env, n, schemes, noProxy)
      BY <3>1
    <3> HIDE DEF env
    <3>3. mounts = DictOf(env)
      <4>1. env \in Seq(EnvironmentMount)
        BY <3>2 DEF EnvironmentOf
      <4>2. QED BY <2>3, <4>1, ConcatEmptySeq
    <3>4. TableOf(mounts, n, schemes, Read(noProxy))
      BY <3>2, <3>3, TableIs
    <3>5. (TransportForUrl(mounts, url) = "proxy") <=>
             \E s \in schemes \cap {url.scheme, "all"} :
               \A e \in Read(noProxy) : Named(e, url) => ~YieldsTo(s, e)
      BY <2>2, <3>1, <3>4, EnvironmentChoice
    <3>6. \A k \in DOMAIN noProxy : noProxy[k].form = "ignored" => ~Named(noProxy[k], url)
      BY DEF Named
    <3>7. ASSUME NEW s
          PROVE  (\A e \in Read(noProxy) : Named(e, url) => ~YieldsTo(s, e))
                   <=> \A k \in DOMAIN noProxy : Named(noProxy[k], url) => ~YieldsTo(s, noProxy[k])
      BY <3>6 DEF Read
    <3>8. Goes <=> \E s \in schemes \cap {url.scheme, "all"} :
                     \A e \in Read(noProxy) : Named(e, url) => ~YieldsTo(s, e)
      BY <3>7
    <3>9. QED BY <2>5, <3>5, <3>8
  <2>6. QED BY <2>4, <2>5
<1>2. QED BY <1>1, MountsKept, PTL

=============================================================================
