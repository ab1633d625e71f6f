--------------------------- MODULE SequenceLemmas ---------------------------
(***************************************************************************)
(* Facts about Python lists modelled as sequences: what append, pop(0) and *)
(* del list[i] do to the length, to the elements, and to lists that hold   *)
(* every element once; what joining and folding a list of any length       *)
(* gives; and the places of a sequence in their order.                     *)
(***************************************************************************)
EXTENDS SequencesExt, SequenceTheorems, FiniteSetTheorems, WellFoundedInduction, Positions,
        TLAPS

\* The elements of a typed list.
LEMMA Elements ==
  ASSUME NEW S, NEW s \in Seq(S)
  PROVE  /\ ToSet(s) \subseteq S
         /\ Len(s) \in Nat
         /\ DOMAIN s = 1 .. Len(s)
         /\ \A i \in DOMAIN s : s[i] \in ToSet(s) /\ s[i] \in S
         /\ \A x \in ToSet(s) : \E i \in DOMAIN s : s[i] = x
<1>1. Len(s) \in Nat /\ s \in [1 .. Len(s) -> S] /\ DOMAIN s = 1 .. Len(s)
  BY LenProperties
<1>2. QED BY <1>1 DEF ToSet

\* The empty sequence is a list without duplicates.
LEMMA EmptyList ==
  ASSUME NEW S
  PROVE  << >> \in Seq(S) /\ Len(<< >>) = 0 /\ ToSet(<< >>) = {} /\ IsInjective(<< >>)
<1>1. << >> \in Seq(S) /\ Len(<< >>) = 0 BY EmptySeq
<1>2. DOMAIN << >> = {} BY <1>1, Elements
<1>3. QED BY <1>1, <1>2 DEF ToSet, IsInjective

\* list.append
LEMMA AppendList ==
  ASSUME NEW S, NEW s \in Seq(S), NEW e \in S
  PROVE  /\ Append(s, e) \in Seq(S)
         /\ Len(Append(s, e)) = Len(s) + 1
         /\ ToSet(Append(s, e)) = ToSet(s) \cup {e}
         /\ IsInjective(s) /\ e \notin ToSet(s) => IsInjective(Append(s, e))
<1> DEFINE t == Append(s, e)
<1>1. /\ t \in Seq(S) /\ Len(t) = Len(s) + 1
      /\ \A i \in 1 .. Len(s) : t[i] = s[i]
      /\ t[Len(s) + 1] = e
  BY AppendProperties
<1>2. Len(s) \in Nat /\ DOMAIN s = 1 .. Len(s) /\ DOMAIN t = 1 .. (Len(s) + 1)
  BY <1>1, Elements
<1> HIDE DEF t
<1>3. ToSet(t) = ToSet(s) \cup {e}
  <2>1. ASSUME NEW i \in DOMAIN t PROVE t[i] \in ToSet(s) \cup {e}
    <3>1. CASE i = Len(s) + 1 BY <3>1, <1>1
    <3>2. CASE i # Len(s) + 1
      <4>1. i \in 1 .. Len(s) BY <3>2, <1>2
      <4>2. t[i] = s[i] /\ s[i] \in ToSet(s) BY <4>1, <1>1, <1>2 DEF ToSet
      <4>3. QED BY <4>2
    <3>3. QED BY <3>1, <3>2
  <2>2. ASSUME NEW i \in DOMAIN s PROVE s[i] \in ToSet(t)
    <3>1. i \in DOMAIN t /\ t[i] = s[i] BY <1>1, <1>2
    <3>2. QED BY <3>1 DEF ToSet
  <2>3. e \in ToSet(t)
    <3>1. Len(s) + 1 \in DOMAIN t BY <1>2
    <3>2. QED BY <3>1, <1>1 DEF ToSet
  <2>4. QED BY <2>1, <2>2, <2>3 DEF ToSet
<1>4. ASSUME IsInjective(s), e \notin ToSet(s),
             NEW i \in DOMAIN t, NEW j \in DOMAIN t, t[i] = t[j]
      PROVE  i = j
  <2>1. \A k \in DOMAIN s : t[k] = s[k] /\ s[k] # e BY <1>1, <1>2, <1>4 DEF ToSet
  <2>2. \A k \in DOMAIN t : k \in DOMAIN s \/ k = Len(s) + 1 BY <1>2
  <2>3. QED BY <2>1, <2>2, <1>1, <1>4 DEF IsInjective
<1>5. QED BY <1>1, <1>3, <1>4 DEF t, IsInjective

\* A loop over a list takes its head and goes on with its tail.
LEMMA TailList ==
  ASSUME NEW S, NEW s \in Seq(S), s # << >>
  PROVE  /\ Head(s) \in S /\ Head(s) \in ToSet(s)
         /\ Tail(s) \in Seq(S)
         /\ Len(s) >= 1 /\ Len(Tail(s)) = Len(s) - 1
         /\ ToSet(Tail(s)) \subseteq ToSet(s)
         /\ IsInjective(s) => IsInjective(Tail(s)) /\ Head(s) \notin ToSet(Tail(s))
<1> DEFINE t == Tail(s)
<1>1. /\ Head(s) \in S /\ t \in Seq(S) /\ Len(t) = Len(s) - 1
      /\ \A i \in 1 .. Len(t) : t[i] = s[i + 1]
  BY HeadTailProperties
<1>2. Len(s) \in Nat \ {0} BY EmptySeq
<1>3. DOMAIN s = 1 .. Len(s) /\ DOMAIN t = 1 .. (Len(s) - 1) BY <1>1, Elements
<1>4. Head(s) = s[1] /\ 1 \in DOMAIN s BY <1>2, <1>3
<1> HIDE DEF t
<1>5. \A i \in DOMAIN t : i + 1 \in DOMAIN s /\ t[i] = s[i + 1] /\ i \in Nat /\ i >= 1
  BY <1>1, <1>2, <1>3
<1>6. ToSet(t) \subseteq ToSet(s) BY <1>5 DEF ToSet
<1>7. ASSUME IsInjective(s) PROVE IsInjective(t) /\ Head(s) \notin ToSet(t)
  <2>1. ASSUME NEW i \in DOMAIN t, NEW j \in DOMAIN t, t[i] = t[j] PROVE i = j
    <3>1. i + 1 = j + 1 BY <2>1, <1>5, <1>7 DEF IsInjective
    <3>2. QED BY <3>1, <1>5
  <2>2. ASSUME NEW i \in DOMAIN t PROVE t[i] # Head(s)
    <3>1. i + 1 # 1 BY <1>5
    <3>2. QED BY <3>1, <1>4, <1>5, <1>7 DEF IsInjective
  <2>3. QED BY <2>1, <2>2 DEF IsInjective, ToSet
<1>8. Head(s) \in ToSet(s) BY <1>4 DEF ToSet
<1>9. QED BY <1>1, <1>2, <1>6, <1>7, <1>8 DEF t

\* The loop visits every element: the head, and those of the tail.
LEMMA HeadOrTail ==
  ASSUME NEW S, NEW s \in Seq(S), s # << >>
  PROVE  ToSet(s) = {Head(s)} \cup ToSet(Tail(s))
<1> DEFINE t == Tail(s)
<1>1. /\ t \in Seq(S) /\ Len(t) = Len(s) - 1
      /\ \A i \in 1 .. Len(t) : t[i] = s[i + 1]
  BY HeadTailProperties
<1>2. Len(s) \in Nat \ {0} BY EmptySeq
<1>3. DOMAIN s = 1 .. Len(s) /\ DOMAIN t = 1 .. (Len(s) - 1) BY <1>1, Elements
<1>4. Head(s) = s[1] BY <1>2, <1>3
<1>5. ToSet(t) \subseteq ToSet(s) /\ Head(s) \in ToSet(s) BY TailList
<1> HIDE DEF t
<1>6. ASSUME NEW i \in DOMAIN s PROVE s[i] = Head(s) \/ s[i] \in ToSet(t)
  <2>1. CASE i = 1 BY <1>4, <2>1
  <2>2. CASE i # 1
    <3>1. i - 1 \in DOMAIN t /\ (i - 1) + 1 = i BY <1>2, <1>3, <2>2
    <3>2. t[i - 1] = s[i] BY <1>1, <1>3, <3>1
    <3>3. QED BY <3>1, <3>2 DEF ToSet
  <2>3. QED BY <2>1, <2>2
<1>7. \A x \in ToSet(s) : x = Head(s) \/ x \in ToSet(t) BY <1>6, Elements
<1>8. QED BY <1>5, <1>7 DEF t

\* del list[i] moves what comes behind.
LEMMA RemoveAtElements ==
  ASSUME NEW S, NEW s \in Seq(S), NEW i \in DOMAIN s
  PROVE  /\ RemoveAt(s, i) \in Seq(S)
         /\ Len(RemoveAt(s, i)) = Len(s) - 1
         /\ \A k \in 1 .. (Len(s) - 1) :
              RemoveAt(s, i)[k] = IF k < i THEN s[k] ELSE s[k + 1]
<1> DEFINE n == Len(s)
           a == SubSeq(s, 1, i - 1)
           b == SubSeq(s, i + 1, n)
           t == RemoveAt(s, i)
<1>1. n \in Nat /\ DOMAIN s = 1 .. n /\ (\A k \in 1 .. n : s[k] \in S) /\ i \in 1 .. n
  BY Elements
<1>2. /\ a \in Seq(S) /\ Len(a) = i - 1
      /\ \A k \in 1 .. (i - 1) : a[k] = s[k]
  <2>1. \A k \in 1 .. (i - 1) : s[k] \in S BY <1>1
  <2>2. /\ a \in Seq(S) /\ Len(a) = (IF 1 <= i - 1 THEN (i - 1) - 1 + 1 ELSE 0)
        /\ \A k \in 1 .. ((i - 1) - 1 + 1) : a[k] = s[1 + k - 1]
    BY <1>1, <2>1, SubSeqProperties
  <2>3. QED BY <2>2, <1>1
<1>3. /\ b \in Seq(S) /\ Len(b) = n - i
      /\ \A k \in 1 .. (n - i) : b[k] = s[i + k]
  <2>1. \A k \in (i + 1) .. n : s[k] \in S BY <1>1
  <2>2. /\ b \in Seq(S) /\ Len(b) = (IF i + 1 <= n THEN n - (i + 1) + 1 ELSE 0)
        /\ \A k \in 1 .. (n - (i + 1) + 1) : b[k] = s[(i + 1) + k - 1]
    BY <1>1, <2>1, SubSeqProperties
  <2>3. QED BY <2>2, <1>1
<1>4. t = a \o b BY DEF RemoveAt
<1> HIDE DEF a, b, n, t
<1>5. /\ t \in Seq(S) /\ Len(t) = n - 1
      /\ \A k \in 1 .. (n - 1) : t[k] = IF k < i THEN s[k] ELSE s[k + 1]
  <2>1. /\ a \o b \in Seq(S) /\ Len(a \o b) = Len(a) + Len(b)
        /\ \A k \in 1 .. (Len(a) + Len(b)) :
             (a \o b)[k] = IF k <= Len(a) THEN a[k] ELSE b[k - Len(a)]
    BY <1>2, <1>3, ConcatProperties
  <2>2. Len(a) + Len(b) = n - 1 BY <1>1, <1>2, <1>3
  <2>3. ASSUME NEW k \in 1 .. (n - 1) PROVE t[k] = IF k < i THEN s[k] ELSE s[k + 1]
    <3>1. CASE k < i
      <4>1. k \in 1 .. (i - 1) /\ k <= Len(a) BY <3>1, <1>1, <1>2
      <4>2. QED BY <3>1, <4>1, <2>1, <2>2, <1>2, <1>4
    <3>2. CASE ~(k < i)
      <4>1. ~(k <= Len(a)) /\ k - Len(a) \in 1 .. (n - i) /\ i + (k - Len(a)) = k + 1
        BY <3>2, <1>1, <1>2
      <4>2. b[k - Len(a)] = s[k + 1] BY <4>1, <1>3
      <4>3. t[k] = b[k - Len(a)] BY <4>1, <2>1, <2>2, <1>4
      <4>4. QED BY <3>2, <4>2, <4>3
    <3>3. QED BY <3>1, <3>2
  <2>4. QED BY <2>1, <2>2, <2>3, <1>4
<1>6. QED BY <1>5 DEF t, n

\* What is left, and that it holds every element once if the list did.
LEMMA RemoveAtList ==
  ASSUME NEW S, NEW s \in Seq(S), NEW i \in DOMAIN s
  PROVE  /\ RemoveAt(s, i) \in Seq(S)
         /\ Len(RemoveAt(s, i)) = Len(s) - 1
         /\ ToSet(RemoveAt(s, i)) \subseteq ToSet(s)
         /\ \A x \in ToSet(s) : x # s[i] => x \in ToSet(RemoveAt(s, i))
         /\ IsInjective(s) => IsInjective(RemoveAt(s, i)) /\ s[i] \notin ToSet(RemoveAt(s, i))
<1> DEFINE n == Len(s)
           t == RemoveAt(s, i)
<1>1. n \in Nat /\ DOMAIN s = 1 .. n /\ i \in 1 .. n
  BY Elements
<1>2. /\ t \in Seq(S) /\ Len(t) = n - 1
      /\ \A k \in 1 .. (n - 1) : t[k] = IF k < i THEN s[k] ELSE s[k + 1]
  BY RemoveAtElements
<1> HIDE DEF n, t
<1>3. DOMAIN t = 1 .. (n - 1) BY <1>1, <1>2, Elements
<1>4. \A k \in DOMAIN t : \E m \in DOMAIN s :
        m = (IF k < i THEN k ELSE k + 1) /\ t[k] = s[m] /\ m # i
  BY <1>1, <1>2, <1>3
<1>5. ToSet(t) \subseteq ToSet(s) BY <1>4 DEF ToSet
<1>6. ASSUME NEW m \in DOMAIN s, s[m] # s[i] PROVE s[m] \in ToSet(t)
  <2> DEFINE k == IF m < i THEN m ELSE m - 1
  <2>1. m # i BY <1>6
  <2>2. k \in DOMAIN t /\ t[k] = s[m] BY <2>1, <1>1, <1>2, <1>3
  <2>3. QED BY <2>2 DEF ToSet
<1>7. ASSUME IsInjective(s) PROVE IsInjective(t) /\ s[i] \notin ToSet(t)
  <2>1. ASSUME NEW k \in DOMAIN t, NEW l \in DOMAIN t, t[k] = t[l] PROVE k = l
    <3> DEFINE p == IF k < i THEN k ELSE k + 1
               q == IF l < i THEN l ELSE l + 1
    <3>1. p \in DOMAIN s /\ q \in DOMAIN s /\ t[k] = s[p] /\ t[l] = s[q] BY <1>4
    <3>2. p = q BY <3>1, <2>1, <1>7 DEF IsInjective
    <3>3. QED BY <3>2, <1>1, <1>3
  <2>2. ASSUME NEW k \in DOMAIN t PROVE t[k] # s[i]
    BY <1>4, <1>7 DEF IsInjective
  <2>3. QED BY <2>1, <2>2 DEF IsInjective, ToSet
<1>8. QED BY <1>2, <1>5, <1>6, <1>7 DEF t, n, ToSet

\* list.remove(e), of a list that holds e once or not at all.
LEMMA RemoveFirstList ==
  ASSUME NEW S, NEW s \in Seq(S), IsInjective(s), NEW e
  PROVE  /\ RemoveFirst(s, e) \in Seq(S) /\ IsInjective(RemoveFirst(s, e))
         /\ ToSet(RemoveFirst(s, e)) = ToSet(s) \ {e}
         /\ \A j, k \in DOMAIN RemoveFirst(s, e) : j < k =>
              \E m, n \in DOMAIN s : /\ m < n
                                      /\ RemoveFirst(s, e)[j] = s[m]
                                      /\ RemoveFirst(s, e)[k] = s[n]
<1> DEFINE t == RemoveFirst(s, e)
<1>1. Len(s) \in Nat /\ DOMAIN s = 1 .. Len(s)
  BY Elements
<1>2. CASE ~\E i \in 1 .. Len(s) : s[i] = e
  <2>1. t = s
    BY <1>2 DEF RemoveFirst
  <2>2. e \notin ToSet(s)
    BY <1>1, <1>2, Elements
  <2>3. QED BY <2>1, <2>2
<1>3. CASE \E i \in 1 .. Len(s) : s[i] = e
  <2> DEFINE I == {i \in 1 .. Len(s) : s[i] = e}
  <2>1. PICK i \in DOMAIN s : s[i] = e
    BY <1>1, <1>3
  <2>2. I = {i}
    BY <1>1, <2>1 DEF IsInjective
  <2>3. Min({i}) = i
    BY <1>1 DEF Min
  <2>4. t = RemoveAt(s, i)
    <3>1. t = RemoveAt(s, IF I # {} THEN Min(I) ELSE 0)
      BY <1>3 DEF RemoveFirst, SelectInSeq
    <3>2. QED BY <2>2, <2>3, <3>1
  <2> HIDE DEF t, I
  <2>5. /\ t \in Seq(S) /\ IsInjective(t) /\ ToSet(t) \subseteq ToSet(s) /\ e \notin ToSet(t)
        /\ \A x \in ToSet(s) : x # e => x \in ToSet(t)
    BY <2>1, <2>4, RemoveAtList
  <2>6. /\ Len(t) = Len(s) - 1
        /\ \A k \in 1 .. (Len(s) - 1) : t[k] = IF k < i THEN s[k] ELSE s[k + 1]
    BY <2>1, <2>4, RemoveAtElements
  <2>7. DOMAIN t = 1 .. (Len(s) - 1)
    BY <2>5, <2>6, Elements
  <2>8. ASSUME NEW j \in DOMAIN t, NEW k \in DOMAIN t, j < k
        PROVE  \E m, n \in DOMAIN s : m < n /\ t[j] = s[m] /\ t[k] = s[n]
    <3> DEFINE m == IF j < i THEN j ELSE j + 1
               n == IF k < i THEN k ELSE k + 1
    <3>1. m \in DOMAIN s /\ n \in DOMAIN s /\ m < n
      BY <1>1, <2>7, <2>8
    <3>2. t[j] = s[m] /\ t[k] = s[n]
      BY <2>6, <2>7
    <3>3. QED BY <3>1, <3>2
  <2>9. QED BY <2>5, <2>8 DEF t
<1>4. QED BY <1>2, <1>3

\* A nonempty set of naturals has a least element.
LEMMA LeastNat ==
  ASSUME NEW S \in SUBSET Nat, S # {}
  PROVE  \E n \in S : \A m \in S : n <= m
<1> DEFINE R == OpToRel(<, Nat)
<1>1. IsWellFoundedOn(R, Nat) BY NatLessThanWellFounded
<1>2. \A x, y \in Nat : x < y => <<x, y>> \in R BY DEF OpToRel
<1> HIDE DEF R
<1>3. PICK x \in S : \A y \in S : ~ (<<y, x>> \in R) BY <1>1, WFMin, Zenon
<1>4. \A y \in S : ~ (y < x) BY <1>2, <1>3, Zenon
<1>5. x \in Nat /\ S \subseteq Nat OBVIOUS
<1>6. QED BY <1>4, <1>5

-----------------------------------------------------------------------------
\* What FlattenSeq builds up: at i, the first i lists put together.  The facts about
\* it are shown by the least number for which they would fail.
Joins(s, n, f) == f = [i \in 1 .. n |-> IF i = 1 THEN s[i] ELSE f[i - 1] \o s[i]]

\* Joining can be done step by step.
LEMMA JoinsExists ==
  ASSUME NEW s, NEW n \in Nat
  PROVE  \E f : Joins(s, n, f)
<1> DEFINE Bad == {k \in Nat : ~\E f : Joins(s, k, f)}
<1>1. SUFFICES ASSUME Bad # {} PROVE FALSE
  OBVIOUS
<1>2. PICK k \in Bad : \A m \in Bad : k <= m
  BY <1>1, LeastNat
<1>3. k \in Nat /\ ~\E f : Joins(s, k, f)
  OBVIOUS
<1>4. CASE k = 0
  <2>1. Joins(s, 0, [i \in 1 .. 0 |-> 0])
    BY DEF Joins
  <2>2. QED BY <1>3, <1>4, <2>1
<1>5. CASE k # 0
  <2>1. k - 1 \in Nat /\ k - 1 \notin Bad
    BY <1>2, <1>3, <1>5
  <2>2. PICK f : Joins(s, k - 1, f)
    BY <2>1
  <2> DEFINE g == [i \in 1 .. k |-> IF i = 1 THEN s[i] ELSE f[i - 1] \o s[i]]
             h == [i \in 1 .. k |-> IF i = 1 THEN s[i] ELSE g[i - 1] \o s[i]]
  <2>3. ASSUME NEW i \in 1 .. k PROVE g[i] = h[i]
    <3>1. CASE i = 1
      BY <3>1
    <3>2. CASE i # 1
      <4>1. i - 1 \in 1 .. (k - 1)
        BY <1>3, <3>2
      <4>2. g[i - 1] = f[i - 1]
        <5>1. f[i - 1] = [j \in 1 .. (k - 1) |-> IF j = 1 THEN s[j] ELSE f[j - 1] \o s[j]][i - 1]
          BY <2>2, Zenon DEF Joins
        <5>2. QED BY <1>3, <4>1, <5>1
      <4>3. QED BY <3>2, <4>2
    <3>3. QED BY <3>1, <3>2
  <2>4. g = h
    BY <2>3
  <2> HIDE DEF g
  <2>5. Joins(s, k, g)
    BY <2>4 DEF Joins
  <2>6. QED BY <1>3, <2>5
<1>6. QED BY <1>4, <1>5

\* It stays among the lists, and does not depend on what follows.
LEMMA JoinsAgree ==
  ASSUME NEW S, NEW s \in Seq(Seq(S)), NEW e, NEW f, NEW g,
         Joins(s, Len(s), f), Joins(Append(s, e), Len(s) + 1, g)
  PROVE  \A i \in 1 .. Len(s) : f[i] \in Seq(S) /\ g[i] = f[i]
<1> DEFINE n == Len(s) + 1
           t == Append(s, e)
           Good(i) == f[i] \in Seq(S) /\ g[i] = f[i]
           Bad == {i \in 1 .. Len(s) : ~Good(i)}
<1>0. /\ Len(s) \in Nat /\ \A i \in 1 .. Len(s) : s[i] \in Seq(S)
      /\ \A i \in 1 .. Len(s) : t[i] = s[i]
      /\ Joins(t, n, g)
  BY Elements
<1> HIDE DEF t
<1>1. SUFFICES ASSUME Bad # {} PROVE FALSE
  OBVIOUS
<1>2. PICK k \in Bad : \A m \in Bad : k <= m
  <2>1. Bad \in SUBSET Nat
    BY <1>0
  <2>2. QED BY <1>1, <2>1, LeastNat
<1>3. k \in 1 .. Len(s) /\ ~Good(k) /\ k \in 1 .. n
  BY <1>0
<1>4. /\ f[k] = IF k = 1 THEN s[k] ELSE f[k - 1] \o s[k]
      /\ g[k] = IF k = 1 THEN t[k] ELSE g[k - 1] \o t[k]
  <2>1. f[k] = [i \in 1 .. Len(s) |-> IF i = 1 THEN s[i] ELSE f[i - 1] \o s[i]][k]
    BY Zenon DEF Joins
  <2>2. g[k] = [i \in 1 .. n |-> IF i = 1 THEN t[i] ELSE g[i - 1] \o t[i]][k]
    BY <1>0, Zenon DEF Joins
  <2>3. QED BY <1>3, <2>1, <2>2
<1>5. t[k] = s[k] /\ s[k] \in Seq(S)
  BY <1>0, <1>3
<1>6. CASE k = 1
  BY <1>3, <1>4, <1>5, <1>6
<1>7. CASE k # 1
  <2>1. k - 1 \in 1 .. Len(s) /\ k - 1 < k
    BY <1>0, <1>3, <1>7
  <2>2. Good(k - 1)
    <3>1. k - 1 \notin Bad
      BY <1>0, <1>2, <2>1
    <3>2. QED BY <2>1, <3>1
  <2>3. f[k - 1] \o s[k] \in Seq(S)
    BY <1>5, <2>2, ConcatProperties
  <2>4. QED BY <1>3, <1>4, <1>5, <1>7, <2>2, <2>3
<1>8. QED BY <1>6, <1>7

\* FlattenSeq is the last of these steps.
LEMMA FlattenJoins ==
  ASSUME NEW S, NEW s \in Seq(S), Len(s) # 0
  PROVE  \E f : Joins(s, Len(s), f) /\ FlattenSeq(s) = f[Len(s)]
<1> DEFINE f == CHOOSE f : Joins(s, Len(s), f)
<1>1. FlattenSeq(s) = f[Len(s)]
  BY DEF FlattenSeq, Joins
<1>2. \E h : Joins(s, Len(s), h)
  BY JoinsExists, LenProperties
<1>3. Joins(s, Len(s), f)
  BY <1>2, Zenon
<1>4. QED BY <1>1, <1>3, Zenon

\* What an iterator has yielded, put together, grows by what it yields next.
LEMMA FlattenAppend ==
  ASSUME NEW S, NEW s \in Seq(Seq(S)), NEW e \in Seq(S)
  PROVE  /\ FlattenSeq(s) \in Seq(S)
         /\ FlattenSeq(Append(s, e)) = FlattenSeq(s) \o e
<1> DEFINE t == Append(s, e)
<1>1. /\ t \in Seq(Seq(S)) /\ Len(s) \in Nat /\ Len(t) = Len(s) + 1
      /\ \A i \in 1 .. Len(s) : t[i] = s[i]
      /\ t[Len(t)] = e
  BY AppendProperties
<1> HIDE DEF t
<1>2. PICK g : Joins(t, Len(t), g) /\ FlattenSeq(t) = g[Len(t)]
  BY <1>1, FlattenJoins
<1>3. g[Len(t)] = IF Len(t) = 1 THEN e ELSE g[Len(t) - 1] \o e
  <2>1. g[Len(t)] = [i \in 1 .. Len(t) |-> IF i = 1 THEN t[i] ELSE g[i - 1] \o t[i]][Len(t)]
    BY <1>2, Zenon DEF Joins
  <2>2. Len(t) \in 1 .. Len(t)
    BY <1>1
  <2>3. QED BY <1>1, <2>1, <2>2
<1>4. FlattenSeq(s) \in Seq(S) /\ FlattenSeq(t) = FlattenSeq(s) \o e
  <2>1. CASE Len(s) = 0
    <3>1. s = << >> /\ FlattenSeq(s) = s
      BY <2>1, EmptySeq DEF FlattenSeq
    <3>2. << >> \o e = e /\ << >> \in Seq(S)
      OBVIOUS
    <3>3. FlattenSeq(t) = e
      BY <1>1, <1>2, <1>3, <2>1
    <3>4. QED BY <3>1, <3>2, <3>3
  <2>2. CASE Len(s) # 0
    <3>1. PICK f : Joins(s, Len(s), f) /\ FlattenSeq(s) = f[Len(s)]
      BY <2>2, FlattenJoins
    <3>2. \A i \in 1 .. Len(s) : f[i] \in Seq(S) /\ g[i] = f[i]
      <4>1. Joins(s, Len(s), f) /\ Joins(Append(s, e), Len(s) + 1, g)
        BY <1>1, <1>2, <3>1 DEF t
      <4>2. QED BY <4>1, JoinsAgree
    <3>3. Len(s) \in 1 .. Len(s) /\ Len(t) - 1 = Len(s) /\ Len(t) # 1
      BY <1>1, <2>2
    <3>4. QED BY <1>2, <1>3, <3>1, <3>2, <3>3
  <2>3. QED BY <2>1, <2>2
<1>5. QED BY <1>4 DEF t

\* Joining sequences over a set gives one over that set.
LEMMA FlattenTyped ==
  ASSUME NEW S, NEW s \in Seq(Seq(S))
  PROVE  FlattenSeq(s) \in Seq(S)
<1>1. << >> \in Seq(S)
  BY EmptyList
<1>2. QED BY <1>1, FlattenAppend

\* Nothing joined is nothing.
LEMMA FlattenEmpty == FlattenSeq(<< >>) = << >>
  BY EmptyList DEF FlattenSeq

\* Appending to the second of two sequences appends to both.
LEMMA ConcatAppend ==
  ASSUME NEW S, NEW s \in Seq(S), NEW t \in Seq(S), NEW e \in S
  PROVE  s \o Append(t, e) = Append(s \o t, e)
<1>1. <<e>> \in Seq(S) /\ s \o t \in Seq(S)
  OBVIOUS
<1>2. Append(t, e) = t \o <<e>> /\ Append(s \o t, e) = (s \o t) \o <<e>>
  BY <1>1, AppendIsConcat
<1>3. (s \o t) \o <<e>> = s \o (t \o <<e>>)
  BY <1>1, ConcatAssociative
<1>4. QED BY <1>2, <1>3

\* If joining s and y apart is joining them together, so it is with one more behind y.
LEMMA FlattenStep ==
  ASSUME NEW S, NEW s \in Seq(Seq(S)), NEW y \in Seq(Seq(S)), NEW e \in Seq(S),
         FlattenSeq(s \o y) = FlattenSeq(s) \o FlattenSeq(y)
  PROVE  FlattenSeq(s \o Append(y, e)) = FlattenSeq(s) \o FlattenSeq(Append(y, e))
<1>1. s \o Append(y, e) = Append(s \o y, e)
  BY ConcatAppend
<1>2. s \o y \in Seq(Seq(S))
  BY ConcatProperties
<1>3. /\ FlattenSeq(Append(s \o y, e)) = FlattenSeq(s \o y) \o e
      /\ FlattenSeq(Append(y, e)) = FlattenSeq(y) \o e
  BY <1>2, FlattenAppend
<1>4. FlattenSeq(s) \in Seq(S) /\ FlattenSeq(y) \in Seq(S)
  BY FlattenTyped
<1>5. (FlattenSeq(s) \o FlattenSeq(y)) \o e = FlattenSeq(s) \o (FlattenSeq(y) \o e)
  BY <1>4, ConcatAssociative
<1>6. QED BY <1>1, <1>3, <1>5

\* Lists put together one after the other.
LEMMA FlattenConcat ==
  ASSUME NEW S, NEW s \in Seq(Seq(S)), NEW t \in Seq(Seq(S))
  PROVE  /\ FlattenSeq(s \o t) \in Seq(S)
         /\ FlattenSeq(s \o t) = FlattenSeq(s) \o FlattenSeq(t)
<1> DEFINE Fails(x) == x \in Seq(Seq(S)) /\ FlattenSeq(s \o x) # FlattenSeq(s) \o FlattenSeq(x)
           Bad == {n \in Nat : \E x : Len(x) = n /\ Fails(x)}
<1>1. SUFFICES ASSUME Bad # {} PROVE FALSE
  <2>1. ASSUME Fails(t) PROVE Len(t) \in Bad
    BY <2>1
  <2>2. FlattenSeq(s \o t) \in Seq(S)
    BY FlattenTyped, ConcatProperties
  <2>3. QED BY <2>1, <2>2
<1>2. PICK n \in Bad : \A m \in Bad : n <= m
  BY <1>1, LeastNat
<1>3. PICK x : Len(x) = n /\ Fails(x)
  OBVIOUS
<1>4. CASE x = << >>
  <2>1. s \o << >> = s
    OBVIOUS
  <2>2. FlattenSeq(s) \in Seq(S)
    BY FlattenTyped
  <2>3. FlattenSeq(s) \o << >> = FlattenSeq(s)
    BY <2>2
  <2>4. QED BY <1>3, <1>4, <2>1, <2>3, FlattenEmpty
<1>5. CASE x # << >>
  <2>1. PICK y \in Seq(Seq(S)), e \in Seq(S) : x = Append(y, e)
    BY <1>3, <1>5, SequenceEmptyOrAppend
  <2>2. ~Fails(y)
    <3>1. Len(y) \in Nat /\ Len(y) + 1 = n
      BY <1>3, <2>1, AppendProperties
    <3>2. Len(y) \notin Bad
      BY <1>2, <3>1
    <3>3. QED BY <3>1, <3>2
  <2>3. FlattenSeq(s \o y) = FlattenSeq(s) \o FlattenSeq(y)
    BY <2>1, <2>2
  <2>4. QED BY <1>3, <2>1, <2>3, FlattenStep
<1>6. QED BY <1>4, <1>5

\* All but the last of a list.
LEMMA FrontOf ==
  ASSUME NEW S, NEW s \in Seq(S), s # << >>
  PROVE  /\ Front(s) \in Seq(S) /\ Len(Front(s)) = Len(s) - 1
         /\ \A i \in 1 .. (Len(s) - 1) : Front(s)[i] = s[i]
<1>1. Len(s) \in Nat \ {0}
  BY EmptySeq
<1>2. Front(s) = SubSeq(s, 1, Len(s) - 1)
  BY DEF Front
<1>3. \A i \in 1 .. (Len(s) - 1) : s[i] \in S
  BY <1>1
<1>4. /\ SubSeq(s, 1, Len(s) - 1) \in Seq(S)
      /\ Len(SubSeq(s, 1, Len(s) - 1)) = IF 1 <= Len(s) - 1 THEN Len(s) - 1 - 1 + 1 ELSE 0
      /\ \A i \in 1 .. Len(s) - 1 - 1 + 1 : SubSeq(s, 1, Len(s) - 1)[i] = s[1 + i - 1]
  <2>1. 1 \in Int /\ Len(s) - 1 \in Int
    BY <1>1
  <2>2. QED BY <1>3, <2>1, SubSeqProperties
<1>5. ASSUME NEW n \in Nat \ {0}
      PROVE  /\ (IF 1 <= n - 1 THEN n - 1 - 1 + 1 ELSE 0) = n - 1
             /\ \A i \in 1 .. (n - 1) : i \in 1 .. n - 1 - 1 + 1 /\ 1 + i - 1 = i
  <2>1. n = 1 \/ 1 <= n - 1
    OBVIOUS
  <2>2. n - 1 - 1 + 1 = n - 1
    OBVIOUS
  <2>3. \A i \in 1 .. (n - 1) : 1 + i - 1 = i
    OBVIOUS
  <2>4. QED BY <2>1, <2>2, <2>3
<1>6. QED BY <1>1, <1>2, <1>4, <1>5

\* A list with one more.
LEMMA AppendOf ==
  ASSUME NEW S, NEW s \in Seq(S), NEW p \in S
  PROVE  /\ Append(s, p) \in Seq(S) /\ Len(Append(s, p)) = Len(s) + 1
         /\ \A i \in 1 .. Len(s) : Append(s, p)[i] = s[i]
         /\ Append(s, p)[Len(s) + 1] = p
         /\ Len(s) \in Nat
  BY AppendProperties

\* The ends of a list.
LEMMA LastOf ==
  ASSUME NEW S, NEW s \in Seq(S) \ {<< >>}
  PROVE  Len(s) \in Nat \ {0} /\ Last(s) \in S /\ s[1] \in S
<1>1. Len(s) \in Nat \ {0}
  BY EmptySeq
<1>2. Len(s) \in 1 .. Len(s) /\ 1 \in 1 .. Len(s)
  BY <1>1
<1>3. QED BY <1>1, <1>2 DEF Last

-----------------------------------------------------------------------------
(***************************************************************************)
(* What a fold over a list builds up.  FoldLeft of the library folds over  *)
(* the set of places, the last one first; so do these facts.               *)
(***************************************************************************)
\* Induction on the first numbers, over a set.
LEMMA FirstNumbers ==
  ASSUME NEW n \in Nat, NEW S, 0 \in S, \A m \in 0 .. (n - 1) : m \in S => m + 1 \in S
  PROVE  0 .. n \subseteq S
<1> DEFINE Bad == {m \in Nat : m <= n /\ m \notin S}
<1>1. SUFFICES ASSUME Bad # {} PROVE FALSE
  OBVIOUS
<1>2. PICK m \in Bad : \A k \in Bad : m <= k
  BY <1>1, LeastNat
<1>3. m \in Nat /\ m <= n /\ m \notin S /\ m # 0
  OBVIOUS
<1>4. m - 1 \in 0 .. (n - 1) /\ ~ (m <= m - 1) /\ (m - 1) + 1 = m /\ m - 1 <= n /\ m - 1 \in Nat
  BY <1>3
<1>5. m - 1 \notin Bad
  <2> HIDE DEF Bad
  <2>1. QED BY <1>2, <1>4
<1>6. m - 1 \in S
  BY <1>4, <1>5
<1>7. QED BY <1>3, <1>4, <1>6

\* The greatest of some places of a list.
LEMMA MaxOf ==
  ASSUME NEW n \in Nat, NEW T \in SUBSET (1 .. n), T # {}
  PROVE  /\ Max(T) \in T /\ \A y \in T : y <= Max(T)
         /\ Max(T) \in 1 .. n /\ T \ {Max(T)} \in SUBSET (1 .. n)
         /\ T \ {Max(T)} \in SUBSET (1 .. (Max(T) - 1))
<1> DEFINE Above == {m \in Nat : \A y \in T : y <= m}
<1>1. n \in Above
  OBVIOUS
<1>2. PICK m \in Above : \A k \in Above : m <= k
  <2>1. Above \in SUBSET Nat /\ Above # {}
    BY <1>1
  <2> HIDE DEF Above
  <2>2. QED BY <2>1, LeastNat
<1>3. m \in T
  <2>1. SUFFICES ASSUME m \notin T PROVE FALSE
    OBVIOUS
  <2>2. \A y \in T : y <= m /\ y # m /\ y \in 1 .. n
    BY <2>1
  <2>3. PICK y \in T : TRUE
    OBVIOUS
  <2>4. m - 1 \in Nat
    BY <2>2, <2>3
  <2>5. m - 1 \in Above
    BY <2>2, <2>4
  <2>6. ~ (m <= m - 1)
    BY <2>4
  <2> HIDE DEF Above
  <2>7. QED BY <1>2, <2>5, <2>6
<1>4. \A y \in T : y <= m
  OBVIOUS
<1>5. Max(T) \in T /\ \A y \in T : Max(T) >= y
  <2>1. m \in T /\ \A y \in T : m >= y
    BY <1>3, <1>4
  <2>2. Max(T) = CHOOSE x \in T : \A y \in T : x >= y
    BY DEF Max
  <2>3. QED BY <2>1, <2>2, Zenon
<1> HIDE DEF Above
<1>6. Max(T) \in 1 .. n /\ \A y \in T : y \in 1 .. n /\ y <= Max(T)
  BY <1>5
<1>7. \A y \in T \ {Max(T)} : y \in 1 .. (Max(T) - 1)
  BY <1>6
<1>8. QED BY <1>5, <1>6, <1>7

\* What folding F over s from b builds up, by sets of places (FoldLeft of the library).
FoldedBy(F, b, s, n, d) ==
  d = [T \in SUBSET (1 .. n) |-> IF T = {} THEN b ELSE F[<<d[T \ {Max(T)}], s[Max(T)]>>]]

\* There is a function that folds.
LEMMA FoldExists ==
  ASSUME NEW F, NEW b, NEW s, NEW n \in Nat
  PROVE  \E d : FoldedBy(F, b, s, n, d)
<1> DEFINE Bad == {k \in Nat : ~\E d : FoldedBy(F, b, s, k, d)}
<1>1. SUFFICES ASSUME Bad # {} PROVE FALSE
  OBVIOUS
<1>2. PICK k \in Bad : \A m \in Bad : k <= m
  BY <1>1, LeastNat
<1>3. k \in Nat /\ ~\E d : FoldedBy(F, b, s, k, d)
  OBVIOUS
<1>4. CASE k = 0
  <2> DEFINE d == [T \in SUBSET (1 .. 0) |-> b]
  <2>1. \A T \in SUBSET (1 .. 0) : T = {}
    OBVIOUS
  <2>2. FoldedBy(F, b, s, 0, d)
    BY <2>1 DEF FoldedBy
  <2>3. QED BY <1>3, <1>4, <2>2
<1>5. CASE k # 0
  <2>1. k - 1 \in Nat /\ k - 1 \notin Bad
    <3>1. k - 1 \in Nat /\ ~ (k <= k - 1)
      BY <1>3, <1>5
    <3> HIDE DEF Bad
    <3>2. QED BY <1>2, <3>1
  <2>2. PICK d : FoldedBy(F, b, s, k - 1, d)
    BY <2>1
  <2> DEFINE V(T) == IF T = {} THEN b ELSE F[<<d[T \ {Max(T)}], s[Max(T)]>>]
             g == [T \in SUBSET (1 .. k) |-> V(T)]
             h == [T \in SUBSET (1 .. k) |-> IF T = {} THEN b ELSE F[<<g[T \ {Max(T)}], s[Max(T)]>>]]
  <2>3. ASSUME NEW T \in SUBSET (1 .. k), T # {} PROVE g[T \ {Max(T)}] = d[T \ {Max(T)}]
    <3> DEFINE U == T \ {Max(T)}
    <3>1. U \in SUBSET (1 .. k) /\ Max(T) \in 1 .. k /\ U \in SUBSET (1 .. (Max(T) - 1))
      BY <1>3, <2>3, MaxOf
    <3>2. U \in SUBSET (1 .. (k - 1))
      BY <1>3, <3>1
    <3> HIDE DEF U
    <3>3. d[U] = [W \in SUBSET (1 .. (k - 1)) |-> V(W)][U]
      BY <2>2, Zenon DEF FoldedBy
    <3>4. d[U] = V(U)
      BY <3>2, <3>3
    <3> HIDE DEF V
    <3>5. g[U] = V(U)
      BY <3>1
    <3>6. QED BY <3>4, <3>5 DEF U
  <2>4. \A T \in SUBSET (1 .. k) : g[T] = h[T]
    BY <2>3
  <2>5. g = h
    BY <2>4
  <2> HIDE DEF g
  <2>6. FoldedBy(F, b, s, k, g)
    BY <2>5 DEF FoldedBy
  <2>7. QED BY <1>3, <2>6
<1>6. QED BY <1>4, <1>5

\* With a typed F the values are typed, and what makes the same steps is the same.
FoldSteps(A, B, F, b, s, n, d) ==
  /\ F \in [A \X B -> A] /\ b \in A /\ n \in Nat
  /\ \A i \in 1 .. n : s[i] \in B
  /\ d[{}] = b
  /\ \A T \in SUBSET (1 .. n) : T # {} /\ d[T \ {Max(T)}] \in A
                                   => d[T] = F[<<d[T \ {Max(T)}], s[Max(T)]>>]

\* On the initial segments it is the loop over the sequence.
LEMMA FoldAgrees ==
  ASSUME NEW A, NEW B, NEW F, NEW b, NEW s, NEW n, NEW d, FoldSteps(A, B, F, b, s, n, d)
  PROVE  /\ \A m \in 0 .. n : d[1 .. m] \in A
         /\ \A m \in 1 .. n : d[1 .. m] = F[<<d[1 .. (m - 1)], s[m]>>]
         /\ \A T \in SUBSET (1 .. n) : d[T] \in A
<1> USE DEF FoldSteps
<1> DEFINE Bad == {m \in Nat : m <= n /\ \E T \in SUBSET (1 .. m) : d[T] \notin A}
<1>1. Bad = {}
  <2>1. SUFFICES ASSUME Bad # {} PROVE FALSE
    OBVIOUS
  <2>2. PICK m \in Bad : \A k \in Bad : m <= k
    BY <2>1, LeastNat
  <2>3. m \in Nat /\ m <= n /\ \E T \in SUBSET (1 .. m) : d[T] \notin A
    OBVIOUS
  <2>4. PICK T \in SUBSET (1 .. m) : d[T] \notin A
    BY <2>3
  <2>5. T # {}
    BY <2>4
  <2> DEFINE U == T \ {Max(T)}
  <2>6. Max(T) \in 1 .. m /\ U \in SUBSET (1 .. (Max(T) - 1))
    BY <2>3, <2>5, MaxOf
  <2>7. Max(T) - 1 \in Nat /\ Max(T) - 1 <= n /\ Max(T) - 1 < m
    BY <2>3, <2>6
  <2>8. Max(T) - 1 \notin Bad
    <3>1. ~ (m <= Max(T) - 1)
      BY <2>3, <2>7
    <3> HIDE DEF Bad
    <3>2. QED BY <2>2, <3>1
  <2>9. d[U] \in A
    BY <2>6, <2>7, <2>8
  <2>10. T \in SUBSET (1 .. n) /\ s[Max(T)] \in B
    BY <2>3, <2>6
  <2> HIDE DEF Bad
  <2>11. d[T] = F[<<d[U], s[Max(T)]>>]
    BY <2>5, <2>9, <2>10
  <2>12. F[<<d[U], s[Max(T)]>>] \in A
    BY <2>9, <2>10
  <2>13. QED BY <2>4, <2>11, <2>12
<1>2. \A T \in SUBSET (1 .. n) : d[T] \in A
  <2>1. n \notin Bad
    BY <1>1
  <2>2. QED BY <2>1
<1>3. \A m \in 0 .. n : d[1 .. m] \in A
  BY <1>2
<1>4. ASSUME NEW m \in 1 .. n PROVE d[1 .. m] = F[<<d[1 .. (m - 1)], s[m]>>]
  <2> DEFINE T == 1 .. m
  <2>1. T \in SUBSET (1 .. n) /\ T # {} /\ m \in Nat /\ T \in SUBSET (1 .. m)
    OBVIOUS
  <2>2. Max(T) = m
    <3>1. Max(T) \in 1 .. m /\ \A y \in T : y <= Max(T)
      BY <2>1, MaxOf
    <3>2. m <= Max(T)
      BY <2>1, <3>1
    <3>3. QED BY <3>1, <3>2
  <2>3. T \ {m} = 1 .. (m - 1)
    OBVIOUS
  <2>4. d[1 .. (m - 1)] \in A
    BY <1>3
  <2> HIDE DEF T
  <2>5. d[T] = F[<<d[T \ {Max(T)}], s[Max(T)]>>]
    BY <2>1, <2>2, <2>3, <2>4
  <2>6. QED BY <2>2, <2>3, <2>5 DEF T
<1>5. QED BY <1>2, <1>3, <1>4

\* There is such a fold, and all of it is typed.
TypedFolded(A, F, b, s, n, f) ==
  /\ f = [T \in SUBSET (1 .. n) |-> f[T]]
  /\ f[{}] = b
  /\ \A T \in SUBSET (1 .. n) :
       /\ f[T] \in A
       /\ T # {} => /\ Max(T) \in 1 .. n /\ T \ {Max(T)} \in SUBSET (1 .. n)
                    /\ f[T] = F[<<f[T \ {Max(T)}], s[Max(T)]>>]

\* The two together.
LEMMA TypedFold ==
  ASSUME NEW A, NEW B, NEW F, NEW b \in A, NEW n \in Nat, NEW s,
         F \in [A \X B -> A], \A i \in 1 .. n : s[i] \in B
  PROVE  \E f : TypedFolded(A, F, b, s, n, f)
<1>1. PICK f : FoldedBy(F, b, s, n, f)
  BY FoldExists
<1>2. f[{}] = b /\ \A T \in SUBSET (1 .. n) : T # {} => f[T] = F[<<f[T \ {Max(T)}], s[Max(T)]>>]
  <2>1. {} \in SUBSET (1 .. n)
    OBVIOUS
  <2>2. \A T \in SUBSET (1 .. n) : f[T] = IF T = {} THEN b ELSE F[<<f[T \ {Max(T)}], s[Max(T)]>>]
    <3>1. ASSUME NEW T \in SUBSET (1 .. n)
          PROVE  f[T] = [W \in SUBSET (1 .. n) |->
                           IF W = {} THEN b ELSE F[<<f[W \ {Max(W)}], s[Max(W)]>>]][T]
      BY <1>1, Zenon DEF FoldedBy
    <3>2. QED BY <3>1
  <2>3. QED BY <2>1, <2>2
<1>3. \A T \in SUBSET (1 .. n) : f[T] \in A
  <2>1. FoldSteps(A, B, F, b, s, n, f)
    BY <1>2 DEF FoldSteps
  <2>2. QED BY <2>1, FoldAgrees
<1>4. ASSUME NEW T \in SUBSET (1 .. n), T # {}
      PROVE  T \ {Max(T)} \in SUBSET (1 .. n) /\ Max(T) \in 1 .. n
  BY <1>4, MaxOf
<1>5. f = [T \in SUBSET (1 .. n) |-> f[T]]
  BY <1>1, Zenon DEF FoldedBy
<1>6. TypedFolded(A, F, b, s, n, f)
  BY <1>2, <1>3, <1>4, <1>5 DEF TypedFolded
<1>7. QED BY <1>6

-----------------------------------------------------------------------------
(***************************************************************************)
(* Places in ascending order (Positions).                                  *)
(***************************************************************************)
\* f lists S in ascending order.
Enumerates(f, n, S) ==
  /\ f \in [1 .. n -> S]
  /\ \A x \in S : \E k \in 1 .. n : f[k] = x
  /\ \A i, j \in 1 .. n : i < j => f[i] < f[j]

\* An enumeration of a set is as long as the set is large; k - 1 members are below the k-th.
LEMMA EnumerationCounts ==
  ASSUME NEW S \in SUBSET Int, NEW n \in Nat, NEW f, Enumerates(f, n, S)
  PROVE  /\ Cardinality(S) = n
         /\ \A k \in 1 .. n : Cardinality({x \in S : x < f[k]}) = k - 1
<1>1. \A i, j \in 1 .. n : f[i] < f[j] <=> i < j
  <2>1. \A i \in 1 .. n : f[i] \in Int
    BY DEF Enumerates
  <2>2. \A i, j \in 1 .. n : i < j \/ i = j \/ j < i
    OBVIOUS
  <2>3. QED BY <2>1, <2>2 DEF Enumerates
<1>2. \A i, j \in 1 .. n : f[i] = f[j] => i = j
  <2>1. \A i, j \in 1 .. n : i < j \/ i = j \/ j < i
    OBVIOUS
  <2>2. \A i \in 1 .. n : ~ (f[i] < f[i])
    BY <1>1
  <2>3. QED BY <1>1, <2>1, <2>2
<1>3. ASSUME NEW m \in 0 .. n, NEW T, \A k \in 1 .. m : f[k] \in T,
             \A x \in T : \E k \in 1 .. m : f[k] = x
      PROVE  Cardinality(T) = m
  <2> DEFINE g == [k \in 1 .. m |-> f[k]]
  <2>1. g \in Bijection(1 .. m, T)
    <3>1. g \in [1 .. m -> T]
      BY <1>3
    <3>2. \A i, j \in 1 .. m : g[i] = g[j] => i = j
      BY <1>2
    <3>3. \A x \in T : \E k \in 1 .. m : g[k] = x
      BY <1>3
    <3> HIDE DEF g
    <3>4. QED BY <3>1, <3>2, <3>3 DEF Bijection, Injection, Surjection, IsInjective
  <2>2. ExistsBijection(1 .. m, T) /\ m \in Nat
    BY <2>1 DEF ExistsBijection
  <2>3. QED BY <2>2, FS_CountingElements
<1>4. Cardinality(S) = n
  <2>1. n \in 0 .. n
    OBVIOUS
  <2>2. QED BY <2>1, <1>3 DEF Enumerates
<1>5. ASSUME NEW k \in 1 .. n PROVE Cardinality({x \in S : x < f[k]}) = k - 1
  <2> DEFINE T == {x \in S : x < f[k]}
  <2>1. k - 1 \in 0 .. n /\ 1 .. (k - 1) \subseteq 1 .. n
    OBVIOUS
  <2>2. \A i \in 1 .. (k - 1) : f[i] \in T
    BY <1>1, <2>1 DEF Enumerates
  <2>3. \A x \in T : \E i \in 1 .. (k - 1) : f[i] = x
    <3>1. SUFFICES ASSUME NEW x \in T PROVE \E i \in 1 .. (k - 1) : f[i] = x
      OBVIOUS
    <3>2. PICK i \in 1 .. n : f[i] = x
      BY DEF Enumerates
    <3>3. i < k
      BY <1>1, <3>2
    <3>4. QED BY <3>2, <3>3
  <2> HIDE DEF T
  <2>4. Cardinality(T) = k - 1
    BY <1>3, <2>1, <2>2, <2>3
  <2>5. QED BY <2>4 DEF T
<1>6. QED BY <1>4, <1>5

\* There is one such list.
LEMMA AscendingIs ==
  ASSUME NEW S \in SUBSET Int, NEW n \in Nat, NEW f, Enumerates(f, n, S)
  PROVE  Ascending(S) = f /\ Cardinality(S) = n
<1> DEFINE Below(i) == Cardinality({x \in S : x < i})
<1>1. Cardinality(S) = n /\ \A k \in 1 .. n : Below(f[k]) = k - 1
  BY EnumerationCounts
<1> HIDE DEF Below
<1>2. ASSUME NEW k \in 1 .. n PROVE (CHOOSE i \in S : Below(i) = k - 1) = f[k]
  <2>1. f[k] \in S /\ Below(f[k]) = k - 1
    BY <1>1 DEF Enumerates
  <2>2. ASSUME NEW i \in S, Below(i) = k - 1 PROVE i = f[k]
    <3>1. PICK m \in 1 .. n : f[m] = i
      BY DEF Enumerates
    <3>2. m - 1 = k - 1
      BY <1>1, <2>2, <3>1
    <3>3. QED BY <3>1, <3>2
  <2>3. QED BY <2>1, <2>2
<1>3. [k \in 1 .. n |-> CHOOSE i \in S : Below(i) = k - 1] = f
  <2>1. f = [k \in 1 .. n |-> f[k]]
    BY DEF Enumerates
  <2>2. QED BY <1>2, <2>1
<1>4. Ascending(S) = [k \in 1 .. n |-> CHOOSE i \in S : Below(i) = k - 1]
  BY <1>1 DEF Ascending, Below
<1>5. QED BY <1>1, <1>3, <1>4

\* One more, above all the others.
LEMMA EnumeratesStep ==
  ASSUME NEW S \in SUBSET Int, NEW n \in Nat, NEW f, Enumerates(f, n, S),
         NEW m \in Int, \A x \in S : x < m
  PROVE  Enumerates([k \in 1 .. (n + 1) |-> IF k = n + 1 THEN m ELSE f[k]], n + 1, S \cup {m})
<1> DEFINE g == [k \in 1 .. (n + 1) |-> IF k = n + 1 THEN m ELSE f[k]]
<1>1. \A k \in 1 .. (n + 1) : k \in 1 .. n \/ k = n + 1
  OBVIOUS
<1>2. \A k \in 1 .. n : g[k] = f[k] /\ f[k] \in S /\ f[k] \in Int
  <2>1. \A k \in 1 .. n : k \in 1 .. (n + 1) /\ k # n + 1
    OBVIOUS
  <2>2. \A k \in 1 .. n : f[k] \in S
    BY DEF Enumerates
  <2>3. QED BY <2>1, <2>2
<1>3. g[n + 1] = m /\ n + 1 \in 1 .. (n + 1)
  OBVIOUS
<1>4. g \in [1 .. (n + 1) -> S \cup {m}]
  BY <1>1, <1>2
<1> HIDE DEF g
<1>5. \A x \in S \cup {m} : \E k \in 1 .. (n + 1) : g[k] = x
  <2>1. \A k \in 1 .. n : k \in 1 .. (n + 1)
    OBVIOUS
  <2>2. QED BY <1>2, <1>3, <2>1 DEF Enumerates
<1>6. ASSUME NEW i \in 1 .. (n + 1), NEW j \in 1 .. (n + 1), i < j PROVE g[i] < g[j]
  <2>1. i \in 1 .. n
    BY <1>6
  <2>2. CASE j = n + 1
    BY <1>2, <1>3, <2>1, <2>2
  <2>3. CASE j # n + 1
    <3>1. j \in 1 .. n
      BY <2>3
    <3>2. QED BY <1>2, <1>6, <2>1, <3>1 DEF Enumerates
  <2>4. QED BY <2>2, <2>3
<1>7. QED BY <1>4, <1>5, <1>6 DEF Enumerates, g

\* Every set of places has one.
LEMMA EnumerationExists ==
  ASSUME NEW n \in Nat, NEW S \in SUBSET (1 .. n)
  PROVE  \E c \in Nat : \E f : Enumerates(f, c, S)
<1> DEFINE Good(T) == \E c \in Nat : \E f : Enumerates(f, c, T)
           Bad == {m \in Nat : \E T \in SUBSET (1 .. m) : ~Good(T)}
<1>1. SUFFICES ASSUME Bad # {} PROVE FALSE
  OBVIOUS
<1>2. PICK m \in Bad : \A k \in Bad : m <= k
  BY <1>1, LeastNat
<1>3. PICK T \in SUBSET (1 .. m) : ~Good(T)
  OBVIOUS
<1>4. CASE m = 0
  <2>1. T = {}
    BY <1>3, <1>4
  <2>2. Enumerates([k \in 1 .. 0 |-> 0], 0, {})
    BY DEF Enumerates
  <2>3. QED BY <1>3, <2>1, <2>2
<1>5. CASE m # 0
  <2> DEFINE U == T \ {m}
  <2>1. m - 1 \in Nat /\ m - 1 \notin Bad
    <3>1. m \in Nat /\ m - 1 \in Nat /\ ~ (m <= m - 1)
      BY <1>5
    <3> HIDE DEF Bad
    <3>2. QED BY <1>2, <3>1
  <2>2. U \in SUBSET (1 .. (m - 1)) /\ U \in SUBSET Int /\ \A x \in U : x < m
    BY <1>3, <1>5
  <2>3. Good(U)
    BY <2>1, <2>2
  <2>4. CASE m \in T
    <3>0. PICK c \in Nat : \E f : Enumerates(f, c, U)
      BY <2>3
    <3>1. PICK f : Enumerates(f, c, U)
      BY <3>0
    <3>2. T = U \cup {m}
      BY <2>4
    <3> HIDE DEF U
    <3>3. Enumerates([k \in 1 .. (c + 1) |-> IF k = c + 1 THEN m ELSE f[k]], c + 1, U \cup {m})
      BY <2>2, <3>1, EnumeratesStep
    <3>4. QED BY <1>3, <3>2, <3>3
  <2>5. CASE m \notin T
    BY <1>3, <2>3, <2>5
  <2>6. QED BY <2>4, <2>5
<1>6. QED BY <1>4, <1>5

\* Ascending is it.
LEMMA AscendingEnumerates ==
  ASSUME NEW n \in Nat, NEW S \in SUBSET (1 .. n)
  PROVE  /\ Cardinality(S) \in Nat
         /\ Enumerates(Ascending(S), Cardinality(S), S)
         /\ Ascending(S) \in Seq(S) /\ Len(Ascending(S)) = Cardinality(S)
<1>0. PICK c \in Nat : \E f : Enumerates(f, c, S)
  BY EnumerationExists
<1>1. PICK f : Enumerates(f, c, S)
  BY <1>0
<1>2. Ascending(S) = f /\ Cardinality(S) = c
  BY <1>1, AscendingIs
<1>3. f \in [1 .. c -> S]
  BY <1>1 DEF Enumerates
<1>4. QED BY <1>1, <1>2, <1>3

\* No places.
LEMMA AscendingEmpty == Ascending({}) = << >> /\ Cardinality({}) = 0
<1>1. Enumerates(<< >>, 0, {})
  BY DEF Enumerates
<1>2. QED BY <1>1, AscendingIs

\* One more place, behind all the others.
LEMMA AscendingStep ==
  ASSUME NEW n \in Nat, NEW S \in SUBSET (1 .. n), NEW m \in Nat, n < m
  PROVE  Ascending(S \cup {m}) = Append(Ascending(S), m)
<1> DEFINE f == Ascending(S)
           c == Cardinality(S)
           g == [k \in 1 .. (c + 1) |-> IF k = c + 1 THEN m ELSE f[k]]
<1>1. c \in Nat /\ Enumerates(f, c, S) /\ f \in Seq(S) /\ Len(f) = c
  BY AscendingEnumerates
<1>2. S \in SUBSET Int /\ \A x \in S : x < m
  OBVIOUS
<1> HIDE DEF f, c
<1>3. Enumerates(g, c + 1, S \cup {m})
  BY <1>1, <1>2, EnumeratesStep
<1>4. Ascending(S \cup {m}) = g
  BY <1>1, <1>2, <1>3, AscendingIs
<1>5. Append(f, m) = g
  <2>1. f \in [1 .. c -> Nat]
    <3>1. S \subseteq Nat
      OBVIOUS
    <3>2. QED BY <1>1, <3>1 DEF Enumerates
  <2>2. f \in Seq(Nat)
    BY <1>1, <2>1
  <2>3. /\ Append(f, m) \in Seq(Nat) /\ Len(Append(f, m)) = c + 1
        /\ \A k \in 1 .. c : Append(f, m)[k] = f[k]
        /\ Append(f, m)[c + 1] = m
    BY <1>1, <2>2, AppendProperties
  <2>4. g \in Seq(Nat) /\ Len(g) = c + 1
    <3>1. \A k \in 1 .. (c + 1) : g[k] \in Nat
      BY <1>1, <2>1
    <3>2. QED BY <1>1, <3>1
  <2>5. \A k \in 1 .. (c + 1) : Append(f, m)[k] = g[k]
    <3>1. \A k \in 1 .. (c + 1) : k \in 1 .. c \/ k = c + 1
      BY <1>1
    <3>2. QED BY <2>3, <3>1
  <2> HIDE DEF g
  <2>6. QED BY <2>3, <2>4, <2>5, SeqEqual
<1>6. QED BY <1>4, <1>5 DEF f

\* What Selected picks.
LEMMA SelectedElements ==
  ASSUME NEW S, NEW s \in Seq(S), NEW n \in Nat, NEW K \in SUBSET (1 .. n), n <= Len(s)
  PROVE  /\ Selected(s, K) \in Seq(S)
         /\ \A k \in 1 .. Len(Selected(s, K)) : \E i \in K : Selected(s, K)[k] = s[i]
         /\ \A i \in K : \E k \in 1 .. Len(Selected(s, K)) : Selected(s, K)[k] = s[i]
<1> DEFINE order == Ascending(K)
           r == [k \in 1 .. Len(order) |-> s[order[k]]]
<1>1. order \in Seq(K) /\ Len(order) \in Nat /\ DOMAIN order = 1 .. Len(order)
  <2>1. Ascending(K) \in Seq(K)
    BY AscendingEnumerates
  <2> HIDE DEF order
  <2>2. QED BY <2>1 DEF order
<1>2. \A i \in K : \E k \in 1 .. Len(order) : order[k] = i
  BY AscendingEnumerates DEF Enumerates
<1>3. \A k \in 1 .. Len(order) : order[k] \in K
  BY <1>1
<1>4. \A i \in K : s[i] \in S
  OBVIOUS
<1>5. Selected(s, K) = r
  BY <1>1 DEF Selected
<1> HIDE DEF order
<1>6. r \in Seq(S) /\ Len(r) = Len(order)
  <2>1. \A k \in 1 .. Len(order) : s[order[k]] \in S
    BY <1>3, <1>4
  <2>2. QED BY <1>1, <2>1
<1>7. \A k \in 1 .. Len(order) : r[k] = s[order[k]]
  OBVIOUS
<1> HIDE DEF r
<1>8. \A k \in 1 .. Len(r) : \E i \in K : r[k] = s[i]
  BY <1>3, <1>6, <1>7
<1>9. \A i \in K : \E k \in 1 .. Len(r) : r[k] = s[i]
  BY <1>2, <1>6, <1>7
<1>10. QED BY <1>5, <1>6, <1>8, <1>9

=============================================================================
