--------------------------- MODULE SequenceLemmas ---------------------------
(***************************************************************************)
(* Facts about sequences that the proofs about several components share:   *)
(* what appending to a feed, receiving from it and losing its youngest     *)
(* events do to the events under way (module EventFeed), what FlattenSeq,  *)
(* a recursive function, computes, what a FlatMap made of it tells of the  *)
(* elements of a kind, and that finite sets of numbers can be ranked.      *)
(***************************************************************************)
EXTENDS Naturals, Sequences, SequencesExt, FiniteSetTheorems, SequenceTheorems,
        WellFoundedInduction, TLAPS

-----------------------------------------------------------------------------
(* Feeds.                                                                  *)

\* The youngest event of a feed is one of its events.
LEMMA LastOfFeed ==
    ASSUME NEW S, NEW s \in Seq(S), s # <<>>
    PROVE  /\ Len(s) \in DOMAIN s
           /\ Last(s) = s[Len(s)]
           /\ Last(s) \in S
BY DEF Last

\* Publish: the new event is the youngest, the others keep their places.
LEMMA PublishedFeed ==
    ASSUME NEW S, NEW s \in Seq(S), NEW e \in S
    PROVE  /\ Append(s, e) \in Seq(S)
           /\ Append(s, e) # <<>>
           /\ Last(Append(s, e)) = e
           /\ DOMAIN Append(s, e) = DOMAIN s \union {Len(s) + 1}
           /\ \A i \in DOMAIN s : Append(s, e)[i] = s[i] /\ i < Len(s) + 1
           /\ Append(s, e)[Len(s) + 1] = e
BY DEF Last

\* Receive: the oldest event goes, the others move up; the youngest stays the
\* youngest unless it was also the oldest.
LEMMA ReceivedFeed ==
    ASSUME NEW S, NEW s \in Seq(S), s # <<>>
    PROVE  /\ Head(s) \in S
           /\ Head(s) = s[1]
           /\ 1 \in DOMAIN s
           /\ Tail(s) \in Seq(S)
           /\ \A i \in DOMAIN Tail(s) :
                 i + 1 \in DOMAIN s /\ Tail(s)[i] = s[i + 1] /\ 1 < i + 1
           /\ Tail(s) = <<>> => Last(s) = Head(s)
           /\ Tail(s) # <<>> => Last(Tail(s)) = Last(s)
<1>1. Head(s) \in S /\ Head(s) = s[1] /\ 1 \in DOMAIN s
  OBVIOUS
<1>2. Tail(s) \in Seq(S) /\ Len(Tail(s)) = Len(s) - 1
  OBVIOUS
<1>3. \A i \in DOMAIN Tail(s) :
         i + 1 \in DOMAIN s /\ Tail(s)[i] = s[i + 1] /\ 1 < i + 1
  OBVIOUS
<1>4. CASE Len(s) = 1
  <2>1. PICK t \in Seq(S) : t = Tail(s)
    BY <1>2
  <2>2. Len(t) = 0
    BY <2>1, <1>2, <1>4
  <2>3. t = <<>>
    BY <2>2, EmptySeq
  <2>4. Last(s) = Head(s)
    BY <1>1, <1>4 DEF Last
  <2>5. QED
    BY <2>1, <2>3, <2>4, <1>1, <1>2, <1>3, Zenon
<1>5. CASE Len(s) # 1
  <2>1. PICK t \in Seq(S) : t = Tail(s)
    BY <1>2
  <2>2. Len(t) = Len(s) - 1 /\ Len(s) - 1 \in DOMAIN Tail(s)
    BY <2>1, <1>2, <1>5
  <2>3. t # <<>>
    BY <2>2, <1>5
  <2>4. Last(Tail(s)) = Last(s)
    BY <2>2, <1>2, <1>3 DEF Last
  <2>5. QED
    BY <2>1, <2>3, <2>4, <1>1, <1>2, <1>3, Zenon
<1>6. QED
  BY <1>4, <1>5

\* Break: a prefix survives.
LEMMA BrokenFeed ==
    ASSUME NEW S, NEW s \in Seq(S), NEW n \in 0 .. Len(s)
    PROVE  /\ SubSeq(s, 1, n) \in Seq(S)
           /\ DOMAIN SubSeq(s, 1, n) \subseteq DOMAIN s
           /\ \A i \in DOMAIN SubSeq(s, 1, n) : SubSeq(s, 1, n)[i] = s[i]
OBVIOUS

\* Removing a row of a list leaves a list.
LEMMA RemovedRow ==
    ASSUME NEW S, NEW s \in Seq(S), NEW i \in DOMAIN s
    PROVE  RemoveAt(s, i) \in Seq(S)
<1>1. SubSeq(s, 1, i - 1) \in Seq(S)
  OBVIOUS
<1>2. SubSeq(s, i + 1, Len(s)) \in Seq(S)
  OBVIOUS
<1>3. QED
  BY <1>1, <1>2 DEF RemoveAt

\* A concatenation, element by element
Joins(c, a, b) ==
    /\ Len(c) = Len(a) + Len(b)
    /\ \A i \in 1 .. Len(a) + Len(b) : c[i] = IF i <= Len(a) THEN a[i] ELSE b[i - Len(a)]

LEMMA JoinedSeqs ==
    ASSUME NEW S, NEW a \in Seq(S), NEW b \in Seq(S)
    PROVE  a \o b \in Seq(S) /\ Joins(a \o b, a, b)
<1>1. PICK c : c = a \o b
  OBVIOUS
<1>2. /\ c \in Seq(S) /\ Len(c) = Len(a) + Len(b)
      /\ \A i \in 1 .. Len(a) + Len(b) : c[i] = IF i <= Len(a) THEN a[i] ELSE b[i - Len(a)]
  BY <1>1, ConcatProperties, Zenon
<1>3. QED
  BY <1>1, <1>2, Zenon DEF Joins

-----------------------------------------------------------------------------
(* FlattenSeq.  An induction needs no operator as a parameter when its     *)
(* claim is a set: the numbers for which it holds.                         *)

\* Induction up to a bound: R holds the steps for which the claim is true.
LEMMA StepsReachAll ==
    ASSUME NEW n \in Nat, NEW R, 0 \in R, \A k \in 0 .. n - 1 : k \in R => k + 1 \in R
    PROVE  0 .. n \subseteq R
<1> DEFINE Missed == (0 .. n) \ R
<1>1. SUFFICES ASSUME Missed # {} PROVE FALSE
  OBVIOUS
<1>2. Missed \in SUBSET Nat
  OBVIOUS
<1>3. PICK x \in Missed : \A y \in Missed : ~ (<<y, x>> \in OpToRel(<, Nat))
  BY <1>1, <1>2, WFMin, NatLessThanWellFounded
<1>4. x \in Nat /\ x # 0 /\ x \in 0 .. n /\ x \notin R
  OBVIOUS
<1>5. x - 1 \in Nat /\ x - 1 \in 0 .. n - 1 /\ x - 1 \in 0 .. n /\ x - 1 < x /\ (x - 1) + 1 = x
  BY <1>4
<1>6. x - 1 \in Missed
  BY <1>4, <1>5
<1>7. <<x - 1, x>> \in OpToRel(<, Nat)
  BY <1>4, <1>5, Zenon DEF OpToRel
<1>8. QED
  BY <1>3, <1>6, <1>7, Zenon

\* FlattenSeq unfolded: f[i] is the concatenation of the first i.
Unfolds(f, ss, m) ==
    f = [i \in 1 .. m |-> IF i = 1 THEN ss[i] ELSE f[i - 1] \o ss[i]]

\* There is such an f for every m: the one for m + 1 extends the one for m.
LEMMA UnfoldingExists ==
    ASSUME NEW ss, NEW m \in Nat
    PROVE  \E f : Unfolds(f, ss, m)
<1> DEFINE R == {k \in 0 .. m : \E f : Unfolds(f, ss, k)}
<1>1. 0 \in R
  <2>1. Unfolds([i \in 1 .. 0 |-> ss], ss, 0)
    BY DEF Unfolds
  <2>2. QED
    BY <2>1
<1>2. ASSUME NEW k \in 0 .. m - 1, k \in R PROVE k + 1 \in R
  <2>1. PICK f : Unfolds(f, ss, k)
    BY <1>2
  <2> HIDE DEF R
  <2>2. \A i \in 1 .. k : f[i] = IF i = 1 THEN ss[i] ELSE f[i - 1] \o ss[i]
    BY <2>1 DEF Unfolds
  <2> DEFINE last == IF k = 0 THEN ss[1] ELSE f[k] \o ss[k + 1]
             g == [i \in 1 .. k + 1 |-> IF i = k + 1 THEN last ELSE f[i]]
  <2>3. ASSUME NEW i \in 1 .. k + 1
        PROVE  g[i] = IF i = 1 THEN ss[i] ELSE g[i - 1] \o ss[i]
    <3>1. CASE i = k + 1 /\ k = 0
      BY <3>1
    <3>2. CASE i = k + 1 /\ k # 0
      <4>1. k \in 1 .. k + 1 /\ k # k + 1 /\ i # 1 /\ i - 1 = k
        BY <3>2
      <4>2. g[i] = f[k] \o ss[k + 1] /\ g[k] = f[k]
        BY <3>2, <4>1
      <4>3. QED
        BY <4>1, <4>2, <3>2
    <3>3. CASE i # k + 1
      <4>1. i \in 1 .. k /\ (i # 1 => i - 1 \in 1 .. k + 1 /\ i - 1 # k + 1)
        BY <3>3
      <4>2. g[i] = f[i] /\ (i # 1 => g[i - 1] = f[i - 1])
        BY <4>1, <3>3
      <4>3. QED
        BY <4>1, <4>2, <2>2
    <3>4. QED
      BY <3>1, <3>2, <3>3
  <2>4. Unfolds(g, ss, k + 1)
    BY <2>3 DEF Unfolds
  <2>5. k + 1 \in 0 .. m
    OBVIOUS
  <2>6. QED
    BY <2>4, <2>5 DEF R
<1>3. 0 .. m \subseteq R
  <2> HIDE DEF R
  <2>1. QED
    BY <1>1, <1>2, StepsReachAll
<1>4. QED
  BY <1>3

\* FlattenSeq(ss) is reached from <<>> by appending one element of ss after
\* the other.
LEMMA FlattenGrows ==
    ASSUME NEW S, NEW ss \in Seq(Seq(S))
    PROVE  \E f \in [0 .. Len(ss) -> Seq(S)] :
              /\ f[0] = <<>>
              /\ \A i \in 1 .. Len(ss) : f[i] = f[i - 1] \o ss[i]
              /\ f[Len(ss)] = FlattenSeq(ss)
<1> DEFINE n == Len(ss)
<1>0. n \in Nat /\ \A i \in 1 .. n : ss[i] \in Seq(S)
  OBVIOUS
<1>1. CASE n = 0
  <2>1. FlattenSeq(ss) = ss
    BY <1>1 DEF FlattenSeq
  <2>2. ss = <<>>
    BY <1>1
  <2> DEFINE f == [i \in 0 .. n |-> <<>>]
  <2>3. f \in [0 .. n -> Seq(S)] /\ f[0] = <<>> /\ f[n] = <<>> /\ 1 .. n = {}
    BY <1>1
  <2> HIDE DEF f
  <2>4. QED
    BY <2>1, <2>2, <2>3
<1>2. CASE n # 0
  <2> DEFINE h == CHOOSE f : Unfolds(f, ss, n)
  <2>1. Unfolds(h, ss, n)
    BY <1>0, UnfoldingExists
  <2>2. FlattenSeq(ss) = h[n]
    BY <1>2 DEF FlattenSeq, Unfolds
  <2>3. \A i \in 1 .. n : h[i] = IF i = 1 THEN ss[i] ELSE h[i - 1] \o ss[i]
    BY <2>1 DEF Unfolds
  <2> HIDE DEF n, h
  <2> DEFINE f == [i \in 0 .. n |-> IF i = 0 THEN <<>> ELSE h[i]]
             R == {k \in 0 .. n : f[k] \in Seq(S)}
  <2>4. f[0] = <<>> /\ <<>> \in Seq(S) /\ 0 \in 0 .. n
    BY <1>0
  <2>5. ASSUME NEW i \in 1 .. n, f[i - 1] \in Seq(S)
        PROVE  f[i] = f[i - 1] \o ss[i] /\ f[i] \in Seq(S)
    <3>1. i \in 0 .. n /\ i # 0 /\ i - 1 \in 0 .. n /\ f[i] = h[i]
      BY <1>0
    <3>2. CASE i = 1
      <4>1. f[i - 1] = <<>> /\ h[i] = ss[i]
        BY <3>2, <2>3, <2>4
      <4>2. <<>> \o ss[i] = ss[i]
        BY <1>0, ConcatEmptySeq
      <4>3. QED
        BY <4>1, <4>2, <3>1, <1>0
    <3>3. CASE i # 1
      <4>1. i - 1 # 0 /\ f[i - 1] = h[i - 1]
        BY <3>3, <3>1, <1>0
      <4>2. f[i] = f[i - 1] \o ss[i]
        BY <4>1, <3>1, <3>3, <2>3
      <4>3. PICK left \in Seq(S), right \in Seq(S) : left = f[i - 1] /\ right = ss[i]
        BY <2>5, <1>0, Zenon
      <4>4. left \o right \in Seq(S)
        BY ConcatProperties
      <4>5. QED
        BY <4>2, <4>3, <4>4, Zenon
    <3>4. QED
      BY <3>2, <3>3
  <2>6. ASSUME NEW k \in 0 .. n - 1, k \in R PROVE k + 1 \in R
    <3>1. k + 1 \in 1 .. n /\ (k + 1) - 1 = k /\ k + 1 \in 0 .. n
      BY <1>0
    <3>2. f[k + 1] \in Seq(S)
      BY <3>1, <2>5, <2>6
    <3>3. QED
      BY <3>1, <3>2
  <2>7. 0 .. n \subseteq R
    <3>1. 0 \in R
      BY <2>4
    <3> HIDE DEF R
    <3>2. QED
      BY <3>1, <2>6, <1>0, StepsReachAll
  <2>8. f \in [0 .. n -> Seq(S)]
    BY <2>7
  <2>9. \A i \in 1 .. n : i - 1 \in 0 .. n
    BY <1>0
  <2>10. \A i \in 1 .. n : f[i] = f[i - 1] \o ss[i]
    BY <2>5, <2>8, <2>9
  <2>11. f[n] = FlattenSeq(ss)
    BY <2>2, <1>2, <1>0
  <2> HIDE DEF f
  <2>12. QED
    BY <2>4, <2>8, <2>10, <2>11 DEF n
<1>3. QED
  BY <1>1, <1>2

\* Flattening a concatenation: the parts are flattened one by one.
LEMMA FlattenConcat ==
    ASSUME NEW S, NEW a \in Seq(Seq(S)), NEW b \in Seq(Seq(S))
    PROVE  FlattenSeq(a \o b) = FlattenSeq(a) \o FlattenSeq(b)
<1> DEFINE m == Len(a)  n == Len(b)
<1>0. m \in Nat /\ n \in Nat
  OBVIOUS
<1>a. \A x, y, z \in Seq(S) : (x \o y) \o z = x \o (y \o z)
  BY ConcatAssociative
<1>1. PICK c : c = a \o b
  OBVIOUS
<1>2. /\ c \in Seq(Seq(S)) /\ Len(c) = m + n
      /\ \A i \in 1 .. m + n : c[i] = IF i <= m THEN a[i] ELSE b[i - m]
  BY <1>1, ConcatProperties, Zenon
<1>3. PICK f \in [0 .. m -> Seq(S)] :
         f[0] = <<>> /\ (\A i \in 1 .. m : f[i] = f[i - 1] \o a[i]) /\ f[m] = FlattenSeq(a)
  BY FlattenGrows
<1>4. PICK g \in [0 .. n -> Seq(S)] :
         g[0] = <<>> /\ (\A i \in 1 .. n : g[i] = g[i - 1] \o b[i]) /\ g[n] = FlattenSeq(b)
  BY FlattenGrows
<1>5. PICK h \in [0 .. m + n -> Seq(S)] :
         /\ h[0] = <<>>
         /\ \A i \in 1 .. m + n : h[i] = h[i - 1] \o c[i]
         /\ h[m + n] = FlattenSeq(c)
  <2>1. PICK h \in [0 .. Len(c) -> Seq(S)] :
           /\ h[0] = <<>>
           /\ \A i \in 1 .. Len(c) : h[i] = h[i - 1] \o c[i]
           /\ h[Len(c)] = FlattenSeq(c)
    BY <1>2, FlattenGrows
  <2>2. Len(c) = m + n
    BY <1>2
  <2>3. QED
    BY <2>1, <2>2, Zenon
<1>6a. \A i \in 1 .. n : b[i] \in Seq(S)
  OBVIOUS
<1> HIDE DEF m, n
<1>6. 0 .. m \subseteq {k \in 0 .. m : h[k] = f[k]}
  <2> DEFINE R == {k \in 0 .. m : h[k] = f[k]}
  <2>1. 0 \in R
    BY <1>0, <1>3, <1>5
  <2>2. ASSUME NEW k \in 0 .. m - 1, k \in R PROVE k + 1 \in R
    <3>1. k + 1 \in 0 .. m /\ k + 1 \in 1 .. m /\ k + 1 \in 1 .. m + n /\ (k + 1) - 1 = k
          /\ k + 1 <= m
      BY <1>0
    <3>2. h[k + 1] = h[k] \o c[k + 1] /\ f[k + 1] = f[k] \o a[k + 1] /\ c[k + 1] = a[k + 1]
      BY <3>1, <1>2, <1>3, <1>5
    <3>3. QED
      BY <3>1, <3>2, <2>2
  <2> HIDE DEF R
  <2>3. 0 .. m \subseteq R
    BY <2>1, <2>2, <1>0, StepsReachAll
  <2>4. QED
    BY <2>3 DEF R
<1>7. 0 .. n \subseteq {k \in 0 .. n : h[m + k] = f[m] \o g[k]}
  <2> DEFINE R == {k \in 0 .. n : h[m + k] = f[m] \o g[k]}
  <2>0. f[m] \in Seq(S) /\ m \in 0 .. m
    BY <1>0
  <2>1. 0 \in R
    <3>1. h[m] = f[m] /\ f[m] \o <<>> = f[m]
      BY <1>6, <2>0, ConcatEmptySeq
    <3>2. m + 0 = m /\ 0 \in 0 .. n
      BY <1>0
    <3>3. QED
      BY <3>1, <3>2, <1>4, Zenon
  <2>2. ASSUME NEW k \in 0 .. n - 1, k \in R PROVE k + 1 \in R
    <3>1. /\ k + 1 \in 0 .. n /\ k + 1 \in 1 .. n /\ k \in 0 .. n /\ (k + 1) - 1 = k
          /\ m + (k + 1) \in 1 .. m + n /\ ~(m + (k + 1) <= m)
          /\ (m + (k + 1)) - m = k + 1 /\ (m + (k + 1)) - 1 = m + k
      BY <1>0
    <3>2. /\ h[m + (k + 1)] = h[m + k] \o b[k + 1]
          /\ g[k + 1] = g[k] \o b[k + 1]
      BY <3>1, <1>2, <1>4, <1>5
    <3>3. g[k] \in Seq(S) /\ b[k + 1] \in Seq(S)
      BY <3>1, <1>6a
    <3>4. h[m + k] = f[m] \o g[k]
      BY <2>2
    <3>5. (f[m] \o g[k]) \o b[k + 1] = f[m] \o (g[k] \o b[k + 1])
      <4>1. PICK x \in Seq(S), y \in Seq(S), z \in Seq(S) :
               x = f[m] /\ y = g[k] /\ z = b[k + 1]
        BY <3>3, <2>0, Zenon
      <4>2. (x \o y) \o z = x \o (y \o z)
        BY <1>a, Zenon
      <4>3. QED
        BY <4>1, <4>2, Zenon
    <3>6. h[m + (k + 1)] = f[m] \o g[k + 1]
      BY <3>2, <3>4, <3>5, Zenon
    <3>7. QED
      BY <3>1, <3>6
  <2> HIDE DEF R
  <2>3. 0 .. n \subseteq R
    BY <2>1, <2>2, <1>0, StepsReachAll
  <2>4. QED
    BY <2>3 DEF R
<1>8. h[m + n] = f[m] \o g[n]
  BY <1>7, <1>0
<1>9. QED
  BY <1>8, <1>1, <1>3, <1>4, <1>5, Zenon

\* What comes out is made of what the parts are made of.
LEMMA FlattenType ==
    ASSUME NEW S, NEW ss \in Seq(Seq(S))
    PROVE  FlattenSeq(ss) \in Seq(S)
<1>1. PICK f \in [0 .. Len(ss) -> Seq(S)] : f[Len(ss)] = FlattenSeq(ss)
  BY FlattenGrows
<1>2. Len(ss) \in 0 .. Len(ss)
  OBVIOUS
<1>3. QED
  BY <1>1, <1>2

\* The two ends of every decomposition
LEMMA FlattenFew ==
    ASSUME NEW S, NEW x \in Seq(S)
    PROVE  FlattenSeq(<<>>) = <<>> /\ FlattenSeq(<<x>>) = x
<1>1. FlattenSeq(<<>>) = <<>>
  BY DEF FlattenSeq
<1>2. PICK T : T = Seq(S)
  OBVIOUS
<1>3. PICK ss \in Seq(T) : ss = <<x>>
  <2>1. x \in T
    BY <1>2
  <2>2. <<x>> \in Seq(T)
    BY <2>1
  <2>3. QED
    BY <2>2, Zenon
<1>a. Len(ss) = 1 /\ ss[1] = x
  BY <1>3
<1>4. PICK f \in [0 .. Len(ss) -> Seq(S)] :
         /\ f[0] = <<>>
         /\ \A i \in 1 .. Len(ss) : f[i] = f[i - 1] \o ss[i]
         /\ f[Len(ss)] = FlattenSeq(ss)
  BY <1>2, FlattenGrows
<1>5. f[1] = <<>> \o x
  BY <1>a, <1>4
<1>6. <<>> \o x = x
  BY ConcatEmptySeq
<1>7. QED
  BY <1>1, <1>3, <1>a, <1>4, <1>5, <1>6, Zenon

\* What a function makes of each element of a sequence, one after the other.
Images(f, s) == [i \in 1 .. Len(s) |-> f[s[i]]]

FlatMap(f, s) == FlattenSeq(Images(f, s))

\* Predicates, because the provers find the instance of a lemma by them.
ImagesOf(f, s, im) ==
    Len(im) = Len(s) /\ \A i \in 1 .. Len(s) : im[i] = f[s[i]]

FlatMapSplits(f, a, b) == FlatMap(f, a \o b) = FlatMap(f, a) \o FlatMap(f, b)

LEMMA ImagesType ==
    ASSUME NEW D, NEW S, NEW f \in [D -> Seq(S)], NEW s \in Seq(D)
    PROVE  Images(f, s) \in Seq(Seq(S)) /\ ImagesOf(f, s, Images(f, s))
<1>1. \A i \in 1 .. Len(s) : f[s[i]] \in Seq(S)
  OBVIOUS
<1>2. QED
  BY <1>1 DEF Images, ImagesOf

\* Two stretches are mapped independently of each other.
LEMMA FlatMapConcat ==
    ASSUME NEW D, NEW S, NEW f \in [D -> Seq(S)], NEW a \in Seq(D), NEW b \in Seq(D)
    PROVE  FlatMap(f, a) \in Seq(S) /\ FlatMapSplits(f, a, b)
<1>1. PICK c : c = a \o b
  OBVIOUS
<1>2. /\ c \in Seq(D) /\ Len(c) = Len(a) + Len(b)
      /\ \A i \in 1 .. Len(a) + Len(b) : c[i] = IF i <= Len(a) THEN a[i] ELSE b[i - Len(a)]
  BY <1>1, ConcatProperties, Zenon
<1>3. PICK ia, ib, ic : ia = Images(f, a) /\ ib = Images(f, b) /\ ic = Images(f, c)
  OBVIOUS
<1>4. /\ ia \in Seq(Seq(S)) /\ ib \in Seq(Seq(S)) /\ ic \in Seq(Seq(S))
      /\ Len(ia) = Len(a) /\ Len(ib) = Len(b) /\ Len(ic) = Len(c)
      /\ \A i \in 1 .. Len(a) : ia[i] = f[a[i]]
      /\ \A i \in 1 .. Len(b) : ib[i] = f[b[i]]
      /\ \A i \in 1 .. Len(c) : ic[i] = f[c[i]]
  <2>1. /\ ia \in Seq(Seq(S)) /\ ib \in Seq(Seq(S)) /\ ic \in Seq(Seq(S))
        /\ ImagesOf(f, a, ia) /\ ImagesOf(f, b, ib) /\ ImagesOf(f, c, ic)
    BY <1>2, <1>3, ImagesType, Zenon
  <2>2. QED
    BY <2>1 DEF ImagesOf
<1>5. PICK both : both = ia \o ib
  OBVIOUS
<1>6. /\ both \in Seq(Seq(S)) /\ Len(both) = Len(ia) + Len(ib)
      /\ \A i \in 1 .. Len(ia) + Len(ib) :
            both[i] = IF i <= Len(ia) THEN ia[i] ELSE ib[i - Len(ia)]
  <2>1. PICK T : T = Seq(S)
    OBVIOUS
  <2>2. ia \in Seq(T) /\ ib \in Seq(T)
    BY <1>4, <2>1
  <2>3. /\ both \in Seq(T) /\ Len(both) = Len(ia) + Len(ib)
        /\ \A i \in 1 .. Len(ia) + Len(ib) :
              both[i] = IF i <= Len(ia) THEN ia[i] ELSE ib[i - Len(ia)]
    BY <1>5, <2>2, ConcatProperties, Zenon
  <2>4. QED
    BY <2>1, <2>3
<1>7. Len(a) \in Nat /\ Len(b) \in Nat
  OBVIOUS
<1>8. ASSUME NEW i \in 1 .. Len(c) PROVE ic[i] = both[i]
  <2>1. CASE i <= Len(a)
    <3>1. i \in 1 .. Len(a) /\ i \in 1 .. Len(a) + Len(b)
      BY <2>1, <1>2, <1>7
    <3>2. c[i] = a[i] /\ both[i] = ia[i]
      BY <3>1, <2>1, <1>2, <1>4, <1>6
    <3>3. QED
      BY <3>1, <3>2, <1>4
  <2>2. CASE ~(i <= Len(a))
    <3>1. i - Len(a) \in 1 .. Len(b) /\ i \in 1 .. Len(a) + Len(b)
      BY <2>2, <1>2, <1>7
    <3>2. c[i] = b[i - Len(a)] /\ both[i] = ib[i - Len(a)]
      BY <3>1, <2>2, <1>2, <1>4, <1>6
    <3>3. QED
      BY <3>1, <3>2, <1>4
  <2>3. QED
    BY <2>1, <2>2
<1>9. ic = both
  BY <1>2, <1>4, <1>6, <1>8, SeqEqual
<1>10. FlattenSeq(ia \o ib) = FlattenSeq(ia) \o FlattenSeq(ib) /\ FlattenSeq(ia) \in Seq(S)
  BY <1>4, FlattenConcat, FlattenType
<1>11. QED
  BY <1>1, <1>3, <1>5, <1>9, <1>10, Zenon DEF FlatMap, FlatMapSplits

FlatMapOfOne(f, e) == FlatMap(f, <<e>>) = f[e]

LEMMA FlatMapFew ==
    ASSUME NEW D, NEW S, NEW f \in [D -> Seq(S)], NEW e \in D
    PROVE  FlatMapOfOne(f, e)
<1>1. Images(f, <<e>>) = <<f[e]>> /\ f[e] \in Seq(S)
  BY DEF Images
<1>2. QED
  BY <1>1, FlattenFew, Zenon DEF FlatMap, FlatMapOfOne

LEMMA FlatMapOfNothing ==
    ASSUME NEW f
    PROVE  FlatMap(f, <<>>) = <<>>
<1>1. Images(f, <<>>) = <<>>
  BY DEF Images
<1>2. FlattenSeq(<<>>) = <<>>
  BY DEF FlattenSeq
<1>3. QED
  BY <1>1, <1>2, Zenon DEF FlatMap

-----------------------------------------------------------------------------
(* Sets of numbers.                                                        *)

\* A set of naturals has a least element.
LEMMA LeastExists ==
    ASSUME NEW S \in SUBSET Nat, S # {}
    PROVE  \E x \in S : \A y \in S : x <= y
<1>1. PICK x \in S : \A y \in S : ~ (<<y, x>> \in OpToRel(<, Nat))
  BY WFMin, NatLessThanWellFounded
<1>2. ASSUME NEW y \in S PROVE x <= y
  <2>1. x \in Nat /\ y \in Nat
    OBVIOUS
  <2>2. y < x => <<y, x>> \in OpToRel(<, Nat)
    BY <2>1, Zenon DEF OpToRel
  <2>3. ~(y < x)
    BY <1>1, <2>2, Zenon
  <2>4. QED
    BY <2>1, <2>3
<1>3. QED
  BY <1>2

\* A bounded set of naturals has a greatest element.
LEMMA GreatestExists ==
    ASSUME NEW n \in Nat, NEW S \in SUBSET (0 .. n), S # {}
    PROVE  \E x \in S : \A y \in S : y <= x
<1> DEFINE Bounds == {b \in 0 .. n : \A t \in S : t <= b}
<1>1. n \in Bounds /\ Bounds \in SUBSET Nat
  OBVIOUS
<1>2. PICK b \in Bounds : \A t \in Bounds : b <= t
  <2> HIDE DEF Bounds
  <2>1. QED
    BY <1>1, LeastExists
<1>3. b \in S
  <2>1. SUFFICES ASSUME b \notin S PROVE FALSE
    OBVIOUS
  <2>2. PICK s \in S : TRUE
    OBVIOUS
  <2>3. b - 1 \in Bounds
    BY <2>1, <2>2, <1>2
  <2>4. QED
    BY <2>3, <1>2
<1>4. QED
  BY <1>2, <1>3

\* A finite set of numbers has a bound.
LEMMA FiniteIsBounded ==
    ASSUME NEW S \in SUBSET Nat, IsFiniteSet(S)
    PROVE  \E m \in Nat : S \subseteq 0 .. m
<1>1. PICK n \in Nat : ExistsSurjection(1 .. n, S)
  BY FS_NatSurjection
<1>2. PICK f \in [1 .. n -> S] : \A s \in S : \E i \in 1 .. n : f[i] = s
  BY <1>1 DEF ExistsSurjection, Surjection
<1>a. \A i \in 1 .. n : f[i] \in Nat
  <2>1. \A i \in 1 .. n : f[i] \in S
    OBVIOUS
  <2>2. QED
    BY <2>1
<1> DEFINE R == {k \in 0 .. n : \E m \in Nat : \A i \in 1 .. k : f[i] <= m}
<1>3. 0 \in R
  <2>1. \A i \in 1 .. 0 : f[i] <= 0
    OBVIOUS
  <2>2. QED
    BY <2>1
<1>4. ASSUME NEW k \in 0 .. n - 1, k \in R PROVE k + 1 \in R
  <2>1. PICK m \in Nat : \A i \in 1 .. k : f[i] <= m
    BY <1>4
  <2>2. f[k + 1] \in Nat
    BY <1>a
  <2>3. PICK b \in Nat : b = m + f[k + 1]
    BY <2>2
  <2>4. ASSUME NEW i \in 1 .. k + 1 PROVE f[i] <= b
    <3>1. CASE i = k + 1
      BY <3>1, <2>2, <2>3
    <3>2. CASE i # k + 1
      <4>1. i \in 1 .. k /\ f[i] \in Nat
        BY <3>2, <1>a
      <4>2. f[i] <= m
        BY <4>1, <2>1
      <4>3. QED
        BY <4>1, <4>2, <2>2, <2>3
    <3>3. QED
      BY <3>1, <3>2
  <2>5. QED
    BY <2>4
<1>5. n \in R
  <2> HIDE DEF R
  <2>1. 0 .. n \subseteq R
    BY <1>3, <1>4, StepsReachAll
  <2>2. QED
    BY <2>1
<1>6. PICK m \in Nat : \A i \in 1 .. n : f[i] <= m
  BY <1>5
<1>7. ASSUME NEW s \in S PROVE s \in 0 .. m
  BY <1>2, <1>6
<1>8. QED
  BY <1>7

\* The n-th lowest of a set with at least n elements
LEMMA RankExists ==
    ASSUME NEW S \in SUBSET Nat, IsFiniteSet(S), NEW n \in 1 .. Cardinality(S)
    PROVE  \E s \in S : Cardinality({t \in S : t <= s}) = n
<1> DEFINE upto(s) == {t \in S : t <= s}
<1> DEFINE T == {s \in S : Cardinality(upto(s)) >= n}
<1>0. /\ Cardinality(S) \in Nat
      /\ \A s \in S : IsFiniteSet(upto(s)) /\ Cardinality(upto(s)) \in Nat
  <2>1. \A s \in S : upto(s) \in SUBSET S
    OBVIOUS
  <2>2. QED
    BY <2>1, FS_Subset, FS_CardinalityType
<1>1. S # {}
  BY <1>0, FS_EmptySet
<1>b. PICK m \in Nat : S \subseteq 0 .. m
  BY FiniteIsBounded
<1>2. PICK h \in S : \A t \in S : t <= h
  BY <1>b, <1>1, GreatestExists
<1>3. h \in T
  <2>1. upto(h) = S
    BY <1>2
  <2>2. QED
    BY <2>1, <1>0
<1>4. T \in SUBSET Nat /\ T # {}
  <2>1. T \subseteq S
    OBVIOUS
  <2> HIDE DEF T
  <2>2. QED
    BY <1>3, <2>1
<1>5. PICK c \in T : \A t \in T : c <= t
  <2> HIDE DEF T
  <2> QED
    BY <1>4, LeastExists
<1>6. Cardinality(upto(c)) = n
  <2>1. SUFFICES ASSUME Cardinality(upto(c)) > n PROVE FALSE
    BY <1>0, <1>5
  <2>0. c \in S /\ c \in Nat
    BY <1>5
  <2>2. upto(c) \ {c} = {t \in S : t < c}
    <3>1. ASSUME NEW t \in S PROVE t <= c /\ t # c <=> t < c
      BY <2>0
    <3>2. QED
      BY <3>1, Zenon
  <2>3. Cardinality(upto(c) \ {c}) = Cardinality(upto(c)) - 1
    BY <1>0, <1>5, FS_RemoveElement
  <2>4. Cardinality({t \in S : t < c}) >= n /\ IsFiniteSet({t \in S : t < c})
    BY <2>1, <2>2, <2>3, <1>0, <1>5, FS_RemoveElement
  <2>5. {t \in S : t < c} # {}
    BY <2>4, FS_EmptySet
  <2>6. PICK p \in {t \in S : t < c} : \A t \in {t \in S : t < c} : t <= p
    <3>1. {t \in S : t < c} \in SUBSET (0 .. m)
      BY <1>b, Zenon
    <3>2. QED
      BY <3>1, <2>5, GreatestExists
  <2>7. upto(p) = {t \in S : t < c}
    <3>1. ASSUME NEW t \in S PROVE t <= p <=> t < c
      BY <2>0, <2>6
    <3>2. QED
      BY <3>1, Zenon
  <2>8. p \in T
    BY <2>4, <2>6, <2>7
  <2>9. QED
    BY <2>6, <2>8, <1>5
<1>7. QED
  BY <1>5, <1>6

\* What an image of a sequence takes its values from is finite.
LEMMA ValuesAreFinite ==
    ASSUME NEW D, NEW s \in Seq(D)
    PROVE  IsFiniteSet(ToSet(s)) /\ ToSet(s) \subseteq D
<1>1. ToSet(s) = {s[i] : i \in 1 .. Len(s)} /\ Len(s) \in Nat
  BY DEF ToSet
<1>2. [i \in 1 .. Len(s) |-> s[i]] \in Surjection(1 .. Len(s), ToSet(s))
  BY <1>1 DEF Surjection
<1>3. IsFiniteSet(ToSet(s))
  BY <1>1, <1>2, FS_NatSurjection DEF ExistsSurjection
<1>4. QED
  BY <1>1, <1>3

\* A function on a finite set has finitely many values.
LEMMA ImageIsFinite ==
    ASSUME NEW D, IsFiniteSet(D), NEW f, DOMAIN f = D
    PROVE  IsFiniteSet({f[x] : x \in D})
<1>1. PICK T : T = {f[x] : x \in D}
  OBVIOUS
<1>2. [x \in D |-> f[x]] \in Surjection(D, T)
  BY <1>1 DEF Surjection
<1>3. QED
  BY <1>1, <1>2, FS_Surjection

-----------------------------------------------------------------------------
(* FlatMaps, one after another and with a filter.                          *)

\* Predicates again: what FlatMap builds up element by element, and how two
\* FlatMaps in a row are one.
FlatMapBuilds(f, s, h) ==
    /\ h[0] = <<>>
    /\ \A i \in 1 .. Len(s) : h[i] = h[i - 1] \o f[s[i]]
    /\ h[Len(s)] = FlatMap(f, s)

\* FlatMap is built up element by element.
LEMMA FlatMapGrows ==
    ASSUME NEW D, NEW S, NEW f \in [D -> Seq(S)], NEW s \in Seq(D)
    PROVE  \E h \in [0 .. Len(s) -> Seq(S)] : FlatMapBuilds(f, s, h)
<1>1. PICK im : im = Images(f, s)
  OBVIOUS
<1>2. im \in Seq(Seq(S)) /\ ImagesOf(f, s, im)
  BY <1>1, ImagesType, Zenon
<1>3. PICK h \in [0 .. Len(im) -> Seq(S)] :
         /\ h[0] = <<>>
         /\ \A i \in 1 .. Len(im) : h[i] = h[i - 1] \o im[i]
         /\ h[Len(im)] = FlattenSeq(im)
  BY <1>2, FlattenGrows
<1>4. Len(im) = Len(s) /\ \A i \in 1 .. Len(s) : im[i] = f[s[i]]
  BY <1>2, Zenon DEF ImagesOf
<1>5. FlattenSeq(im) = FlatMap(f, s)
  BY <1>1, Zenon DEF FlatMap
<1>6. h \in [0 .. Len(s) -> Seq(S)]
  BY <1>3, <1>4, Zenon
<1>7. \A i \in 1 .. Len(s) : h[i] = h[i - 1] \o f[s[i]]
  BY <1>3, <1>4, Zenon
<1>8. h[Len(s)] = FlatMap(f, s)
  BY <1>3, <1>4, <1>5, Zenon
<1>9. QED
  BY <1>3, <1>6, <1>7, <1>8, Zenon DEF FlatMapBuilds

\* What FlatMap returns is a sequence of what the images hold.
LEMMA FlatMapType ==
    ASSUME NEW D, NEW S, NEW f \in [D -> Seq(S)], NEW s \in Seq(D)
    PROVE  FlatMap(f, s) \in Seq(S)
<1>1. PICK im : im = Images(f, s)
  OBVIOUS
<1>2. im \in Seq(Seq(S))
  BY <1>1, ImagesType, Zenon
<1>3. QED
  BY <1>1, <1>2, FlattenType, Zenon DEF FlatMap

\* Mapping twice is mapping once.
Composed(f, g, D) == [x \in D |-> FlatMap(g, f[x])]

FlatMapChains(f, g, D, s) == FlatMap(g, FlatMap(f, s)) = FlatMap(Composed(f, g, D), s)

\* One FlatMap after another is the FlatMap of the composition.
LEMMA FlatMapCompose ==
    ASSUME NEW D, NEW E, NEW S, NEW f \in [D -> Seq(E)], NEW g \in [E -> Seq(S)],
           NEW s \in Seq(D)
    PROVE  FlatMapChains(f, g, D, s)
<1>1. PICK c : c = Composed(f, g, D)
  OBVIOUS
<1>2. c \in [D -> Seq(S)] /\ \A x \in D : c[x] = FlatMap(g, f[x])
  <2>1. \A x \in D : FlatMap(g, f[x]) \in Seq(S)
    BY FlatMapType
  <2>2. QED
    BY <1>1, <2>1, Zenon DEF Composed
<1>3. PICK n \in Nat : n = Len(s)
  OBVIOUS
<1>4. PICK h \in [0 .. n -> Seq(E)] : FlatMapBuilds(f, s, h)
  BY <1>3, FlatMapGrows, Zenon
<1>5. PICK k \in [0 .. n -> Seq(S)] : FlatMapBuilds(c, s, k)
  BY <1>2, <1>3, FlatMapGrows, Zenon
<1> DEFINE R == {i \in 0 .. n : FlatMap(g, h[i]) = k[i]}
<1>6. 0 \in R
  BY <1>4, <1>5, FlatMapOfNothing DEF FlatMapBuilds
<1>7. ASSUME NEW i \in 0 .. n - 1, i \in R PROVE i + 1 \in R
  <2>1. i + 1 \in 1 .. n /\ (i + 1) - 1 = i /\ i + 1 \in 0 .. n /\ i \in 0 .. n
    OBVIOUS
  <2>2. s[i + 1] \in D
    BY <2>1, <1>3
  <2>3. h[i + 1] = h[i] \o f[s[i + 1]] /\ k[i + 1] = k[i] \o c[s[i + 1]]
    BY <2>1, <1>3, <1>4, <1>5 DEF FlatMapBuilds
  <2>4. h[i] \in Seq(E) /\ f[s[i + 1]] \in Seq(E)
    BY <2>1, <2>2
  <2>5. FlatMapSplits(g, h[i], f[s[i + 1]])
    BY <2>4, FlatMapConcat, Zenon
  <2>6. FlatMap(g, h[i + 1]) = FlatMap(g, h[i]) \o FlatMap(g, f[s[i + 1]])
    BY <2>3, <2>5, Zenon DEF FlatMapSplits
  <2>7. QED
    BY <1>7, <2>1, <2>2, <2>3, <2>6, <1>2, Zenon
<1>8. n \in R
  <2> HIDE DEF R
  <2>1. 0 .. n \subseteq R
    BY <1>6, <1>7, StepsReachAll
  <2>2. QED
    BY <2>1
<1>9. QED
  BY <1>8, <1>1, <1>3, <1>4, <1>5, Zenon DEF FlatMapBuilds, FlatMapChains

\* A sequence of one element
LEMMA SingletonSeq ==
    ASSUME NEW S, NEW x \in S
    PROVE  <<x>> \in Seq(S) /\ Len(<<x>>) = 1 /\ <<x>>[1] = x
OBVIOUS

\* Mapping each element to one element keeps places, mapping each to none
\* leaves none.
FlatMapIsMap(f, s) == FlatMap([x \in DOMAIN f |-> <<f[x]>>], s) = Images(f, s)

\* A FlatMap to sequences of one element is a map.
LEMMA FlatMapSingles ==
    ASSUME NEW D, NEW S, NEW f \in [D -> S], NEW s \in Seq(D)
    PROVE  FlatMapIsMap(f, s)
<1>1. PICK g : g = [x \in DOMAIN f |-> <<f[x]>>]
  OBVIOUS
<1>2. g \in [D -> Seq(S)] /\ \A x \in D : g[x] = <<f[x]>> /\ f[x] \in S
  BY <1>1
<1>3. PICK n \in Nat : n = Len(s)
  OBVIOUS
<1>4. PICK h \in [0 .. n -> Seq(S)] : FlatMapBuilds(g, s, h)
  BY <1>2, <1>3, FlatMapGrows, Zenon
<1> DEFINE R == {k \in 0 .. n : Len(h[k]) = k /\ \A i \in 1 .. k : h[k][i] = f[s[i]]}
<1>5. 0 \in R
  BY <1>4 DEF FlatMapBuilds
<1>6. ASSUME NEW k \in 0 .. n - 1, k \in R PROVE k + 1 \in R
  <2>1. k + 1 \in 1 .. n /\ (k + 1) - 1 = k /\ k + 1 \in 0 .. n /\ k \in 0 .. n
    OBVIOUS
  <2>2. s[k + 1] \in D
    BY <2>1, <1>3
  <2>3. h[k + 1] = h[k] \o <<f[s[k + 1]]>>
    BY <2>1, <2>2, <1>2, <1>3, <1>4 DEF FlatMapBuilds
  <2>4. PICK left \in Seq(S), x \in S : left = h[k] /\ x = f[s[k + 1]]
    BY <2>1, <2>2, <1>2, Zenon
  <2>5. h[k + 1] = left \o <<x>>
    BY <2>3, <2>4, Zenon
  <2>6. Len(left) = k /\ \A i \in 1 .. k : left[i] = f[s[i]]
    BY <1>6, <2>4
  <2>7. PICK one \in Seq(S) : one = <<x>> /\ Len(one) = 1 /\ one[1] = x
    BY SingletonSeq, Zenon
  <2>8. PICK both : both = left \o one
    OBVIOUS
  <2>9. Len(both) = k + 1 /\ \A i \in 1 .. k + 1 : both[i] = IF i <= k THEN left[i] ELSE x
    <3>1. Joins(both, left, one)
      BY <2>8, JoinedSeqs, Zenon
    <3>2. QED
      BY <3>1, <2>6, <2>7 DEF Joins
  <2>10. \A i \in 1 .. k + 1 : both[i] = f[s[i]]
    BY <2>9, <2>6, <2>4, <2>1
  <2>11. QED
    BY <2>1, <2>5, <2>7, <2>8, <2>9, <2>10, Zenon
<1>7. n \in R
  <2> HIDE DEF R
  <2>1. 0 .. n \subseteq R
    BY <1>5, <1>6, StepsReachAll
  <2>2. QED
    BY <2>1
<1>8. PICK out \in Seq(S) : out = h[n]
  BY <1>3
<1>9. Len(out) = n /\ \A i \in 1 .. n : out[i] = f[s[i]]
  BY <1>7, <1>8
<1>10. out = [i \in 1 .. n |-> f[s[i]]]
  BY <1>9
<1>11. out = FlatMap(g, s)
  BY <1>8, <1>3, <1>4, Zenon DEF FlatMapBuilds
<1>12. QED
  BY <1>1, <1>3, <1>10, <1>11, Zenon DEF FlatMapIsMap, Images

\* A FlatMap to empty sequences is empty.
LEMMA FlatMapVanishes ==
    ASSUME NEW D, NEW f, f = [x \in D |-> <<>>], NEW s \in Seq(D)
    PROVE  FlatMap(f, s) = <<>>
<1>1. f \in [D -> Seq(D)] /\ \A x \in D : f[x] = <<>>
  OBVIOUS
<1>2. PICK n \in Nat : n = Len(s)
  OBVIOUS
<1>3. PICK h \in [0 .. n -> Seq(D)] : FlatMapBuilds(f, s, h)
  BY <1>1, <1>2, FlatMapGrows, Zenon
<1> DEFINE R == {k \in 0 .. n : h[k] = <<>>}
<1>4. 0 \in R
  BY <1>3 DEF FlatMapBuilds
<1>5. ASSUME NEW k \in 0 .. n - 1, k \in R PROVE k + 1 \in R
  <2>1. k + 1 \in 1 .. n /\ (k + 1) - 1 = k /\ k + 1 \in 0 .. n
    OBVIOUS
  <2>2. s[k + 1] \in D
    BY <2>1, <1>2
  <2>3. h[k + 1] = <<>> \o <<>>
    BY <1>5, <2>1, <2>2, <1>1, <1>2, <1>3 DEF FlatMapBuilds
  <2>4. <<>> \o <<>> = <<>>
    OBVIOUS
  <2>5. QED
    BY <2>1, <2>3, <2>4
<1>6. n \in R
  <2> HIDE DEF R
  <2>1. 0 .. n \subseteq R
    BY <1>4, <1>5, StepsReachAll
  <2>2. QED
    BY <2>1
<1>7. QED
  BY <1>2, <1>3, <1>6, Zenon DEF FlatMapBuilds

\* Keeping the elements of P, as g tells them: the element that was the n-th of
\* its kind is told n-th.
Telling(P, g) == [x \in DOMAIN g |-> IF x \in P THEN <<g[x]>> ELSE <<>>]

\* The places up to i that hold an element of P
UpTo(s, P, i) == {j \in 1 .. i : s[j] \in P}

TellsNth(P, g, s, i) ==
    /\ Cardinality(UpTo(s, P, i)) \in 1 .. Len(FlatMap(Telling(P, g), s))
    /\ FlatMap(Telling(P, g), s)[Cardinality(UpTo(s, P, i))] = g[s[i]]
    /\ Len(FlatMap(Telling(P, g), s)) = Cardinality(UpTo(s, P, Len(s)))

\* One element more
LEMMA UpToGrows ==
    ASSUME NEW s, NEW P, NEW i \in Nat
    PROVE  /\ UpTo(s, P, 0) = {} /\ Cardinality(UpTo(s, P, 0)) = 0
           /\ IsFiniteSet(UpTo(s, P, i)) /\ Cardinality(UpTo(s, P, i)) \in Nat
           /\ Cardinality(UpTo(s, P, i + 1)) =
                Cardinality(UpTo(s, P, i)) + (IF s[i + 1] \in P THEN 1 ELSE 0)
<1>1. UpTo(s, P, 0) = {}
  BY DEF UpTo
<1>2. Cardinality(UpTo(s, P, 0)) = 0
  BY <1>1, FS_EmptySet
<1>3. IsFiniteSet(UpTo(s, P, i)) /\ Cardinality(UpTo(s, P, i)) \in Nat
  <2>1. IsFiniteSet(1 .. i)
    BY FS_Interval
  <2>2. UpTo(s, P, i) \in SUBSET (1 .. i)
    BY DEF UpTo
  <2>3. QED
    BY <2>1, <2>2, FS_Subset, FS_CardinalityType
<1>4. i + 1 \notin UpTo(s, P, i) /\ \A j \in 1 .. i + 1 : j \in 1 .. i \/ j = i + 1
  BY DEF UpTo
<1>5. CASE s[i + 1] \in P
  <2>1. UpTo(s, P, i + 1) = UpTo(s, P, i) \cup {i + 1}
    BY <1>5, <1>4 DEF UpTo
  <2>2. Cardinality(UpTo(s, P, i) \cup {i + 1}) = Cardinality(UpTo(s, P, i)) + 1
    BY <1>3, <1>4, FS_AddElement
  <2>3. QED
    BY <1>1, <1>2, <1>3, <1>5, <2>1, <2>2
<1>6. CASE s[i + 1] \notin P
  <2>1. UpTo(s, P, i + 1) = UpTo(s, P, i)
    BY <1>6, <1>4 DEF UpTo
  <2>2. QED
    BY <1>1, <1>2, <1>3, <1>6, <2>1
<1>7. QED
  BY <1>5, <1>6

\* The counts alone
CountGrows(s, P, i) ==
    /\ Cardinality(UpTo(s, P, i)) \in Nat
    /\ Cardinality(UpTo(s, P, i + 1)) =
         Cardinality(UpTo(s, P, i)) + (IF s[i + 1] \in P THEN 1 ELSE 0)

\* So they grow.
LEMMA CountsGrow ==
    ASSUME NEW s, NEW P, NEW i \in Nat
    PROVE  CountGrows(s, P, i)
BY UpToGrows DEF CountGrows

\* What is told of the n-th element of P is told n-th.
LEMMA NthTold ==
    ASSUME NEW D, NEW S, NEW P, NEW g \in [D -> S], NEW s \in Seq(D),
           NEW i \in 1 .. Len(s), s[i] \in P
    PROVE  TellsNth(P, g, s, i)
<1>1. PICK f : f = Telling(P, g)
  OBVIOUS
<1>2. f \in [D -> Seq(S)] /\ \A x \in D : f[x] = IF x \in P THEN <<g[x]>> ELSE <<>>
  BY <1>1 DEF Telling
<1>3. PICK n \in Nat : n = Len(s)
  OBVIOUS
<1>4. PICK h \in [0 .. n -> Seq(S)] : FlatMapBuilds(f, s, h)
  BY <1>2, <1>3, FlatMapGrows, Zenon
<1> DEFINE c(k) == Cardinality(UpTo(s, P, k))
<1>5. ASSUME NEW k \in 0 .. n - 1
      PROVE  /\ k \in Nat /\ k + 1 \in 1 .. n /\ k + 1 \in 0 .. n /\ s[k + 1] \in D
             /\ c(k) \in Nat
             /\ s[k + 1] \in P => h[k + 1] = h[k] \o <<g[s[k + 1]]>> /\ c(k + 1) = c(k) + 1
             /\ s[k + 1] \notin P => h[k + 1] = h[k] /\ c(k + 1) = c(k)
  <2>1. k \in Nat /\ k + 1 \in 1 .. n /\ k + 1 \in 0 .. n /\ (k + 1) - 1 = k /\ k \in 0 .. n
    OBVIOUS
  <2>2. s[k + 1] \in D
    BY <2>1, <1>3
  <2>3. h[k + 1] = h[k] \o f[s[k + 1]]
    BY <2>1, <1>3, <1>4 DEF FlatMapBuilds
  <2>4. c(k) \in Nat /\ c(k + 1) = c(k) + (IF s[k + 1] \in P THEN 1 ELSE 0)
    <3>1. k \in Nat
      BY <2>1
    <3>2. CountGrows(s, P, k)
      BY <3>1, CountsGrow, Zenon
    <3>3. QED
      BY <3>2 DEF CountGrows
  <2>5. h[k] \o <<>> = h[k]
    <3>1. h[k] \in Seq(S)
      BY <2>1
    <3>2. QED
      BY <3>1, ConcatEmptySeq
  <2> HIDE DEF c
  <2>6. ASSUME s[k + 1] \in P
        PROVE  h[k + 1] = h[k] \o <<g[s[k + 1]]>> /\ c(k + 1) = c(k) + 1
    <3>1. f[s[k + 1]] = <<g[s[k + 1]]>>
      BY <2>6, <2>2, <1>2
    <3>2. QED
      BY <3>1, <2>3, <2>4, <2>6
  <2>7. ASSUME s[k + 1] \notin P
        PROVE  h[k + 1] = h[k] /\ c(k + 1) = c(k)
    <3>1. f[s[k + 1]] = <<>>
      BY <2>7, <2>2, <1>2
    <3>2. QED
      BY <3>1, <2>3, <2>4, <2>5, <2>7
  <2>8. QED
    BY <2>1, <2>2, <2>4, <2>6, <2>7
<1>6. \A k \in 0 .. n : h[k] \in Seq(S)
  OBVIOUS
\* The first k elements are told, and what was told of i stays.
<1> DEFINE
    R == {k \in 0 .. n : /\ Len(h[k]) = c(k)
                         /\ i <= k => c(i) \in 1 .. c(k) /\ h[k][c(i)] = g[s[i]]}
<1>7. 0 \in R
  <2>1. c(0) = 0 /\ ~(i <= 0)
    BY UpToGrows
  <2>2. h[0] = <<>>
    BY <1>4 DEF FlatMapBuilds
  <2>3. QED
    BY <2>1, <2>2
<1> HIDE DEF c
<1>8. ASSUME NEW k \in 0 .. n - 1, k \in R PROVE k + 1 \in R
  <2>1. PICK old \in Seq(S), new \in Seq(S) : old = h[k] /\ new = h[k + 1]
    BY <1>5, <1>6
  <2>2. Len(old) = c(k) /\ (i <= k => c(i) \in 1 .. c(k) /\ old[c(i)] = g[s[i]])
    BY <1>8, <2>1, Zenon
  <2>3. CASE s[k + 1] \notin P
    <3>0. i # k + 1
      BY <2>3
    <3>1. new = old /\ c(k + 1) = c(k) /\ (i <= k + 1 => i <= k)
      <4>1. h[k + 1] = h[k] /\ c(k + 1) = c(k)
        BY <1>5, <2>3, Zenon
      <4>2. i <= k + 1 => i <= k
        BY <3>0
      <4>3. QED
        BY <4>1, <4>2, <2>1, Zenon
    <3>2. QED
      BY <2>1, <2>2, <3>1, <1>5
  <2>4. CASE s[k + 1] \in P
    <3>1. PICK x \in S : x = g[s[k + 1]]
      BY <1>5
    <3>2. PICK one \in Seq(S) : one = <<x>> /\ Len(one) = 1 /\ one[1] = x
      BY SingletonSeq, Zenon
    <3>3. new = old \o one /\ c(k + 1) = c(k) + 1
      BY <1>5, <2>1, <2>4, <3>1, <3>2
    <3>4. Joins(new, old, one)
      BY <3>3, JoinedSeqs, Zenon
    <3>5. /\ Len(new) = c(k) + 1
          /\ \A j \in 1 .. c(k) + 1 : new[j] = IF j <= c(k) THEN old[j] ELSE x
      <4>1. Len(new) = Len(old) + Len(one) /\ Len(old) = c(k) /\ Len(one) = 1 /\ one[1] = x
        BY <3>4, <2>2, <3>2, Zenon DEF Joins
      <4>2. \A j \in 1 .. Len(old) + Len(one) :
               new[j] = IF j <= Len(old) THEN old[j] ELSE one[j - Len(old)]
        BY <3>4, Zenon DEF Joins
      <4>3. \A j \in 1 .. c(k) + 1 : new[j] = IF j <= c(k) THEN old[j] ELSE one[j - c(k)]
        BY <4>1, <4>2, Zenon
      <4>4. ASSUME NEW j \in 1 .. c(k) + 1, ~(j <= c(k)) PROVE j - c(k) = 1
        <5>1. PICK m \in Nat : m = c(k)
          BY <1>5, Zenon
        <5>2. j \in 1 .. m + 1 /\ ~(j <= m)
          BY <4>4, <5>1
        <5>3. j - m = 1
          BY <5>2
        <5>4. QED
          BY <5>1, <5>3, Zenon
      <4>5. QED
        BY <4>1, <4>3, <4>4, Zenon
    <3>6. ASSUME i <= k PROVE c(i) \in 1 .. c(k + 1) /\ new[c(i)] = g[s[i]]
      BY <3>5, <3>6, <2>2, <3>3, <1>5
    <3>7. ASSUME i = k + 1 PROVE c(i) \in 1 .. c(k + 1) /\ new[c(i)] = g[s[i]]
      <4>1. c(i) = c(k) + 1 /\ c(k) \in Nat
        BY <3>3, <3>7, <1>5
      <4>2. new[c(k) + 1] = x
        BY <4>1, <3>5
      <4>3. QED
        BY <4>1, <4>2, <3>1, <3>3, <3>7
    <3>8. Len(h[k + 1]) = c(k + 1) /\ k + 1 \in 0 .. n
      BY <3>3, <3>5, <2>1, <1>5
    <3>9. i <= k + 1 => i <= k \/ i = k + 1
      OBVIOUS
    <3>10. QED
      BY <3>6, <3>7, <3>8, <3>9, <2>1, Zenon
  <2>5. QED
    BY <2>3, <2>4
<1>9. n \in R
  <2> HIDE DEF R
  <2>1. 0 .. n \subseteq R
    BY <1>7, <1>8, StepsReachAll
  <2>2. QED
    BY <2>1
<1>10. h[n] = FlatMap(f, s)
  BY <1>3, <1>4, Zenon DEF FlatMapBuilds
<1>11. c(i) \in 1 .. Len(h[n]) /\ h[n][c(i)] = g[s[i]] /\ Len(h[n]) = c(n)
  <2>1. i <= n
    BY <1>3
  <2>2. QED
    BY <1>9, <2>1, Zenon
<1>12. QED
  BY <1>1, <1>3, <1>10, <1>11, Zenon DEF TellsNth, c

\* Whatever is told is told of an element.
ToldOf(P, s, n) == \E i \in 1 .. Len(s) : s[i] \in P /\ Cardinality(UpTo(s, P, i)) = n

\* The n-th that is told is told of the n-th element of P.
LEMMA WasTold ==
    ASSUME NEW D, NEW S, NEW P, NEW g \in [D -> S], NEW s \in Seq(D),
           NEW n \in 1 .. Len(FlatMap(Telling(P, g), s))
    PROVE  ToldOf(P, s, n)
<1>1. PICK l \in Nat : l = Len(s)
  OBVIOUS
<1>2. \A i \in 1 .. l : s[i] \in D
  BY <1>1
<1>3. PICK first \in 1 .. l : s[first] \in P
  <2>1. SUFFICES ASSUME \A i \in 1 .. l : s[i] \notin P PROVE FALSE
    OBVIOUS
  <2>2. s \in Seq(D \ P)
    <3>1. \A i \in 1 .. l : s[i] \in D \ P
      BY <1>2, <2>1
    <3>2. QED
      BY <1>1, <3>1
  <2>3. PICK f : f = [x \in D \ P |-> <<>>]
    OBVIOUS
  <2>4. FlatMap(f, s) = <<>>
    BY <2>2, <2>3, FlatMapVanishes
  <2>5. \A i \in 1 .. l : f[s[i]] = Telling(P, g)[s[i]]
    BY <1>2, <2>1, <2>3 DEF Telling
  <2>6. Images(f, s) = Images(Telling(P, g), s)
    BY <1>1, <2>5, Zenon DEF Images
  <2>7. FlatMap(Telling(P, g), s) = <<>>
    BY <2>4, <2>6, Zenon DEF FlatMap
  <2>8. QED
    BY <2>7
<1>4. TellsNth(P, g, s, first)
  BY <1>1, <1>3, NthTold, Zenon
<1>5. n \in 1 .. Cardinality(UpTo(s, P, l))
  BY <1>1, <1>4 DEF TellsNth
<1>6. PICK T \in SUBSET Nat : T = UpTo(s, P, l) /\ IsFiniteSet(T)
  <2>1. UpTo(s, P, l) \in SUBSET Nat
    BY DEF UpTo
  <2>2. QED
    BY <2>1, UpToGrows
<1>7. PICK i \in T : Cardinality({t \in T : t <= i}) = n
  BY <1>5, <1>6, RankExists
<1>8. i \in 1 .. l /\ s[i] \in P
  BY <1>6 DEF UpTo
<1>9. {t \in T : t <= i} = UpTo(s, P, i)
  BY <1>6, <1>8 DEF UpTo
<1>10. QED
  BY <1>1, <1>7, <1>8, <1>9 DEF ToldOf

\* Nothing is lost: what an element is mapped to is there.
FlatMapHas(f, s, i, j) ==
    \E k \in 1 .. Len(FlatMap(f, s)) : FlatMap(f, s)[k] = f[s[i]][j]

\* Each element of an image is in the result.
LEMMA FlatMapKeeps ==
    ASSUME NEW D, NEW S, NEW f \in [D -> Seq(S)], NEW s \in Seq(D),
           NEW i \in 1 .. Len(s), NEW j \in 1 .. Len(f[s[i]])
    PROVE  FlatMapHas(f, s, i, j)
<1>1. PICK n \in Nat : n = Len(s)
  OBVIOUS
<1>2. PICK h \in [0 .. n -> Seq(S)] : FlatMapBuilds(f, s, h)
  BY <1>1, FlatMapGrows, Zenon
<1>3. s[i] \in D /\ f[s[i]] \in Seq(S)
  OBVIOUS
<1>4. PICK x \in S : x = f[s[i]][j]
  BY <1>3
<1> DEFINE Has(m) == \E k \in 1 .. Len(h[m]) : h[m][k] = x
           R == {m \in 0 .. n : i <= m => Has(m)}
<1>5. 0 \in R
  OBVIOUS
<1>6. ASSUME NEW m \in 0 .. n - 1, m \in R PROVE m + 1 \in R
  <2>1. m + 1 \in 1 .. n /\ (m + 1) - 1 = m /\ m \in 0 .. n /\ m + 1 \in 0 .. n
    OBVIOUS
  <2>2. PICK old \in Seq(S), new \in Seq(S), one \in Seq(S) :
           old = h[m] /\ new = h[m + 1] /\ one = f[s[m + 1]]
    <3>1. s[m + 1] \in D
      BY <1>1, <2>1
    <3>2. h[m] \in Seq(S) /\ h[m + 1] \in Seq(S) /\ f[s[m + 1]] \in Seq(S)
      BY <2>1, <3>1
    <3>3. QED
      BY <3>2
  <2>3. new = old \o one
    BY <1>1, <1>2, <2>1, <2>2 DEF FlatMapBuilds
  <2>4. Joins(new, old, one)
    BY <2>3, JoinedSeqs, Zenon
  <2>5. PICK p \in Nat, q \in Nat : p = Len(old) /\ q = Len(one)
    OBVIOUS
  <2>6. Len(new) = p + q
        /\ \A k \in 1 .. p + q : new[k] = IF k <= p THEN old[k] ELSE one[k - p]
    BY <2>4, <2>5, Zenon DEF Joins
  <2>7. CASE i <= m
    <3>1. PICK k \in 1 .. p : old[k] = x
      BY <1>6, <2>2, <2>5, <2>7
    <3>2. k \in 1 .. Len(new) /\ new[k] = x
      BY <2>6, <3>1
    <3>3. QED
      BY <2>1, <2>2, <3>2
  <2>8. CASE i = m + 1
    <3>1. j \in 1 .. q /\ one[j] = x
      BY <1>4, <2>2, <2>5, <2>8
    <3>2. p + j \in 1 .. p + q /\ ~(p + j <= p) /\ (p + j) - p = j
      BY <3>1
    <3>3. p + j \in 1 .. Len(new) /\ new[p + j] = x
      BY <2>6, <3>1, <3>2
    <3>4. QED
      BY <2>1, <2>2, <3>3
  <2>9. i <= m + 1 => i <= m \/ i = m + 1
    OBVIOUS
  <2>10. QED
    BY <2>1, <2>7, <2>8, <2>9
<1>7. n \in R
  <2> HIDE DEF R
  <2>1. 0 .. n \subseteq R
    BY <1>5, <1>6, StepsReachAll
  <2>2. QED
    BY <2>1
<1>8. h[n] = FlatMap(f, s) /\ i <= n
  BY <1>1, <1>2 DEF FlatMapBuilds
<1>9. QED
  BY <1>4, <1>7, <1>8 DEF FlatMapHas
=============================================================================
