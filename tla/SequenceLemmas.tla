--------------------------- MODULE SequenceLemmas ---------------------------
(***************************************************************************)
(* Lemmas about operators of the community modules that are defined by     *)
(* recursion.  Induction is over a set of numbers, not over a formula: a   *)
(* proof names the set of the numbers its fact holds for.                  *)
(***************************************************************************)
EXTENDS Integers, Sequences, SequencesExt, SequenceTheorems, WellFoundedInduction,
        TLAPS

-----------------------------------------------------------------------------
(* Numbers.                                                                *)

LEMMA LeastNumber ==
    ASSUME NEW S \in SUBSET Nat, S # {}
    PROVE  \E n \in S : \A k \in S : n <= k
  <1>1. PICK n \in S : \A k \in S : ~ (<<k, n>> \in OpToRel(<, Nat))
    BY NatLessThanWellFounded, WFMin
  <1>2. ASSUME NEW k \in S
        PROVE  n <= k
    <2>1. k \in Nat /\ n \in Nat
      OBVIOUS
    <2>2. ~ (k < n)
      BY <1>1, <2>1 DEF OpToRel
    <2> QED
      BY <2>1, <2>2
  <1> QED
    BY <1>2

LEMMA Induction ==
    ASSUME NEW S \in SUBSET Nat, 0 \in S,
           \A n \in Nat \ {0} : n - 1 \in S => n \in S
    PROVE  S = Nat
  <1> SUFFICES ASSUME Nat \ S # {} PROVE FALSE
    OBVIOUS
  <1>1. PICK n \in Nat \ S : \A k \in Nat \ S : n <= k
    BY LeastNumber
  <1>2. n # 0 /\ n - 1 \in Nat /\ ~(n <= n - 1)
    BY SMT
  <1> QED
    BY <1>1, <1>2

-----------------------------------------------------------------------------
(* Concatenation.                                                          *)

LEMMA ConcatParts ==
    ASSUME NEW T, NEW a \in Seq(T), NEW b \in Seq(T)
    PROVE  /\ a \o b \in Seq(T)
           /\ Len(a \o b) = Len(a) + Len(b)
           /\ \A k \in 1 .. Len(a) : (a \o b)[k] = a[k]
           /\ \A k \in 1 .. Len(b) : (a \o b)[Len(a) + k] = b[k]
  OBVIOUS

LEMMA ConcatMiddle ==
    ASSUME NEW T, NEW a \in Seq(T), NEW b \in Seq(T), NEW c \in Seq(T)
    PROVE  /\ a \o b \o c \in Seq(T)
           /\ Len(a \o b \o c) = Len(a) + Len(b) + Len(c)
           /\ \A k \in 1 .. Len(a) : (a \o b \o c)[k] = a[k]
           /\ \A k \in 1 .. Len(b) : (a \o b \o c)[Len(a) + k] = b[k]
  <1>1. Len(a) \in Nat /\ Len(b) \in Nat /\ Len(c) \in Nat
    OBVIOUS
  <1> SUFFICES ASSUME NEW d \in Seq(T), d = a \o b
               PROVE  /\ d \o c \in Seq(T)
                      /\ Len(d \o c) = Len(a) + Len(b) + Len(c)
                      /\ \A k \in 1 .. Len(a) : (d \o c)[k] = a[k]
                      /\ \A k \in 1 .. Len(b) : (d \o c)[Len(a) + k] = b[k]
    BY ConcatParts
  <1>2. /\ Len(d) = Len(a) + Len(b)
        /\ \A k \in 1 .. Len(a) : d[k] = a[k]
        /\ \A k \in 1 .. Len(b) : d[Len(a) + k] = b[k]
    BY ConcatParts
  <1>3. /\ d \o c \in Seq(T)
        /\ Len(d \o c) = Len(d) + Len(c)
        /\ \A k \in 1 .. Len(d) : (d \o c)[k] = d[k]
    BY ConcatParts
  <1>4. \A k \in 1 .. Len(a) : k \in 1 .. Len(d)
    BY <1>1, <1>2
  <1>5. \A k \in 1 .. Len(b) : Len(a) + k \in 1 .. Len(d)
    BY <1>1, <1>2
  <1>6. Len(d \o c) = Len(a) + Len(b) + Len(c)
    BY <1>2, <1>3
  <1>7. \A k \in 1 .. Len(a) : (d \o c)[k] = a[k]
    BY <1>2, <1>3, <1>4
  <1>8. \A k \in 1 .. Len(b) : (d \o c)[Len(a) + k] = b[k]
    BY <1>2, <1>3, <1>5
  <1> QED
    BY <1>3, <1>6, <1>7, <1>8

LEMMA Associates ==
    ASSUME NEW T, NEW a \in Seq(T), NEW b \in Seq(T), NEW c \in Seq(T)
    PROVE  (a \o b) \o c = a \o (b \o c)
  BY ConcatAssociative

Associative(S) == \A a, b, c \in S : (a \o b) \o c = a \o (b \o c)

LEMMA AllAssociate ==
    ASSUME NEW T
    PROVE  Associative(Seq(T))
  BY Associates DEF Associative

\* One more element of a beginning is appended behind it.
LEMMA PrefixGrows ==
    ASSUME NEW T, NEW a \in Seq(T), NEW c \in Seq(T), NEW k \in 1 .. Len(c)
    PROVE  Append(a \o SubSeq(c, 1, k - 1), c[k]) = a \o SubSeq(c, 1, k)
  <1>1. SubSeq(c, 1, k) = SubSeq(c, 1, k - 1) \o <<c[k]>>
    BY SubSeqRecursiveSecond
  <1>2. SubSeq(c, 1, k - 1) \in Seq(T) /\ <<c[k]>> \in Seq(T)
    OBVIOUS
  <1>3. PICK b \in Seq(T) : b = SubSeq(c, 1, k - 1)
    BY <1>2
  <1>4. Append(a \o b, c[k]) = (a \o b) \o <<c[k]>>
    BY <1>2, ConcatParts
  <1>5. (a \o b) \o <<c[k]>> = a \o (b \o <<c[k]>>)
    <2>1. Associative(Seq(T))
      BY AllAssociate
    <2> QED
      BY <1>2, <1>3, <2>1, Zenon DEF Associative
  <1> QED
    BY <1>1, <1>3, <1>4, <1>5

\* A sequence that lies in another is its part.
LEMMA PartIs ==
    ASSUME NEW T, NEW s \in Seq(T), NEW d \in Seq(T), NEW a \in Nat, NEW n \in Nat,
           n = Len(d), a + n <= Len(s), \A k \in 1 .. n : s[a + k] = d[k]
    PROVE  SubSeq(s, a + 1, a + n) = d
  <1> DEFINE r == SubSeq(s, a + 1, a + n)
  <1>1. \A k \in a + 1 .. a + n : s[k] \in T
    OBVIOUS
  <1>2. /\ r \in Seq(T)
        /\ Len(r) = IF a + 1 <= a + n THEN (a + n) - (a + 1) + 1 ELSE 0
        /\ \A k \in 1 .. (a + n) - (a + 1) + 1 : r[k] = s[(a + 1) + k - 1]
    BY <1>1, SubSeqProperties
  <1> HIDE DEF r
  <1>3. Len(r) = n
    BY <1>2
  <1>4. \A k \in 1 .. n : r[k] = d[k]
    <2> SUFFICES ASSUME NEW k \in 1 .. n PROVE r[k] = d[k]
      OBVIOUS
    <2>1. k \in 1 .. (a + n) - (a + 1) + 1 /\ (a + 1) + k - 1 = a + k
      OBVIOUS
    <2> QED
      BY <1>2, <2>1
  <1>5. r = d
    BY <1>2, <1>3, <1>4, SeqEqual
  <1> QED
    BY <1>5 DEF r

\* Equal sequences with the same first part have the same rest.
LEMMA CancelFront ==
    ASSUME NEW T, NEW a \in Seq(T), NEW b \in Seq(T), NEW c \in Seq(T),
           a \o b = a \o c
    PROVE  b = c
  <1>1. Len(b) = Len(c)
    BY ConcatParts
  <1>2. ASSUME NEW k \in 1 .. Len(b)
        PROVE  b[k] = c[k]
    <2>1. (a \o b)[Len(a) + k] = b[k]
      BY ConcatParts
    <2>2. (a \o c)[Len(a) + k] = c[k]
      BY <1>1, ConcatParts
    <2> QED
      BY <2>1, <2>2
  <1> QED
    BY <1>1, <1>2, SeqEqual

LEMMA ConsParts ==
    ASSUME NEW T, NEW a \in T, NEW b \in T, NEW s \in Seq(T), NEW t \in Seq(T),
           <<a>> \o s = <<b>> \o t
    PROVE  a = b /\ s = t
  <1>1. <<a>> \in Seq(T) /\ <<b>> \in Seq(T) /\ Len(<<a>>) = 1 /\ 1 \in 1 .. 1
    OBVIOUS
  <1>2. (<<a>> \o s)[1] = a /\ (<<b>> \o t)[1] = b
    BY <1>1, ConcatParts
  <1>3. a = b
    BY <1>2
  <1> QED
    BY <1>1, <1>3, CancelFront

LEMMA ConsHead ==
    ASSUME NEW T, NEW s \in Seq(T), s # <<>>
    PROVE  s = <<Head(s)>> \o Tail(s) /\ Head(s) \in T /\ Tail(s) \in Seq(T)
  OBVIOUS

LEMMA ConcatNone ==
    ASSUME NEW T, NEW a \in Seq(T)
    PROVE  a \o <<>> = a /\ <<>> \o a = a
  OBVIOUS

\* A sequence is a beginning of itself and what is behind that.
LEMMA Splits ==
    ASSUME NEW T, NEW s \in Seq(T), NEW a \in Seq(T),
           Len(a) <= Len(s), \A k \in 1 .. Len(a) : s[k] = a[k]
    PROVE  /\ SubSeq(s, Len(a) + 1, Len(s)) \in Seq(T)
           /\ s = a \o SubSeq(s, Len(a) + 1, Len(s))
  <1> DEFINE b == SubSeq(s, Len(a) + 1, Len(s))
  <1>1. Len(a) \in Nat /\ Len(s) \in Nat
    OBVIOUS
  <1>2. \A k \in Len(a) + 1 .. Len(s) : s[k] \in T
    OBVIOUS
  <1>3. /\ b \in Seq(T)
        /\ Len(b) = Len(s) - Len(a)
        /\ \A k \in 1 .. Len(s) - Len(a) : b[k] = s[Len(a) + k]
    OBVIOUS
  <1> HIDE DEF b
  <1>4. /\ a \o b \in Seq(T)
        /\ Len(a \o b) = Len(a) + Len(b)
        /\ \A k \in 1 .. Len(a) : (a \o b)[k] = a[k]
        /\ \A k \in 1 .. Len(b) : (a \o b)[Len(a) + k] = b[k]
    BY <1>3, ConcatParts
  <1>5. Len(s) = Len(a \o b)
    BY <1>1, <1>3, <1>4
  <1>6. ASSUME NEW k \in 1 .. Len(s)
        PROVE  s[k] = (a \o b)[k]
    <2>1. CASE k \in 1 .. Len(a)
      BY <1>4, <2>1
    <2>2. CASE k \notin 1 .. Len(a)
      <3>1. k - Len(a) \in 1 .. Len(b) /\ Len(a) + (k - Len(a)) = k
        BY <1>1, <1>3, <2>2
      <3>2. (a \o b)[k] = b[k - Len(a)]
        BY <1>4, <3>1
      <3>3. b[k - Len(a)] = s[k]
        BY <1>3, <3>1
      <3> QED
        BY <3>2, <3>3
    <2> QED
      BY <2>1, <2>2
  <1>7. s = a \o b
    BY <1>4, <1>5, <1>6, SeqEqual
  <1> QED
    BY <1>3, <1>7 DEF b


-----------------------------------------------------------------------------
(* FlattenSeq.                                                             *)

\* g joins the first n sequences of s, one more at each index.
Joins(g, s, n) == g = [i \in 1 .. n |-> IF i = 1 THEN s[i] ELSE g[i - 1] \o s[i]]

LEMMA JoinAt ==
    ASSUME NEW s, NEW n \in Nat, NEW g, Joins(g, s, n), NEW i \in 1 .. n
    PROVE  g[i] = IF i = 1 THEN s[i] ELSE g[i - 1] \o s[i]
  BY DEF Joins

LEMMA JoinOne ==
    ASSUME NEW s, NEW n \in Nat \ {0}, NEW g, Joins(g, s, n - 1)
    PROVE  \E h : Joins(h, s, n)
  <1> DEFINE last == IF n = 1 THEN s[n] ELSE g[n - 1] \o s[n]
             h == [i \in 1 .. n |-> IF i = n THEN last ELSE g[i]]
  <1>1. ASSUME NEW i \in 1 .. n
        PROVE  h[i] = IF i = 1 THEN s[i] ELSE h[i - 1] \o s[i]
    <2>1. i # 1 => i - 1 \in 1 .. n /\ i - 1 # n
      OBVIOUS
    <2>2. i # 1 => h[i - 1] = g[i - 1]
      BY <2>1
    <2>3. CASE i = n
      BY <2>2, <2>3
    <2>4. CASE i # n
      <3>1. i \in 1 .. n - 1
        BY <2>4
      <3>2. g[i] = IF i = 1 THEN s[i] ELSE g[i - 1] \o s[i]
        BY <3>1, JoinAt
      <3> QED
        BY <2>2, <2>4, <3>2
    <2> QED
      BY <2>3, <2>4
  <1>2. h = [i \in 1 .. n |-> h[i]]
    OBVIOUS
  <1> HIDE DEF h
  <1>3. Joins(h, s, n)
    BY <1>1, <1>2 DEF Joins
  <1> QED
    BY <1>3

LEMMA JoinExists ==
    ASSUME NEW s, NEW n \in Nat
    PROVE  \E g : Joins(g, s, n)
  <1> DEFINE Partial(k) == \E g : Joins(g, s, k)
             S == {k \in Nat : Partial(k)}
  <1>1. Partial(0)
    <2>1. Joins([i \in {} |-> i], s, 0)
      BY DEF Joins
    <2> QED
      BY <2>1
  <1>2. ASSUME NEW k \in Nat \ {0}, Partial(k - 1)
        PROVE  Partial(k)
    BY <1>2, JoinOne
  <1> HIDE DEF Partial
  <1>3. \A k \in Nat \ {0} : k - 1 \in S => k \in S
    BY <1>2
  <1>4. 0 \in S /\ S \in SUBSET Nat
    BY <1>1
  <1>5. S = Nat
    <2> HIDE DEF S
    <2> QED
      BY <1>3, <1>4, Induction
  <1> QED
    BY <1>5 DEF Partial

LEMMA JoinsAgree ==
    ASSUME NEW s, NEW n \in Nat, NEW g, Joins(g, s, n),
           NEW r, NEW m \in 0 .. n, NEW h, Joins(h, r, m),
           \A i \in 1 .. m : r[i] = s[i]
    PROVE  \A k \in 1 .. m : h[k] = g[k]
  <1> DEFINE S == {k \in Nat : k \in 1 .. m => h[k] = g[k]}
  <1>1. ASSUME NEW k \in 1 .. m, k - 1 \in S
        PROVE  h[k] = g[k]
    <2>1. h[k] = IF k = 1 THEN r[k] ELSE h[k - 1] \o r[k]
      BY JoinAt
    <2>2. k \in 1 .. n
      OBVIOUS
    <2>3. g[k] = IF k = 1 THEN s[k] ELSE g[k - 1] \o s[k]
      BY <2>2, JoinAt
    <2>4. k # 1 => k - 1 \in 1 .. m
      OBVIOUS
    <2> QED
      BY <1>1, <2>1, <2>3, <2>4
  <1>2. \A k \in Nat \ {0} : k - 1 \in S => k \in S
    BY <1>1
  <1>3. 0 \in S /\ S \in SUBSET Nat
    <2>1. 0 \notin 1 .. m
      OBVIOUS
    <2> QED
      BY <2>1
  <1>4. S = Nat
    <2> HIDE DEF S
    <2> QED
      BY <1>2, <1>3, Induction
  <1> QED
    BY <1>4

\* The first n sequences of s, one after the other.
Joined(s, n) == FlattenSeq(SubSeq(s, 1, n))

LEMMA FlattenIs ==
    ASSUME NEW s, NEW n \in Nat \ {0}, Len(s) = n
    PROVE  \E g : Joins(g, s, n) /\ FlattenSeq(s) = g[n]
  BY JoinExists DEF FlattenSeq, Joins

LEMMA JoinedIs ==
    ASSUME NEW T, NEW s \in Seq(Seq(T)), NEW n \in 1 .. Len(s), NEW g, Joins(g, s, Len(s))
    PROVE  Joined(s, n) = g[n]
  <1> DEFINE r == SubSeq(s, 1, n)
  <1>1. Len(r) = n /\ \A i \in 1 .. n : r[i] = s[i]
    OBVIOUS
  <1> HIDE DEF r
  <1>2. PICK h : Joins(h, r, n) /\ FlattenSeq(r) = h[n]
    BY <1>1, FlattenIs
  <1>3. Len(s) \in Nat /\ n \in 0 .. Len(s) /\ n \in 1 .. n
    OBVIOUS
  <1>4. \A k \in 1 .. n : h[k] = g[k]
    BY <1>1, <1>2, <1>3, JoinsAgree
  <1> QED
    BY <1>2, <1>3, <1>4 DEF Joined, r

LEMMA JoinedNone ==
    ASSUME NEW T, NEW s \in Seq(Seq(T))
    PROVE  Joined(s, 0) = <<>>
  BY DEF Joined, FlattenSeq

\* One more.
LEMMA JoinedGrows ==
    ASSUME NEW T, NEW s \in Seq(Seq(T)), NEW n \in 1 .. Len(s)
    PROVE  Joined(s, n) = Joined(s, n - 1) \o s[n]
  <1>1. PICK g : Joins(g, s, Len(s))
    <2>1. Len(s) \in Nat
      OBVIOUS
    <2> QED
      BY <2>1, JoinExists
  <1>2. Joined(s, n) = g[n]
    BY <1>1, JoinedIs
  <1>3. g[n] = IF n = 1 THEN s[n] ELSE g[n - 1] \o s[n]
    BY <1>1, JoinAt
  <1>4. CASE n = 1
    <2>1. n - 1 = 0 /\ s[n] \in Seq(T)
      BY <1>4
    <2> QED
      BY <1>2, <1>3, <1>4, <2>1, JoinedNone
  <1>5. CASE n # 1
    <2>1. n - 1 \in 1 .. Len(s)
      BY <1>5
    <2>2. Joined(s, n - 1) = g[n - 1]
      BY <1>1, <2>1, JoinedIs
    <2> QED
      BY <1>2, <1>3, <1>5, <2>2
  <1> QED
    BY <1>4, <1>5

LEMMA JoinedType ==
    ASSUME NEW T, NEW s \in Seq(Seq(T)), NEW n \in 0 .. Len(s)
    PROVE  Joined(s, n) \in Seq(T)
  <1> DEFINE S == {k \in Nat : k \in 0 .. Len(s) => Joined(s, k) \in Seq(T)}
  <1>1. ASSUME NEW k \in 1 .. Len(s), k - 1 \in S
        PROVE  Joined(s, k) \in Seq(T)
    <2>1. k - 1 \in 0 .. Len(s)
      OBVIOUS
    <2>2. Joined(s, k - 1) \in Seq(T)
      BY <1>1, <2>1
    <2>3. Joined(s, k) = Joined(s, k - 1) \o s[k]
      BY JoinedGrows
    <2>4. s[k] \in Seq(T)
      OBVIOUS
    <2> QED
      BY <2>2, <2>3, <2>4
  <1>2. \A k \in Nat \ {0} : k - 1 \in S => k \in S
    BY <1>1
  <1>3. 0 \in S /\ S \in SUBSET Nat
    <2>1. <<>> \in Seq(T) /\ Joined(s, 0) = <<>>
      BY JoinedNone
    <2> QED
      BY <2>1
  <1>4. S = Nat
    <2> HIDE DEF S
    <2> QED
      BY <1>2, <1>3, Induction
  <1> QED
    BY <1>4

\* All of them.
LEMMA JoinedAll ==
    ASSUME NEW T, NEW s \in Seq(T)
    PROVE  Joined(s, Len(s)) = FlattenSeq(s)
  <1>1. SubSeq(s, 1, Len(s)) = s
    OBVIOUS
  <1> QED
    BY <1>1 DEF Joined

\* What is joined first stays in front.
LEMMA JoinedFront ==
    ASSUME NEW T, NEW s \in Seq(Seq(T)), NEW n \in 0 .. Len(s), NEW m \in n .. Len(s)
    PROVE  /\ Len(Joined(s, n)) <= Len(Joined(s, m))
           /\ \A k \in 1 .. Len(Joined(s, n)) : Joined(s, m)[k] = Joined(s, n)[k]
  <1> DEFINE Kept(i) == /\ Len(Joined(s, n)) <= Len(Joined(s, i))
                         /\ \A k \in 1 .. Len(Joined(s, n)) : Joined(s, i)[k] = Joined(s, n)[k]
             S == {i \in Nat : i \in n .. Len(s) => Kept(i)}
  <1>1. Joined(s, n) \in Seq(T)
    BY JoinedType
  <1>2. Kept(n)
    BY <1>1
  <1>3. ASSUME NEW i \in n + 1 .. Len(s), Kept(i - 1)
        PROVE  Kept(i)
    <2>1. i \in 1 .. Len(s) /\ i - 1 \in 0 .. Len(s) /\ s[i] \in Seq(T)
      OBVIOUS
    <2>2. Joined(s, i) = Joined(s, i - 1) \o s[i] /\ Joined(s, i - 1) \in Seq(T)
      BY <2>1, JoinedGrows, JoinedType
    <2>3. \A a, b \in Seq(T) :
             /\ Len(a) \in Nat
             /\ Len(a) <= Len(a \o b)
             /\ \A k \in 1 .. Len(a) : (a \o b)[k] = a[k]
      OBVIOUS
    <2>4. /\ Len(Joined(s, i - 1)) <= Len(Joined(s, i))
          /\ \A k \in 1 .. Len(Joined(s, i - 1)) : Joined(s, i)[k] = Joined(s, i - 1)[k]
      BY <2>1, <2>2, <2>3
    <2>5. Joined(s, i) \in Seq(T)
      BY <2>1, <2>2
    <2>6. /\ Len(Joined(s, n)) \in Nat
          /\ Len(Joined(s, i - 1)) \in Nat
          /\ Len(Joined(s, i)) \in Nat
      BY <1>1, <2>2, <2>3, <2>5
    <2> QED
      BY <1>3, <2>4, <2>6
  <1> HIDE DEF Kept
  <1>4. \A i \in Nat \ {0} : i - 1 \in S => i \in S
    <2> SUFFICES ASSUME NEW i \in Nat \ {0}, i - 1 \in S, i \in n .. Len(s)
                 PROVE  Kept(i)
      OBVIOUS
    <2>1. CASE i = n
      BY <2>1, <1>2
    <2>2. CASE i # n
      <3>1. i \in n + 1 .. Len(s) /\ i - 1 \in n .. Len(s)
        BY <2>2
      <3> QED
        BY <3>1, <1>3
    <2> QED
      BY <2>1, <2>2
  <1>5. 0 \in S /\ S \in SUBSET Nat
    <2>1. 0 \in n .. Len(s) => n = 0
      OBVIOUS
    <2> QED
      BY <2>1, <1>2
  <1>6. S = Nat
    <2> HIDE DEF S
    <2> QED
      BY <1>4, <1>5, Induction
  <1>7. m \in S /\ m \in n .. Len(s)
    BY <1>6
  <1>8. Kept(m)
    BY <1>7
  <1> QED
    BY <1>8 DEF Kept

\* Where the n-th of them lies.
LEMMA JoinedInside ==
    ASSUME NEW T, NEW s \in Seq(Seq(T)), NEW n \in 1 .. Len(s)
    PROVE  /\ Len(Joined(s, n)) = Len(Joined(s, n - 1)) + Len(s[n])
           /\ Len(Joined(s, n)) <= Len(FlattenSeq(s))
           /\ \A k \in 1 .. Len(s[n]) :
                 FlattenSeq(s)[Len(Joined(s, n - 1)) + k] = s[n][k]
  <1> DEFINE a == Joined(s, n - 1)
             b == Joined(s, n)
             c == FlattenSeq(s)
  <1>1. n \in 0 .. Len(s) /\ n - 1 \in 0 .. Len(s) /\ Len(s) \in n .. Len(s)
    OBVIOUS
  <1>2. a \in Seq(T) /\ b \in Seq(T) /\ s[n] \in Seq(T)
    BY <1>1, JoinedType
  <1>3. b = a \o s[n]
    BY JoinedGrows
  <1>4. c = Joined(s, Len(s))
    BY JoinedAll
  <1>5. Len(b) <= Len(c) /\ \A k \in 1 .. Len(b) : c[k] = b[k]
    BY <1>1, <1>4, JoinedFront
  <1> HIDE DEF a, b, c
  <1>6. Len(b) = Len(a) + Len(s[n])
    BY <1>2, <1>3
  <1>7. ASSUME NEW k \in 1 .. Len(s[n])
        PROVE  c[Len(a) + k] = s[n][k]
    <2>1. Len(a) + k \in 1 .. Len(b)
      BY <1>2, <1>6
    <2>2. b[Len(a) + k] = s[n][k]
      BY <1>2, <1>3
    <2> QED
      BY <1>5, <2>1, <2>2
  <1> QED
    BY <1>5, <1>6, <1>7 DEF a, b, c

\* What is behind the first n of the sequences that are joined.
Left(s, n) == SubSeq(FlattenSeq(s), Len(Joined(s, n)) + 1, Len(FlattenSeq(s)))

LEMMA FlattenType ==
    ASSUME NEW T, NEW s \in Seq(Seq(T))
    PROVE  FlattenSeq(s) \in Seq(T)
  <1>1. Len(s) \in 0 .. Len(s) /\ s \in Seq(Seq(T))
    OBVIOUS
  <1> QED
    BY <1>1, JoinedType, JoinedAll

LEMMA LeftIs ==
    ASSUME NEW T, NEW s \in Seq(Seq(T)), NEW n \in 0 .. Len(s)
    PROVE  /\ Left(s, n) \in Seq(T)
           /\ FlattenSeq(s) = Joined(s, n) \o Left(s, n)
  <1>1. Len(s) \in n .. Len(s)
    OBVIOUS
  <1>2. Joined(s, n) \in Seq(T) /\ FlattenSeq(s) \in Seq(T)
    BY JoinedType, FlattenType
  <1>3. Joined(s, Len(s)) = FlattenSeq(s)
    BY JoinedAll
  <1>4. /\ Len(Joined(s, n)) <= Len(FlattenSeq(s))
        /\ \A k \in 1 .. Len(Joined(s, n)) : FlattenSeq(s)[k] = Joined(s, n)[k]
    BY <1>1, <1>3, JoinedFront
  <1> QED
    BY <1>2, <1>4, Splits DEF Left

LEMMA LeftNone ==
    ASSUME NEW T, NEW s \in Seq(Seq(T))
    PROVE  Left(s, Len(s)) = <<>>
  <1>1. Joined(s, Len(s)) = FlattenSeq(s) /\ FlattenSeq(s) \in Seq(T)
    BY JoinedAll, FlattenType
  <1>2. \A a \in Seq(T) : SubSeq(a, Len(a) + 1, Len(a)) = <<>>
    OBVIOUS
  <1> QED
    BY <1>1, <1>2 DEF Left

LEMMA LeftFirst ==
    ASSUME NEW T, NEW s \in Seq(Seq(T)), NEW n \in 1 .. Len(s)
    PROVE  Left(s, n - 1) = s[n] \o Left(s, n)
  <1>1. n \in 0 .. Len(s) /\ n - 1 \in 0 .. Len(s) /\ s[n] \in Seq(T)
    OBVIOUS
  <1>2. /\ Left(s, n) \in Seq(T) /\ Left(s, n - 1) \in Seq(T)
        /\ Joined(s, n) \o Left(s, n) = Joined(s, n - 1) \o Left(s, n - 1)
    BY <1>1, LeftIs
  <1>3. Joined(s, n - 1) \in Seq(T) /\ Joined(s, n) = Joined(s, n - 1) \o s[n]
    BY <1>1, JoinedType, JoinedGrows
  <1>4. (Joined(s, n - 1) \o s[n]) \o Left(s, n) = Joined(s, n - 1) \o (s[n] \o Left(s, n))
    <2>1. Associative(Seq(T))
      BY AllAssociate
    <2> QED
      BY <1>1, <1>2, <1>3, <2>1, Zenon DEF Associative
  <1>5. s[n] \o Left(s, n) \in Seq(T)
    BY <1>1, <1>2
  <1>6. Joined(s, n - 1) \o (s[n] \o Left(s, n)) = Joined(s, n - 1) \o Left(s, n - 1)
    BY <1>2, <1>3, <1>4
  <1> QED
    BY <1>2, <1>3, <1>5, <1>6, CancelFront

LEMMA LeftGrows ==
    ASSUME NEW T, NEW s \in Seq(Seq(T)), NEW e \in Seq(T), NEW n \in 0 .. Len(s)
    PROVE  Left(Append(s, e), n) = Left(s, n) \o e
  <1>1. PICK r \in Seq(Seq(T)) : r = Append(s, e)
    <2>1. Append(s, e) \in Seq(Seq(T))
      OBVIOUS
    <2> QED
      BY <2>1
  <1>2. Len(r) = Len(s) + 1 /\ r[Len(s) + 1] = e /\ Len(s) \in Nat
    BY <1>1
  <1>3. ASSUME NEW m \in 0 .. Len(s)
        PROVE  Joined(r, m) = Joined(s, m)
    <2>1. SubSeq(r, 1, m) = SubSeq(s, 1, m)
      BY <1>1
    <2> QED
      BY <2>1 DEF Joined
  <1>4. FlattenSeq(r) = FlattenSeq(s) \o e
    <2>1. Len(s) + 1 \in 1 .. Len(r) /\ (Len(s) + 1) - 1 = Len(s) /\ Len(s) \in 0 .. Len(s)
      BY <1>2
    <2>2. Joined(r, Len(s) + 1) = Joined(r, Len(s)) \o e
      BY <1>2, <2>1, JoinedGrows
    <2>3. Joined(r, Len(s)) = FlattenSeq(s)
      BY <1>3, <2>1, JoinedAll
    <2>4. Joined(r, Len(s) + 1) = FlattenSeq(r)
      BY <1>2, JoinedAll
    <2> QED
      BY <2>2, <2>3, <2>4
  <1>5. n \in 0 .. Len(r)
    BY <1>2
  <1>6. /\ FlattenSeq(s) = Joined(s, n) \o Left(s, n) /\ Left(s, n) \in Seq(T)
        /\ FlattenSeq(r) = Joined(s, n) \o Left(r, n) /\ Left(r, n) \in Seq(T)
    BY <1>3, <1>5, LeftIs
  <1>7. Joined(s, n) \in Seq(T)
    BY JoinedType
  <1>8. (Joined(s, n) \o Left(s, n)) \o e = Joined(s, n) \o (Left(s, n) \o e)
    <2>1. Associative(Seq(T))
      BY AllAssociate
    <2> QED
      BY <1>6, <1>7, <2>1, Zenon DEF Associative
  <1>9. Left(s, n) \o e \in Seq(T)
    BY <1>6
  <1>10. Joined(s, n) \o Left(r, n) = Joined(s, n) \o (Left(s, n) \o e)
    BY <1>4, <1>6, <1>8
  <1> QED
    BY <1>1, <1>6, <1>7, <1>9, <1>10, CancelFront
=============================================================================
