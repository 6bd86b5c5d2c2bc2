-------------------------- MODULE SelectionProofs ---------------------------
(***************************************************************************)
(* What filter() keeps, for every sequence: only elements of the sequence, *)
(* all of those asked for, and in their order.  The induction runs over    *)
(* the sets of numbers for which a fact holds.                             *)
(***************************************************************************)
EXTENDS Selection, NaturalsInduction, WellFoundedInduction, TLAPS

\* Every set of positions has a first one (find(), first()).
LEMMA LeastExists ==
    ASSUME NEW T \in SUBSET Nat, T # {}
    PROVE  \E i \in T : \A j \in T : i <= j
<1> DEFINE R == OpToRel(<, Nat)
<1>1. IsWellFoundedOn(R, Nat)
  BY NatLessThanWellFounded
<1>2. \A x, y \in Nat : x < y => <<x, y>> \in R
  BY DEF OpToRel
<1> HIDE DEF R
<1>3. PICK i \in T : \A j \in T : ~(<<j, i>> \in R)
  BY <1>1, WFMin
<1>4. ASSUME NEW j \in T PROVE i <= j
  <2>1. i \in Nat /\ j \in Nat /\ ~(j < i)
    BY <1>2, <1>3
  <2>2. QED
    BY <2>1
<1>5. QED
  BY <1>4

\* Induction for a loop over positions: what holds before the first and is
\* kept by every round holds throughout.
LEMMA Rounds ==
    ASSUME NEW T, 0 \in T, \A n \in Nat : n \in T => n + 1 \in T
    PROVE  \A n \in Nat : n \in T
<1> SUFFICES ASSUME NEW m \in Nat, m \notin T PROVE FALSE
  OBVIOUS
<1> DEFINE U == { n \in Nat : n \notin T }
<1>1. U \in SUBSET Nat /\ U # {}
  OBVIOUS
<1>2. PICK i \in U : \A j \in U : i <= j
  BY <1>1, LeastExists
<1>3. i # 0
  OBVIOUS
<1>4. i - 1 \in Nat /\ i - 1 < i /\ (i - 1) + 1 = i
  BY <1>3
<1>5. i - 1 \notin U
  BY <1>2, <1>4
<1>6. i - 1 \in T
  BY <1>4, <1>5
<1>7. i \in T
  BY <1>4, <1>6
<1>8. QED
  BY <1>7

-----------------------------------------------------------------------------
(* Sequences.                                                              *)

\* An element of a sequence.
LEMMA ElementOf ==
    ASSUME NEW S, NEW s \in Seq(S), NEW n \in 1..Len(s)
    PROVE  s[n] \in S
OBVIOUS

\* The last place of a sequence that is not empty.
LEMMA InRange ==
    ASSUME NEW n \in Nat, n >= 1
    PROVE  n \in 1..n
OBVIOUS

\* Sequences with the same elements are the same.
LEMMA SameElements ==
    ASSUME NEW S, NEW s \in Seq(S), NEW t \in Seq(S), Len(s) = Len(t),
           \A i \in 1..Len(s) : s[i] = t[i]
    PROVE  s = t
OBVIOUS

-----------------------------------------------------------------------------
(* The rounds of filter().                                                 *)

Chosen(s, P, before, n) == IF n \in P THEN Append(before, s[n]) ELSE before

Takes(f, s, P, k) ==
    f = [n \in 0..k |-> IF n = 0 THEN <<>> ELSE Chosen(s, P, f[n - 1], n)]

\* The rounds can be run to the end of the sequence.
LEMMA TakesExist ==
    ASSUME NEW S, NEW s \in Seq(S), NEW P
    PROVE  \A k \in Nat : \E f : Takes(f, s, P, k)
<1> DEFINE T == { k \in Nat : \E f : Takes(f, s, P, k) }
<1>1. 0 \in T
  <2> DEFINE f == [n \in 0..0 |-> <<>>]
  <2>1. Takes(f, s, P, 0)
    BY DEF Takes
  <2>2. QED
    BY <2>1
<1>2. ASSUME NEW k \in Nat, k \in T PROVE k + 1 \in T
  <2>1. PICK f : Takes(f, s, P, k)
    BY <1>2
  <2> DEFINE g == [n \in 0..(k + 1) |-> IF n <= k THEN f[n] ELSE Chosen(s, P, f[k], k + 1)]
  <2>2. Takes(g, s, P, k + 1)
    <3>1. ASSUME NEW n \in 0..(k + 1)
          PROVE  g[n] = IF n = 0 THEN <<>> ELSE Chosen(s, P, g[n - 1], n)
      <4>1. CASE n = 0
        BY <2>1, <4>1 DEF Takes
      <4>2. CASE n # 0 /\ n <= k
        <5>1. n \in 0..k /\ n - 1 \in 0..(k + 1) /\ n - 1 <= k
          BY <4>2
        <5>2. f[n] = Chosen(s, P, f[n - 1], n)
          BY <2>1, <4>2, <5>1 DEF Takes
        <5>3. g[n] = f[n] /\ g[n - 1] = f[n - 1]
          BY <4>2, <5>1
        <5>4. QED
          BY <4>2, <5>2, <5>3
      <4>3. CASE n = k + 1
        <5>1. k \in 0..(k + 1) /\ ~(k + 1 <= k) /\ (k + 1) - 1 = k /\ k + 1 # 0
          OBVIOUS
        <5>2. g[k] = f[k] /\ g[k + 1] = Chosen(s, P, f[k], k + 1)
          BY <5>1
        <5>3. QED
          BY <4>3, <5>1, <5>2
      <4>4. QED
        BY <4>1, <4>2, <4>3
    <3>2. QED
      BY <3>1 DEF Takes
  <2>3. QED
    BY <2>2
<1> HIDE DEF T
<1>3. \A k \in Nat : k \in T
  BY <1>1, <1>2, Rounds
<1>4. QED
  BY <1>3 DEF T

\* Select is what the last round leaves.
LEMMA SelectTakes ==
    ASSUME NEW S, NEW s \in Seq(S), NEW P
    PROVE  \E f : Takes(f, s, P, Len(s)) /\ Select(s, P) = f[Len(s)]
<1> DEFINE g == CHOOSE f : Takes(f, s, P, Len(s))
<1>1. \E f : Takes(f, s, P, Len(s))
  BY TakesExist
<1>2. Takes(g, s, P, Len(s))
  BY <1>1
<1>3. Select(s, P) = g[Len(s)]
  BY DEF Select, Takes, Chosen
<1>4. QED
  BY <1>2, <1>3

\* One round.
LEMMA OneRound ==
    ASSUME NEW s, NEW P, NEW f, NEW k \in Nat, Takes(f, s, P, k), NEW n \in Nat, n + 1 <= k
    PROVE  f[n + 1] = Chosen(s, P, f[n], n + 1)
<1>1. n + 1 \in 0..k /\ n + 1 # 0 /\ (n + 1) - 1 = n
  OBVIOUS
<1>2. QED
  BY <1>1 DEF Takes

\* What a round appends, position by position.
LEMMA ChosenFacts ==
    ASSUME NEW S, NEW q \in Seq(S), NEW s, NEW P, NEW n, s[n] \in S
    PROVE  /\ Chosen(s, P, q, n) \in Seq(S)
           /\ n \notin P => Chosen(s, P, q, n) = q
           /\ n \in P => /\ Len(Chosen(s, P, q, n)) = Len(q) + 1
                         /\ Chosen(s, P, q, n)[Len(q) + 1] = s[n]
                         /\ \A j \in 1..Len(q) : Chosen(s, P, q, n)[j] = q[j]
BY DEF Chosen

\* What has been kept after n rounds: elements of the sequence seen so far at
\* positions that were asked for, at least one if there is one, and the first
\* one first.
SoundAfter(q, s, P, n) ==
    /\ \A j \in 1..Len(q) : \E i \in 1..n : i \in P /\ q[j] = s[i]
    /\ (\E i \in 1..n : i \in P) => Len(q) >= 1
    /\ 1 \in P /\ n >= 1 => Len(q) >= 1 /\ q[1] = s[1]

\* filter(), one element at a time: what is kept was there and was asked for.
LEMMA SoundRound ==
    ASSUME NEW S, NEW s \in Seq(S), NEW P, NEW q \in Seq(S), NEW n \in Nat, n + 1 <= Len(s),
           SoundAfter(q, s, P, n)
    PROVE  SoundAfter(Chosen(s, P, q, n + 1), s, P, n + 1)
<1> DEFINE r == Chosen(s, P, q, n + 1)
<1>0. n + 1 \in 1..Len(s) /\ s[n + 1] \in S /\ Len(q) \in Nat
  OBVIOUS
<1>f. /\ r \in Seq(S)
      /\ n + 1 \notin P => r = q
      /\ n + 1 \in P => Len(r) = Len(q) + 1 /\ r[Len(q) + 1] = s[n + 1]
                        /\ \A j \in 1..Len(q) : r[j] = q[j]
  BY <1>0, ChosenFacts
<1> HIDE DEF r
<1>1. ASSUME NEW j \in 1..Len(r) PROVE \E i \in 1..(n + 1) : i \in P /\ r[j] = s[i]
  <2>1. CASE j \in 1..Len(q)
    <3>1. r[j] = q[j]
      BY <1>f, <2>1
    <3>2. PICK i \in 1..n : i \in P /\ q[j] = s[i]
      BY <2>1 DEF SoundAfter
    <3>3. i \in 1..(n + 1)
      OBVIOUS
    <3>4. QED
      BY <3>1, <3>2, <3>3
  <2>2. CASE j \notin 1..Len(q)
    <3>1. n + 1 \in P
      BY <1>f, <2>2
    <3>2. j = Len(q) + 1
      BY <1>0, <1>f, <2>2, <3>1
    <3>3. r[j] = s[n + 1] /\ n + 1 \in 1..(n + 1)
      BY <1>f, <3>1, <3>2
    <3>4. QED
      BY <3>1, <3>3
  <2>3. QED
    BY <2>1, <2>2
<1>2. ASSUME NEW i \in 1..(n + 1), i \in P PROVE Len(r) >= 1
  <2>1. CASE n + 1 \in P
    BY <1>0, <1>f, <2>1
  <2>2. CASE n + 1 \notin P
    <3>1. i \in 1..n
      BY <1>2, <2>2
    <3>2. QED
      BY <1>2, <1>f, <2>2, <3>1 DEF SoundAfter
  <2>3. QED
    BY <2>1, <2>2
<1>3. ASSUME 1 \in P PROVE Len(r) >= 1 /\ r[1] = s[1]
  <2>1. CASE n = 0
    <3>1. Len(q) = 0
      <4>1. 1..n = {}
        BY <2>1
      <4>2. 1 \notin 1..Len(q)
        BY <4>1 DEF SoundAfter
      <4>3. QED
        BY <1>0, <4>2
    <3>2. n + 1 = 1 /\ Len(q) + 1 = 1
      BY <2>1, <3>1
    <3>3. n + 1 \in P
      BY <1>3, <3>2
    <3>4. Len(r) = 1 /\ r[1] = s[1]
      BY <1>f, <3>2, <3>3
    <3>5. QED
      BY <3>4
  <2>2. CASE n >= 1
    <3>1. Len(q) >= 1 /\ q[1] = s[1] /\ 1 \in 1..Len(q)
      BY <1>0, <1>3, <2>2 DEF SoundAfter
    <3>2. QED
      BY <1>0, <1>f, <3>1
  <2>3. QED
    BY <2>1, <2>2
<1>4. QED
  BY <1>1, <1>2, <1>3 DEF SoundAfter, r

\* What filter() returns: a sequence of elements that were asked for, empty only
\* if none was, and the first element first if it was one of them.
LEMMA SelectSound ==
    ASSUME NEW S, NEW s \in Seq(S), NEW P
    PROVE  /\ Select(s, P) \in Seq(S)
           /\ SoundAfter(Select(s, P), s, P, Len(s))
<1>1. PICK f : Takes(f, s, P, Len(s)) /\ Select(s, P) = f[Len(s)]
  BY SelectTakes
<1> DEFINE T == { n \in Nat : n <= Len(s) => f[n] \in Seq(S) /\ SoundAfter(f[n], s, P, n) }
<1>2. 0 \in T
  <2>1. f[0] = <<>>
    BY <1>1 DEF Takes
  <2>2. 1..0 = {} /\ ~(0 >= 1) /\ Len(<<>>) = 0 /\ <<>> \in Seq(S)
    OBVIOUS
  <2>3. SoundAfter(<<>>, s, P, 0)
    BY <2>2 DEF SoundAfter
  <2>4. QED
    BY <2>1, <2>2, <2>3
<1>3. ASSUME NEW n \in Nat, n \in T PROVE n + 1 \in T
  <2> SUFFICES ASSUME n + 1 <= Len(s) PROVE f[n + 1] \in Seq(S) /\ SoundAfter(f[n + 1], s, P, n + 1)
    OBVIOUS
  <2>1. f[n] \in Seq(S) /\ SoundAfter(f[n], s, P, n)
    BY <1>3
  <2>2. f[n + 1] = Chosen(s, P, f[n], n + 1)
    BY <1>1, OneRound
  <2>3. s[n + 1] \in S
    OBVIOUS
  <2>4. QED
    BY <2>1, <2>2, <2>3, SoundRound, ChosenFacts
<1> HIDE DEF T
<1>4. Len(s) \in T
  BY <1>2, <1>3, Rounds
<1>5. QED
  BY <1>1, <1>4 DEF T

\* What has been kept after n rounds when all but the first d elements (d is 0
\* or 1) are asked for.
ExactAfter(q, s, d, n) ==
    n >= d => /\ Len(q) = n - d
              /\ \A j \in 1..(n - d) : q[j] = s[j + d]

\* filter() when all elements behind the first d are kept and no others, one
\* element at a time ...
LEMMA ExactRound ==
    ASSUME NEW S, NEW s \in Seq(S), NEW P, NEW q \in Seq(S), NEW n \in Nat, n + 1 <= Len(s),
           NEW d \in {0, 1}, \A i \in 1..Len(s) : i \in P <=> i > d,
           ExactAfter(q, s, d, n), n < d => q = <<>>
    PROVE  ExactAfter(Chosen(s, P, q, n + 1), s, d, n + 1)
<1> DEFINE r == Chosen(s, P, q, n + 1)
<1>0. n + 1 \in 1..Len(s) /\ s[n + 1] \in S /\ Len(q) \in Nat
  OBVIOUS
<1>f. /\ r \in Seq(S)
      /\ n + 1 \notin P => r = q
      /\ n + 1 \in P => Len(r) = Len(q) + 1 /\ r[Len(q) + 1] = s[n + 1]
                        /\ \A j \in 1..Len(q) : r[j] = q[j]
  BY <1>0, ChosenFacts
<1> HIDE DEF r
<1>1. CASE n < d
  <2>1. n = 0 /\ d = 1 /\ n + 1 = 1 /\ (n + 1) - d = 0 /\ 1..0 = {}
    BY <1>1
  <2>2. n + 1 \notin P
    BY <1>0, <2>1
  <2>3. r = <<>>
    BY <1>1, <1>f, <2>2
  <2>4. QED
    BY <2>1, <2>3 DEF ExactAfter, r
<1>2. CASE n >= d
  <2>1. n + 1 \in P
    BY <1>0, <1>2
  <2>2. Len(q) = n - d /\ \A j \in 1..(n - d) : q[j] = s[j + d]
    BY <1>2 DEF ExactAfter
  <2>3. Len(r) = (n + 1) - d
    BY <1>f, <2>1, <2>2
  <2>4. ASSUME NEW j \in 1..((n + 1) - d) PROVE r[j] = s[j + d]
    <3>1. CASE j \in 1..(n - d)
      BY <1>f, <2>1, <2>2, <3>1
    <3>2. CASE j \notin 1..(n - d)
      <4>1. j = (n - d) + 1 /\ j + d = n + 1
        BY <1>2, <3>2
      <4>2. QED
        BY <1>f, <2>1, <2>2, <4>1
    <3>3. QED
      BY <3>1, <3>2
  <2>5. QED
    BY <2>3, <2>4 DEF ExactAfter, r
<1>3. QED
  BY <1>1, <1>2

\* ... and at the end.
LEMMA SelectExact ==
    ASSUME NEW S, NEW s \in Seq(S), NEW P, NEW d \in {0, 1},
           \A i \in 1..Len(s) : i \in P <=> i > d
    PROVE  ExactAfter(Select(s, P), s, d, Len(s))
<1>1. PICK f : Takes(f, s, P, Len(s)) /\ Select(s, P) = f[Len(s)]
  BY SelectTakes
<1> DEFINE T == { n \in Nat : n <= Len(s) => /\ f[n] \in Seq(S) /\ ExactAfter(f[n], s, d, n)
                                             /\ n < d => f[n] = <<>> }
<1>2. 0 \in T
  <2>1. f[0] = <<>>
    BY <1>1 DEF Takes
  <2>2. 1..0 = {} /\ 0 - 0 = 0 /\ Len(<<>>) = 0 /\ <<>> \in Seq(S) /\ ~(0 >= 1)
    OBVIOUS
  <2>3. ExactAfter(<<>>, s, d, 0)
    BY <2>2 DEF ExactAfter
  <2>4. QED
    BY <2>1, <2>2, <2>3
<1>3. ASSUME NEW n \in Nat, n \in T PROVE n + 1 \in T
  <2> SUFFICES ASSUME n + 1 <= Len(s)
               PROVE  /\ f[n + 1] \in Seq(S) /\ ExactAfter(f[n + 1], s, d, n + 1)
                      /\ n + 1 < d => f[n + 1] = <<>>
    OBVIOUS
  <2>1. f[n] \in Seq(S) /\ ExactAfter(f[n], s, d, n) /\ (n < d => f[n] = <<>>)
    BY <1>3
  <2>2. f[n + 1] = Chosen(s, P, f[n], n + 1)
    BY <1>1, OneRound
  <2>3. s[n + 1] \in S /\ ~(n + 1 < d)
    OBVIOUS
  <2>4. f[n + 1] \in Seq(S)
    BY <2>1, <2>2, <2>3, ChosenFacts
  <2>5. ExactAfter(f[n + 1], s, d, n + 1)
    BY <2>1, <2>2, ExactRound
  <2>6. QED
    BY <2>3, <2>4, <2>5
<1> HIDE DEF T
<1>4. Len(s) \in T
  BY <1>2, <1>3, Rounds
<1>5. QED
  BY <1>1, <1>4 DEF T

\* filter() with nothing to drop is the sequence itself ...
LEMMA SelectAll ==
    ASSUME NEW S, NEW s \in Seq(S), NEW P, \A i \in 1..Len(s) : i \in P
    PROVE  Select(s, P) = s
<1>1. \A i \in 1..Len(s) : i \in P <=> i > 0
  OBVIOUS
<1>2. ExactAfter(Select(s, P), s, 0, Len(s))
  BY <1>1, SelectExact
<1>3. Select(s, P) \in Seq(S)
  BY SelectSound
<1>4. Len(s) - 0 = Len(s) /\ Len(s) >= 0 /\ \A j \in 1..Len(s) : j + 0 = j
  OBVIOUS
<1>5. Len(Select(s, P)) = Len(s) /\ \A j \in 1..Len(s) : Select(s, P)[j] = s[j]
  BY <1>2, <1>4 DEF ExactAfter
<1>6. QED
  BY <1>3, <1>5

\* ... and with only the first element to drop the rest of it.
LEMMA SelectRest ==
    ASSUME NEW S, NEW s \in Seq(S), Len(s) >= 1, NEW P, 1 \notin P, \A i \in 2..Len(s) : i \in P
    PROVE  /\ Len(Select(s, P)) = Len(s) - 1
           /\ \A j \in 1..(Len(s) - 1) : Select(s, P)[j] = s[j + 1]
<1>1. \A i \in 1..Len(s) : i \in P <=> i > 1
  OBVIOUS
<1>2. ExactAfter(Select(s, P), s, 1, Len(s))
  BY <1>1, SelectExact
<1>3. QED
  BY <1>2 DEF ExactAfter

\* filter() keeps only what is there and was asked for, loses it all only if
\* nothing was asked for, and keeps the first element in front.
LEMMA SelectFacts ==
    ASSUME NEW S, NEW s \in Seq(S), NEW P
    PROVE  /\ Select(s, P) \in Seq(S)
           /\ \A j \in 1..Len(Select(s, P)) : \E i \in 1..Len(s) : i \in P /\ Select(s, P)[j] = s[i]
           /\ (\E i \in 1..Len(s) : i \in P) => Len(Select(s, P)) >= 1
           /\ 1 \in P /\ Len(s) >= 1 => Len(Select(s, P)) >= 1 /\ Select(s, P)[1] = s[1]
BY SelectSound DEF SoundAfter

-----------------------------------------------------------------------------
(* Where the elements that filter() keeps come from.                       *)

\* g[j] is the position in s of the j-th element of q, which holds what was
\* asked for of the first n elements of s.
ComesFrom(g, q, s, P, n) ==
    /\ g \in [1..Len(q) -> 1..n]
    /\ \A j \in 1..Len(q) : g[j] \in P /\ q[j] = s[g[j]]
    /\ \A i, j \in 1..Len(q) : i < j => g[i] < g[j]
    /\ \A i \in 1..n : i \in P => \E j \in 1..Len(q) : g[j] = i

\* One element more.
LEMMA PlacesRound ==
    ASSUME NEW S, NEW s \in Seq(S), NEW P, NEW q \in Seq(S), NEW n \in Nat, n + 1 <= Len(s),
           NEW g, ComesFrom(g, q, s, P, n)
    PROVE  \E h : ComesFrom(h, Chosen(s, P, q, n + 1), s, P, n + 1)
<1> DEFINE r == Chosen(s, P, q, n + 1)
<1>0. n + 1 \in 1..Len(s) /\ s[n + 1] \in S /\ Len(q) \in Nat
  OBVIOUS
<1>f. /\ r \in Seq(S)
      /\ n + 1 \notin P => r = q
      /\ n + 1 \in P => Len(r) = Len(q) + 1 /\ r[Len(q) + 1] = s[n + 1]
                        /\ \A j \in 1..Len(q) : r[j] = q[j]
  BY <1>0, ChosenFacts
<1>g. /\ g \in [1..Len(q) -> 1..n]
      /\ \A j \in 1..Len(q) : g[j] \in P /\ q[j] = s[g[j]]
      /\ \A i, j \in 1..Len(q) : i < j => g[i] < g[j]
      /\ \A i \in 1..n : i \in P => \E j \in 1..Len(q) : g[j] = i
  BY DEF ComesFrom
<1> HIDE DEF r
<1>1. CASE n + 1 \notin P
  <2>1. r = q
    BY <1>1, <1>f
  <2>2. 1..n \subseteq 1..(n + 1) /\ \A i \in 1..(n + 1) : i \in P => i \in 1..n
    BY <1>1
  <2>3. g \in [1..Len(q) -> 1..(n + 1)]
    BY <1>g, <2>2
  <2>4. ComesFrom(g, q, s, P, n + 1)
    BY <1>g, <2>2, <2>3 DEF ComesFrom
  <2>5. QED
    BY <2>1, <2>4 DEF r
<1>2. CASE n + 1 \in P
  <2> DEFINE m == Len(q)
             h == [j \in 1..(m + 1) |-> IF j <= m THEN g[j] ELSE n + 1]
  <2>1. Len(r) = m + 1 /\ r[m + 1] = s[n + 1] /\ \A j \in 1..m : r[j] = q[j]
    BY <1>2, <1>f
  <2>2. ASSUME NEW j \in 1..(m + 1)
        PROVE  /\ h[j] \in 1..(n + 1) /\ h[j] \in P /\ r[j] = s[h[j]]
               /\ j \in 1..m => h[j] = g[j] /\ h[j] \in 1..n
               /\ j \notin 1..m => j = m + 1 /\ h[j] = n + 1
    <3>1. CASE j \in 1..m
      <4>1. h[j] = g[j]
        BY <3>1
      <4>2. g[j] \in 1..n /\ g[j] \in P /\ q[j] = s[g[j]]
        BY <1>g, <3>1
      <4>3. QED
        BY <2>1, <3>1, <4>1, <4>2
    <3>2. CASE j \notin 1..m
      <4>1. j = m + 1 /\ ~(j <= m)
        BY <1>0, <3>2
      <4>2. h[j] = n + 1
        BY <4>1
      <4>3. QED
        BY <1>2, <2>1, <3>2, <4>1, <4>2
    <3>3. QED
      BY <3>1, <3>2
  <2>3. h \in [1..(m + 1) -> 1..(n + 1)]
    BY <2>2
  <2>x. m \in Nat
    BY <1>0
  <2> HIDE DEF h, m
  <2>4. ASSUME NEW i \in 1..(m + 1), NEW j \in 1..(m + 1), i < j PROVE h[i] < h[j]
    <3>1. i \in 1..m
      BY <2>4, <2>x
    <3>2. h[i] = g[i] /\ h[i] \in 1..n
      BY <2>2, <3>1
    <3>3. CASE j \in 1..m
      <4>1. h[j] = g[j]
        BY <2>2, <3>3
      <4>2. g[i] < g[j]
        BY <1>g, <2>4, <3>1, <3>3 DEF m
      <4>3. QED
        BY <3>2, <4>1, <4>2
    <3>4. CASE j \notin 1..m
      <4>1. h[j] = n + 1
        BY <2>2, <3>4
      <4>2. QED
        BY <3>2, <4>1
    <3>5. QED
      BY <3>3, <3>4
  <2>5. ASSUME NEW i \in 1..(n + 1), i \in P PROVE \E j \in 1..(m + 1) : h[j] = i
    <3>1. CASE i \in 1..n
      <4>1. PICK j \in 1..m : g[j] = i
        BY <1>g, <2>5, <3>1 DEF m
      <4>2. j \in 1..(m + 1)
        BY <2>x
      <4>3. QED
        BY <2>2, <4>1, <4>2
    <3>2. CASE i \notin 1..n
      <4>1. i = n + 1 /\ m + 1 \in 1..(m + 1) /\ m + 1 \notin 1..m
        BY <2>x, <3>2
      <4>2. h[m + 1] = n + 1
        BY <2>2, <4>1
      <4>3. QED
        BY <4>1, <4>2
    <3>3. QED
      BY <3>1, <3>2
  <2>6. ComesFrom(h, r, s, P, n + 1)
    BY <2>1, <2>2, <2>3, <2>4, <2>5 DEF ComesFrom
  <2>7. QED
    BY <2>6 DEF r
<1>3. QED
  BY <1>1, <1>2

\* The elements filter() keeps, with their positions, in their order.
LEMMA SelectPlaces ==
    ASSUME NEW S, NEW s \in Seq(S), NEW P
    PROVE  \E g : ComesFrom(g, Select(s, P), s, P, Len(s))
<1>1. PICK f : Takes(f, s, P, Len(s)) /\ Select(s, P) = f[Len(s)]
  BY SelectTakes
<1> DEFINE T == { n \in Nat : n <= Len(s) => f[n] \in Seq(S) /\ \E g : ComesFrom(g, f[n], s, P, n) }
<1>2. 0 \in T
  <2>1. f[0] = <<>>
    BY <1>1 DEF Takes
  <2> DEFINE g == [j \in 1..0 |-> 0]
  <2>2. 1..0 = {} /\ Len(<<>>) = 0 /\ <<>> \in Seq(S) /\ 0 \in Nat
    OBVIOUS
  <2>3. ComesFrom(g, <<>>, s, P, 0)
    BY <2>2 DEF ComesFrom
  <2> HIDE DEF g
  <2>4. QED
    BY <2>1, <2>2, <2>3
<1>3. ASSUME NEW n \in Nat, n \in T PROVE n + 1 \in T
  <2> SUFFICES ASSUME n + 1 <= Len(s)
               PROVE  f[n + 1] \in Seq(S) /\ \E g : ComesFrom(g, f[n + 1], s, P, n + 1)
    OBVIOUS
  <2>1. f[n] \in Seq(S) /\ \E g : ComesFrom(g, f[n], s, P, n)
    BY <1>3
  <2>2. f[n + 1] = Chosen(s, P, f[n], n + 1)
    BY <1>1, OneRound
  <2>3. s[n + 1] \in S
    OBVIOUS
  <2>4. f[n + 1] \in Seq(S)
    BY <2>1, <2>2, <2>3, ChosenFacts
  <2>5. \E g : ComesFrom(g, f[n + 1], s, P, n + 1)
    BY <2>1, <2>2, PlacesRound
  <2>6. QED
    BY <2>4, <2>5
<1> HIDE DEF T
<1>4. Len(s) \in T
  BY <1>2, <1>3, Rounds
<1>5. QED
  BY <1>1, <1>4 DEF T

\* A sequence with one element more.
LEMMA Appended ==
    ASSUME NEW S, NEW q \in Seq(S), NEW x \in S
    PROVE  /\ Append(q, x) \in Seq(S) /\ Len(q) \in Nat
           /\ Len(Append(q, x)) = Len(q) + 1 /\ Append(q, x)[Len(q) + 1] = x
           /\ \A i \in 1..Len(q) : Append(q, x)[i] = q[i]
           /\ \A i \in 1..(Len(q) + 1) : i \in 1..Len(q) \/ i = Len(q) + 1
OBVIOUS

-----------------------------------------------------------------------------
(* How the result of filter() grows.                                       *)

\* Rounds over the same elements leave the same.
LEMMA TakesAgree ==
    ASSUME NEW s, NEW P, NEW f, NEW a \in Nat, Takes(f, s, P, a),
           NEW t, NEW R, NEW g, NEW b \in Nat, Takes(g, t, R, b),
           NEW k \in Nat, k <= a, k <= b,
           \A i \in 1..k : (i \in P <=> i \in R) /\ (i \in P => s[i] = t[i])
    PROVE  f[k] = g[k]
<1> DEFINE T == { n \in Nat : n <= k => f[n] = g[n] }
<1>1. 0 \in T
  BY DEF Takes
<1>2. ASSUME NEW n \in Nat, n \in T PROVE n + 1 \in T
  <2> SUFFICES ASSUME n + 1 <= k PROVE f[n + 1] = g[n + 1]
    OBVIOUS
  <2>1. f[n] = g[n] /\ n + 1 <= a /\ n + 1 <= b /\ n + 1 \in 1..k
    BY <1>2
  <2>2. f[n + 1] = Chosen(s, P, f[n], n + 1)
    BY <2>1, OneRound
  <2>3. g[n + 1] = Chosen(t, R, g[n], n + 1)
    BY <2>1, OneRound
  <2>4. (n + 1 \in P <=> n + 1 \in R) /\ (n + 1 \in P => s[n + 1] = t[n + 1])
    BY <2>1
  <2>5. QED
    BY <2>1, <2>2, <2>3, <2>4 DEF Chosen
<1> HIDE DEF T
<1>3. \A n \in Nat : n \in T
  BY <1>1, <1>2, Rounds
<1>4. QED
  BY <1>3 DEF T

\* Rounds that keep nothing change nothing.
LEMMA TakesRest ==
    ASSUME NEW s, NEW P, NEW f, NEW k \in Nat, Takes(f, s, P, k),
           NEW a \in Nat, a <= k, \A i \in (a + 1)..k : i \notin P
    PROVE  f[k] = f[a]
<1> DEFINE T == { n \in Nat : a <= n /\ n <= k => f[n] = f[a] }
<1>1. 0 \in T
  OBVIOUS
<1>2. ASSUME NEW n \in Nat, n \in T PROVE n + 1 \in T
  <2> SUFFICES ASSUME a <= n + 1, n + 1 <= k PROVE f[n + 1] = f[a]
    OBVIOUS
  <2>1. CASE a = n + 1
    BY <2>1
  <2>2. CASE a # n + 1
    <3>1. f[n] = f[a] /\ n + 1 \notin P
      BY <1>2, <2>2
    <3>2. f[n + 1] = Chosen(s, P, f[n], n + 1)
      BY OneRound
    <3>3. QED
      BY <3>1, <3>2 DEF Chosen
  <2>3. QED
    BY <2>1, <2>2
<1> HIDE DEF T
<1>3. \A n \in Nat : n \in T
  BY <1>1, <1>2, Rounds
<1>4. QED
  BY <1>3 DEF T

\* filter() looks only at what it keeps.
LEMMA SelectAgree ==
    ASSUME NEW S, NEW s \in Seq(S), NEW t \in Seq(S), Len(s) = Len(t), NEW P, NEW R,
           \A i \in 1..Len(s) : (i \in P <=> i \in R) /\ (i \in P => s[i] = t[i])
    PROVE  Select(s, P) = Select(t, R)
<1>1. PICK f : Takes(f, s, P, Len(s)) /\ Select(s, P) = f[Len(s)]
  BY SelectTakes
<1>2. PICK g : Takes(g, t, R, Len(t)) /\ Select(t, R) = g[Len(t)]
  BY SelectTakes
<1>3. PICK k \in Nat : k = Len(s)
  OBVIOUS
<1>4. f[k] = g[k]
  BY <1>1, <1>2, <1>3, TakesAgree
<1>5. QED
  BY <1>1, <1>2, <1>3, <1>4

\* Nothing was asked for.
LEMMA SelectNothing ==
    ASSUME NEW S, NEW s \in Seq(S), NEW P, \A i \in 1..Len(s) : i \notin P
    PROVE  Select(s, P) = <<>>
<1>1. PICK f : Takes(f, s, P, Len(s)) /\ Select(s, P) = f[Len(s)]
  BY SelectTakes
<1>2. PICK k \in Nat : k = Len(s)
  OBVIOUS
<1>3. 0 <= k /\ \A i \in (0 + 1)..k : i \notin P
  BY <1>2
<1>4. f[k] = f[0]
  BY <1>1, <1>2, <1>3, TakesRest
<1>5. f[0] = <<>>
  BY <1>1 DEF Takes
<1>6. QED
  BY <1>1, <1>2, <1>4, <1>5

\* The sequence grows by an element.
LEMMA SelectAppend ==
    ASSUME NEW S, NEW q \in Seq(S), NEW x \in S, NEW P
    PROVE  Select(Append(q, x), P) =
              IF Len(q) + 1 \in P THEN Append(Select(q, P), x) ELSE Select(q, P)
<1>1. PICK k \in Nat, t \in Seq(S) : k = Len(q) /\ t = Append(q, x)
  BY Appended
<1>2. Len(t) = k + 1 /\ t[k + 1] = x /\ \A i \in 1..k : t[i] = q[i]
  BY <1>1, Appended
<1>3. PICK f : Takes(f, t, P, k + 1) /\ Select(t, P) = f[k + 1]
  BY <1>2, SelectTakes
<1>4. PICK g : Takes(g, q, P, k) /\ Select(q, P) = g[k]
  BY <1>1, SelectTakes
<1>5. f[k] = g[k]
  <2>1. k <= k + 1 /\ k <= k /\ k + 1 \in Nat
    OBVIOUS
  <2>2. QED
    BY <1>2, <1>3, <1>4, <2>1, TakesAgree
<1>6. f[k + 1] = Chosen(t, P, f[k], k + 1)
  BY <1>3, OneRound
<1>7. QED
  BY <1>1, <1>2, <1>3, <1>4, <1>5, <1>6 DEF Chosen

\* One more is asked for, behind the others.
LEMMA SelectNext ==
    ASSUME NEW S, NEW s \in Seq(S), NEW P, NEW R, NEW m \in 1..Len(s),
           \A i \in 1..Len(s) : (i \in R <=> i \in P \/ i = m) /\ (i \in P => i < m)
    PROVE  Select(s, R) = Append(Select(s, P), s[m])
<1>1. PICK k \in Nat : k = Len(s) /\ m \in 1..k
  OBVIOUS
<1>2. PICK n \in Nat : m = n + 1 /\ n + 1 <= k /\ n <= k
  <2>1. m - 1 \in Nat /\ m = (m - 1) + 1 /\ (m - 1) + 1 <= k /\ m - 1 <= k
    BY <1>1
  <2>2. QED
    BY <2>1
<1>3. PICK f : Takes(f, s, P, k) /\ Select(s, P) = f[k]
  BY <1>1, SelectTakes
<1>4. PICK g : Takes(g, s, R, k) /\ Select(s, R) = g[k]
  BY <1>1, SelectTakes
<1>5. f[n] = g[n]
  <2>1. \A i \in 1..n : (i \in P <=> i \in R) /\ (i \in P => s[i] = s[i])
    BY <1>1, <1>2
  <2>2. QED
    BY <1>2, <1>3, <1>4, <2>1, TakesAgree
<1>6. f[k] = f[n]
  <2>1. \A i \in (n + 1)..k : i \notin P
    BY <1>1, <1>2
  <2>2. QED
    BY <1>2, <1>3, <2>1, TakesRest
<1>7. g[k] = g[n + 1]
  <2>1. \A i \in ((n + 1) + 1)..k : i \notin R
    BY <1>1, <1>2
  <2>2. n + 1 \in Nat
    OBVIOUS
  <2>3. QED
    BY <1>2, <1>4, <2>1, <2>2, TakesRest
<1>8. g[n + 1] = Chosen(s, R, g[n], n + 1)
  BY <1>2, <1>4, OneRound
<1>9. n + 1 \in R
  BY <1>1, <1>2
<1>10. QED
  BY <1>2, <1>3, <1>4, <1>5, <1>6, <1>7, <1>8, <1>9 DEF Chosen

\* From two sequences the same places are kept.
Abreast(p, q, s, t, P, n) ==
    /\ Len(p) = Len(q)
    /\ \A i \in 1..Len(p) : \E j \in 1..n : j \in P /\ p[i] = s[j] /\ q[i] = t[j]

\* One more round of both.
LEMMA AbreastRound ==
    ASSUME NEW S, NEW s \in Seq(S), NEW U, NEW t \in Seq(U), Len(s) = Len(t), NEW P,
           NEW p \in Seq(S), NEW q \in Seq(U), NEW n \in Nat, n + 1 <= Len(s),
           Abreast(p, q, s, t, P, n)
    PROVE  Abreast(Chosen(s, P, p, n + 1), Chosen(t, P, q, n + 1), s, t, P, n + 1)
<1>1. PICK x \in S, y \in U : x = s[n + 1] /\ y = t[n + 1]
  OBVIOUS
<1>2. PICK l \in Nat : l = Len(p) /\ l = Len(q)
  BY DEF Abreast
<1>3. \A i \in 1..l : \E j \in 1..(n + 1) : j \in P /\ p[i] = s[j] /\ q[i] = t[j]
  <2>1. \A j \in 1..n : j \in 1..(n + 1)
    OBVIOUS
  <2>2. QED
    BY <1>2, <2>1 DEF Abreast
<1>4. CASE n + 1 \notin P
  BY <1>2, <1>3, <1>4 DEF Chosen, Abreast
<1>5. CASE n + 1 \in P
  <2>1. Len(Append(p, x)) = l + 1 /\ Append(p, x)[l + 1] = x /\ \A i \in 1..l : Append(p, x)[i] = p[i]
    <3>1. /\ Len(Append(p, x)) = Len(p) + 1 /\ Append(p, x)[Len(p) + 1] = x
          /\ \A i \in 1..Len(p) : Append(p, x)[i] = p[i]
      BY Appended
    <3>2. QED
      BY <1>2, <3>1, Zenon
  <2>7. \A i \in 1..(l + 1) : i \in 1..l \/ i = l + 1
    OBVIOUS
  <2>6. Len(Append(q, y)) = l + 1 /\ Append(q, y)[l + 1] = y /\ \A i \in 1..l : Append(q, y)[i] = q[i]
    <3>1. /\ Len(Append(q, y)) = Len(q) + 1 /\ Append(q, y)[Len(q) + 1] = y
          /\ \A i \in 1..Len(q) : Append(q, y)[i] = q[i]
      BY Appended
    <3>2. QED
      BY <1>2, <3>1, Zenon
  <2>2. n + 1 \in 1..(n + 1)
    OBVIOUS
  <2>3. \A i \in 1..(l + 1) : \E j \in 1..(n + 1) : j \in P /\ Append(p, x)[i] = s[j] /\ Append(q, y)[i] = t[j]
    BY <1>1, <1>3, <1>5, <2>1, <2>2, <2>6, <2>7
  <2>4. Abreast(Append(p, x), Append(q, y), s, t, P, n + 1)
    BY <2>1, <2>3, <2>6 DEF Abreast
  <2>5. QED
    BY <1>1, <1>5, <2>4 DEF Chosen
<1>6. QED
  BY <1>4, <1>5

\* filter() before or after map().
LEMMA SelectAbreast ==
    ASSUME NEW S, NEW s \in Seq(S), NEW U, NEW t \in Seq(U), Len(s) = Len(t), NEW P
    PROVE  /\ Select(s, P) \in Seq(S) /\ Select(t, P) \in Seq(U)
           /\ Abreast(Select(s, P), Select(t, P), s, t, P, Len(s))
<1>1. PICK f : Takes(f, s, P, Len(s)) /\ Select(s, P) = f[Len(s)]
  BY SelectTakes
<1>2. PICK g : Takes(g, t, P, Len(s)) /\ Select(t, P) = g[Len(s)]
  BY SelectTakes
<1> DEFINE T == { n \in Nat : n <= Len(s) => /\ f[n] \in Seq(S) /\ g[n] \in Seq(U)
                                             /\ Abreast(f[n], g[n], s, t, P, n) }
<1>3. 0 \in T
  <2>1. f[0] = <<>> /\ g[0] = <<>>
    BY <1>1, <1>2 DEF Takes
  <2>2. <<>> \in Seq(S) /\ <<>> \in Seq(U) /\ Len(<<>>) = 0 /\ 1..0 = {}
    OBVIOUS
  <2>3. Abreast(<<>>, <<>>, s, t, P, 0)
    BY <2>2 DEF Abreast
  <2>4. QED
    BY <2>1, <2>2, <2>3
<1>4. ASSUME NEW n \in Nat, n \in T PROVE n + 1 \in T
  <2> SUFFICES ASSUME n + 1 <= Len(s)
               PROVE  f[n + 1] \in Seq(S) /\ g[n + 1] \in Seq(U) /\ Abreast(f[n + 1], g[n + 1], s, t, P, n + 1)
    OBVIOUS
  <2>1. f[n] \in Seq(S) /\ g[n] \in Seq(U) /\ Abreast(f[n], g[n], s, t, P, n)
    BY <1>4
  <2>2. Len(s) \in Nat
    OBVIOUS
  <2>3. f[n + 1] = Chosen(s, P, f[n], n + 1)
    BY <1>1, <2>2, OneRound
  <2>4. g[n + 1] = Chosen(t, P, g[n], n + 1)
    BY <1>2, <2>2, OneRound
  <2>5. s[n + 1] \in S /\ t[n + 1] \in U
    OBVIOUS
  <2>6. f[n + 1] \in Seq(S)
    BY <2>1, <2>3, <2>5, ChosenFacts
  <2>7. g[n + 1] \in Seq(U)
    BY <2>1, <2>4, <2>5, ChosenFacts
  <2>8. Abreast(f[n + 1], g[n + 1], s, t, P, n + 1)
    BY <2>1, <2>3, <2>4, AbreastRound
  <2>9. QED
    BY <2>6, <2>7, <2>8
<1> HIDE DEF T
<1>5. \A n \in Nat : n \in T
  BY <1>3, <1>4, Rounds
<1>6. Len(s) \in T
  BY <1>5
<1>7. QED
  BY <1>1, <1>2, <1>6 DEF T

\* What filter() keeps of a sequence, by value.
Only(q, Q) == Select(q, { i \in 1..Len(q) : q[i] \in Q })

\* One element more.
LEMMA OnlyAppend ==
    ASSUME NEW S, NEW q \in Seq(S), NEW x \in S, NEW Q
    PROVE  Only(Append(q, x), Q) = IF x \in Q THEN Append(Only(q, Q), x) ELSE Only(q, Q)
<1>1. PICK k \in Nat, t \in Seq(S) : k = Len(q) /\ t = Append(q, x)
  BY Appended
<1>10. \A i \in 1..k : i \in 1..(k + 1)
  OBVIOUS
<1>2. Len(t) = k + 1 /\ t[k + 1] = x /\ \A i \in 1..k : t[i] = q[i] /\ i \in 1..(k + 1)
  BY <1>1, <1>10, Appended
<1> DEFINE A == { i \in 1..Len(t) : t[i] \in Q }
<1> DEFINE B == { i \in 1..Len(q) : q[i] \in Q }
<1>3. k + 1 \in A <=> x \in Q
  BY <1>2
<1>4. \A i \in 1..Len(q) : (i \in A <=> i \in B) /\ (i \in A => q[i] = q[i])
  BY <1>1, <1>2
<1>5. Only(t, Q) = Select(t, A) /\ Only(q, Q) = Select(q, B)
  BY DEF Only
<1> HIDE DEF A, B
<1>6. Select(q, A) = Select(q, B)
  BY <1>4, SelectAgree
<1>7. Select(t, A) = IF k + 1 \in A THEN Append(Select(q, A), x) ELSE Select(q, A)
  BY <1>1, SelectAppend
<1>8. QED
  BY <1>1, <1>3, <1>5, <1>6, <1>7

\* Filtering what was filtered is filtering by both.
LEMMA SelectTwice ==
    ASSUME NEW S, NEW s \in Seq(S), NEW P, NEW Q, NEW R,
           \A i \in 1..Len(s) : i \in R <=> i \in P /\ s[i] \in Q
    PROVE  Only(Select(s, P), Q) = Select(s, R)
<1>1. PICK f : Takes(f, s, P, Len(s)) /\ Select(s, P) = f[Len(s)]
  BY SelectTakes
<1>2. PICK g : Takes(g, s, R, Len(s)) /\ Select(s, R) = g[Len(s)]
  BY SelectTakes
<1> DEFINE T == { n \in Nat : n <= Len(s) => f[n] \in Seq(S) /\ Only(f[n], Q) = g[n] }
<1>3. 0 \in T
  <2>1. f[0] = <<>> /\ g[0] = <<>>
    BY <1>1, <1>2 DEF Takes
  <2>2. <<>> \in Seq(S) /\ Len(<<>>) = 0 /\ 1..0 = {}
    OBVIOUS
  <2>3. \A i \in 1..Len(<<>>) : i \notin { j \in 1..Len(<<>>) : <<>>[j] \in Q }
    BY <2>2
  <2>4. Only(<<>>, Q) = <<>>
    BY <2>2, <2>3, SelectNothing DEF Only
  <2>5. QED
    BY <2>1, <2>2, <2>4
<1>4. ASSUME NEW n \in Nat, n \in T PROVE n + 1 \in T
  <2> SUFFICES ASSUME n + 1 <= Len(s) PROVE f[n + 1] \in Seq(S) /\ Only(f[n + 1], Q) = g[n + 1]
    OBVIOUS
  <2>1. f[n] \in Seq(S) /\ Only(f[n], Q) = g[n]
    BY <1>4
  <2>2. Len(s) \in Nat /\ n + 1 \in 1..Len(s)
    OBVIOUS
  <2>3. f[n + 1] = Chosen(s, P, f[n], n + 1)
    BY <1>1, <2>2, OneRound
  <2>4. g[n + 1] = Chosen(s, R, g[n], n + 1)
    BY <1>2, <2>2, OneRound
  <2>5. PICK x \in S : x = s[n + 1]
    OBVIOUS
  <2>6. f[n + 1] \in Seq(S)
    BY <2>1, <2>3, <2>5, ChosenFacts
  <2>7. n + 1 \in R <=> n + 1 \in P /\ x \in Q
    BY <2>2, <2>5
  <2>8. Only(Append(f[n], x), Q) = IF x \in Q THEN Append(Only(f[n], Q), x) ELSE Only(f[n], Q)
    BY <2>1, OnlyAppend
  <2>9. CASE n + 1 \in P
    BY <2>1, <2>3, <2>4, <2>5, <2>6, <2>7, <2>8, <2>9 DEF Chosen
  <2>10. CASE n + 1 \notin P
    BY <2>1, <2>3, <2>4, <2>6, <2>7, <2>10 DEF Chosen
  <2>11. QED
    BY <2>9, <2>10
<1> HIDE DEF T
<1>5. \A n \in Nat : n \in T
  BY <1>3, <1>4, Rounds
<1>6. Len(s) \in T
  BY <1>5
<1>7. QED
  BY <1>1, <1>2, <1>6 DEF T

=============================================================================
