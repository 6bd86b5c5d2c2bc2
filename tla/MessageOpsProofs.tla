-------------------------- MODULE MessageOpsProofs --------------------------
(***************************************************************************)
(* Proofs about MessageOps, for every set of certificates, keys,           *)
(* passwords, literals and foreign layers and any number of layers.        *)
(***************************************************************************)
EXTENDS MessageOps, SequenceTheorems, WellFoundedInduction, TLAPS

-----------------------------------------------------------------------------
(* Sequences of layers, whatever the layers are.                           *)

IsSeq(m) == m \in Seq(Range(m))

\* What layer i - 1 of m encloses, and layer i itself in front of it.
Suffix(m, i) == SubSeq(m, i, Len(m))

\* A sequence over any set is one of its own layers.
LEMMA IsSeqIntro ==
    ASSUME NEW S, NEW m \in Seq(S)
    PROVE  IsSeq(m)
<1>1. Len(m) \in Nat /\ m \in [1..Len(m) -> S] /\ DOMAIN m = 1..Len(m)
  BY LenProperties
<1>2. m \in [1..Len(m) -> Range(m)]
  BY <1>1 DEF Range
<1>3. QED
  BY <1>1, <1>2 DEF IsSeq

\* A sequence is the function of its elements.
LEMMA IsSeqLen ==
    ASSUME NEW m, IsSeq(m)
    PROVE  /\ Len(m) \in Nat /\ DOMAIN m = 1..Len(m)
           /\ m = [i \in 1..Len(m) |-> m[i]]
BY LenProperties DEF IsSeq

\* Two sequences with the same elements are the same.
LEMMA SameSeq ==
    ASSUME NEW s, NEW t, IsSeq(s), IsSeq(t), Len(s) = Len(t),
           \A i \in 1..Len(s) : s[i] = t[i]
    PROVE  s = t
<1>1. s = [i \in 1..Len(s) |-> s[i]] /\ t = [i \in 1..Len(s) |-> t[i]]
  BY IsSeqLen
<1>2. [i \in 1..Len(s) |-> s[i]] = [i \in 1..Len(s) |-> t[i]]
  OBVIOUS
<1>3. QED
  BY <1>1, <1>2

\* What is behind a layer, element by element.
LEMMA SuffixSeq ==
    ASSUME NEW m, IsSeq(m), NEW i \in 1..(Len(m) + 1)
    PROVE  /\ IsSeq(Suffix(m, i)) /\ Len(Suffix(m, i)) = Len(m) - i + 1
           /\ \A j \in 1..(Len(m) - i + 1) : Suffix(m, i)[j] = m[i + j - 1]
<1>1. Len(m) \in Nat /\ DOMAIN m = 1..Len(m)
  BY IsSeqLen
<1>2. \A j \in i..Len(m) : m[j] \in Range(m)
  BY <1>1 DEF Range
<1>3. i \in Int /\ Len(m) \in Int
  BY <1>1
<1>4. /\ Suffix(m, i) \in Seq(Range(m))
      /\ Len(Suffix(m, i)) = IF i <= Len(m) THEN Len(m) - i + 1 ELSE 0
      /\ \A j \in 1..(Len(m) - i + 1) : Suffix(m, i)[j] = m[i + j - 1]
  BY <1>2, <1>3, SubSeqProperties DEF Suffix
<1>5. Len(Suffix(m, i)) = Len(m) - i + 1
  BY <1>1, <1>4
<1>6. IsSeq(Suffix(m, i))
  BY <1>4, IsSeqIntro
<1>7. QED
  BY <1>4, <1>5, <1>6

\* Behind nothing is the whole message.
LEMMA SuffixAll ==
    ASSUME NEW m, IsSeq(m)
    PROVE  Suffix(m, 1) = m
<1>1. Len(m) \in Nat /\ 1 \in 1..(Len(m) + 1)
  BY IsSeqLen
<1>2. /\ IsSeq(Suffix(m, 1)) /\ Len(Suffix(m, 1)) = Len(m)
      /\ \A j \in 1..Len(m) : Suffix(m, 1)[j] = m[j]
  BY <1>1, SuffixSeq
<1>3. QED
  BY <1>2, SameSeq

\* What is behind a layer of what is behind a layer.
LEMMA SuffixSuffix ==
    ASSUME NEW m, IsSeq(m), NEW i \in 1..(Len(m) + 1), NEW k \in 1..(Len(m) - i + 2)
    PROVE  Suffix(Suffix(m, i), k) = Suffix(m, i + k - 1)
<1>1. Len(m) \in Nat
  BY IsSeqLen
<1>2. /\ IsSeq(Suffix(m, i)) /\ Len(Suffix(m, i)) = Len(m) - i + 1
      /\ \A j \in 1..(Len(m) - i + 1) : Suffix(m, i)[j] = m[i + j - 1]
  BY SuffixSeq
<1>3. i + k - 1 \in 1..(Len(m) + 1) /\ k \in 1..(Len(Suffix(m, i)) + 1)
  BY <1>1, <1>2
<1>4. /\ IsSeq(Suffix(m, i + k - 1)) /\ Len(Suffix(m, i + k - 1)) = Len(m) - (i + k - 1) + 1
      /\ \A j \in 1..(Len(m) - (i + k - 1) + 1) : Suffix(m, i + k - 1)[j] = m[(i + k - 1) + j - 1]
  BY <1>3, SuffixSeq
<1> DEFINE q == Suffix(m, i)
           r == Suffix(q, k)
           n == Len(m) - (i + k - 1) + 1
<1>5. IsSeq(q) /\ k \in 1..(Len(q) + 1)
  BY <1>2, <1>3
<1>6. /\ IsSeq(r) /\ Len(r) = Len(q) - k + 1
      /\ \A j \in 1..(Len(q) - k + 1) : r[j] = q[k + j - 1]
  BY <1>5, SuffixSeq
<1>7. Len(r) = n /\ n \in Nat
  BY <1>1, <1>2, <1>6
<1>8. ASSUME NEW j \in 1..n PROVE r[j] = Suffix(m, i + k - 1)[j]
  <2>1. r[j] = q[k + j - 1]
    BY <1>6, <1>7
  <2>2. k + j - 1 \in 1..(Len(m) - i + 1) /\ i + (k + j - 1) - 1 = (i + k - 1) + j - 1
    BY <1>1
  <2>3. q[k + j - 1] = m[i + (k + j - 1) - 1]
    BY <2>2, <1>2
  <2>4. QED
    BY <2>1, <2>2, <2>3, <1>4
<1> HIDE DEF q, r, n
<1>9. r = Suffix(m, i + k - 1)
  BY <1>4, <1>6, <1>7, <1>8, SameSeq DEF n
<1>10. QED
  BY <1>9 DEF r, q

\* Tail, as decrypt and decompress take it, is what is behind the first layer.
LEMMA TailSuffix ==
    ASSUME NEW m, IsSeq(m), Len(m) >= 1
    PROVE  Tail(m) = Suffix(m, 2)
<1>1. m # <<>>
  BY EmptySeq
<1>2. QED
  BY <1>1, TailIsSubSeq DEF IsSeq, Suffix

\* A layer put in front, element by element.
LEMMA PrependSeq ==
    ASSUME NEW m, IsSeq(m), NEW l
    PROVE  /\ IsSeq(<<l>> \o m) /\ Len(<<l>> \o m) = Len(m) + 1
           /\ (<<l>> \o m)[1] = l
           /\ \A j \in 1..Len(m) : (<<l>> \o m)[j + 1] = m[j]
<1> DEFINE S == Range(m) \cup {l}
           q == <<l>> \o m
<1>1. Len(m) \in Nat /\ m \in [1..Len(m) -> Range(m)]
  BY LenProperties DEF IsSeq
<1>2. m \in Seq(S) /\ <<l>> \in Seq(S) /\ Len(<<l>>) = 1 /\ <<l>>[1] = l
  BY <1>1
<1>3. /\ q \in Seq(S) /\ Len(q) = Len(<<l>>) + Len(m)
      /\ \A i \in 1..(Len(<<l>>) + Len(m)) : q[i] = IF i <= Len(<<l>>) THEN <<l>>[i] ELSE m[i - Len(<<l>>)]
  BY <1>2, ConcatProperties
<1> HIDE DEF q, S
<1>4. /\ Len(q) = Len(m) + 1 /\ q[1] = l
      /\ \A j \in 1..Len(m) : q[j + 1] = m[j]
  BY <1>1, <1>2, <1>3
<1>5. IsSeq(q)
  BY <1>3, IsSeqIntro
<1>6. QED
  BY <1>4, <1>5 DEF q

\* A layer put in front changes nothing behind it.
LEMMA PrependSuffix ==
    ASSUME NEW m, IsSeq(m), NEW l, NEW j \in 1..(Len(m) + 1)
    PROVE  Suffix(<<l>> \o m, j + 1) = Suffix(m, j)
<1> DEFINE q == <<l>> \o m
<1>1. Len(m) \in Nat
  BY IsSeqLen
<1>2. /\ IsSeq(q) /\ Len(q) = Len(m) + 1
      /\ \A i \in 1..Len(m) : q[i + 1] = m[i]
  BY PrependSeq
<1> HIDE DEF q
<1>3. j + 1 \in 1..(Len(q) + 1)
  BY <1>1, <1>2
<1>4. /\ IsSeq(Suffix(q, j + 1)) /\ Len(Suffix(q, j + 1)) = Len(q) - (j + 1) + 1
      /\ \A i \in 1..(Len(q) - (j + 1) + 1) : Suffix(q, j + 1)[i] = q[(j + 1) + i - 1]
  BY <1>2, <1>3, SuffixSeq
<1>5. /\ IsSeq(Suffix(m, j)) /\ Len(Suffix(m, j)) = Len(m) - j + 1
      /\ \A i \in 1..(Len(m) - j + 1) : Suffix(m, j)[i] = m[j + i - 1]
  BY SuffixSeq
<1>6. Len(Suffix(q, j + 1)) = Len(Suffix(m, j))
  BY <1>1, <1>2, <1>4, <1>5
<1>7. ASSUME NEW i \in 1..(Len(m) - j + 1)
      PROVE  Suffix(q, j + 1)[i] = Suffix(m, j)[i]
  <2>1. i \in 1..(Len(q) - (j + 1) + 1) /\ j + i - 1 \in 1..Len(m) /\ (j + 1) + i - 1 = (j + i - 1) + 1
    BY <1>1, <1>2
  <2>2. QED
    BY <2>1, <1>2, <1>4, <1>5
<1>8. Suffix(q, j + 1) = Suffix(m, j)
  BY <1>4, <1>5, <1>6, <1>7, SameSeq
<1>9. QED
  BY <1>8 DEF q

\* Every set of positions has a first one.
LEMMA Least ==
    ASSUME NEW T \in SUBSET Nat, T # {}
    PROVE  \E i \in T : \A j \in T : i <= j
<1> DEFINE R == OpToRel(<, Nat)
<1>1. IsWellFoundedOn(R, Nat)
  BY NatLessThanWellFounded
<1>2. \A x, y \in Nat : x < y => <<x, y>> \in R
  BY DEF OpToRel
<1> HIDE DEF R
<1>3. PICK i \in T : \A j \in T : ~(<<j, i>> \in R)
  BY <1>1, WFMin
<1>4. ASSUME NEW j \in T PROVE i <= j
  <2>1. i \in Nat /\ j \in Nat /\ ~(j < i)
    BY <1>2, <1>3
  <2>2. QED
    BY <2>1
<1>5. QED
  BY <1>4

-----------------------------------------------------------------------------
(* The shape of a message, and what its layers are.                        *)

Outer(l) == l.t = "Signed" \/ l \in Compressed \/ l \in Encrypted

Shape(m) ==
    /\ IsSeq(m) /\ Len(m) >= 1
    /\ m[Len(m)] \in Literal
    /\ \A j \in 1..(Len(m) - 1) : Outer(m[j])

\* Every signature is one that was made.
Genuine(m, sg) ==
    \A j \in 1..Len(m) : m[j].t = "Signed" => \E s \in sg : m[j] = SignedLayer(s.msg, s.by)

\* Whoever is meant opens it: the first packet is for a key that decrypts, or
\* for a password, and all are for the cipher in use.
Openable(e) ==
    /\ Len(e.esk) >= 1 /\ e.esk[1].alg = "AES"
    /\ \A i \in 1..Len(e.esk) : e.esk[i].alg = "AES" /\ (e.esk[i].e = "pw" => e.esk[i].v = 4)
    /\ \/ e.esk[1].e = "pk" /\ e.esk[1].id \in CryptKeys /\ e.esk[1].ok = TRUE
       \/ e.esk[1].e = "pw" /\ e.esk[1].v = 4 /\ e.esk[1].direct = FALSE

\* A layer as its sender made it, around inner.
LayerOriginal(l, inner) ==
    /\ l.t = "Signed" => l.by \in Keys /\ l = SignedLayer(inner, l.by)
    /\ l.t = "Encrypted" =>
          /\ l.state = "whole" /\ l.alg = "AES"
          /\ \A i \in 1..Len(l.esk) : l.esk[i].key = l.key
          /\ l.kind = "V1" /\ l.key > 0 => Openable(l)

Original(m) == \A j \in 1..Len(m) : LayerOriginal(m[j], Suffix(m, j + 1))

\* What is inside encrypted data is what the sender put there.
Enclosed(m, s) ==
    \A j \in 1..Len(m) :
       m[j].t = "Encrypted" => \E i \in 1..Len(s) : Suffix(m, j + 1) = Suffix(s, i)

MInv ==
    /\ phase \in {"sending", "receiving"} /\ intact \in BOOLEAN /\ opened \in BOOLEAN
    /\ Shape(msg) /\ Genuine(msg, signed)
    /\ \A s \in signed : Shape(s.msg) /\ s.msg[Len(s.msg)].mode = msg[Len(msg)].mode
    /\ intact => Original(msg)
    /\ phase = "sending" => opened = FALSE /\ intact = TRUE
    /\ phase = "receiving" => Shape(sent) /\ Enclosed(msg, sent)
    /\ opened => \E i \in 1..Len(sent) : msg = Suffix(sent, i)

\* The kinds of layers, and where they can be.
LEMMA LayerTags ==
    ASSUME NEW m, Shape(m), NEW j \in 1..Len(m)
    PROVE  /\ Len(m) \in Nat
           /\ m[j].t \in {"Literal", "Signed", "Compressed", "Encrypted"}
           /\ m[j].t = "Literal" <=> j = Len(m)
           /\ m[j].t = "Encrypted" => m[j] \in Encrypted
           /\ m[j].t = "Compressed" => m[j] \in Compressed
<1>1. Len(m) \in Nat
  BY IsSeqLen DEF Shape
<1>2. CASE j = Len(m)
  BY <1>1, <1>2 DEF Shape, Literal
<1>3. CASE j \in 1..(Len(m) - 1)
  <2>1. Outer(m[j])
    BY <1>3 DEF Shape
  <2>2. j # Len(m)
    BY <1>1, <1>3
  <2>3. QED
    BY <1>1, <2>1, <2>2 DEF Outer, Encrypted, Compressed
<1>4. QED
  BY <1>1, <1>2, <1>3

\* What is inside a layer is a message.
LEMMA ShapeSuffix ==
    ASSUME NEW m, Shape(m), NEW i \in 1..Len(m)
    PROVE  /\ Shape(Suffix(m, i)) /\ Len(Suffix(m, i)) = Len(m) - i + 1
           /\ Suffix(m, i)[Len(Suffix(m, i))] = m[Len(m)]
           /\ \A j \in 1..(Len(m) - i + 1) : Suffix(m, i)[j] = m[i + j - 1]
           /\ \A j \in 1..(Len(m) - i + 1) : Suffix(Suffix(m, i), j + 1) = Suffix(m, i + j)
<1> DEFINE q == Suffix(m, i)
<1>1. IsSeq(m) /\ Len(m) \in Nat /\ i \in 1..(Len(m) + 1)
  BY IsSeqLen DEF Shape
<1>2. /\ IsSeq(q) /\ Len(q) = Len(m) - i + 1
      /\ \A j \in 1..(Len(m) - i + 1) : q[j] = m[i + j - 1]
  BY <1>1, SuffixSeq
<1>3. ASSUME NEW j \in 1..(Len(m) - i + 1)
      PROVE  Suffix(q, j + 1) = Suffix(m, i + j)
  <2>1. j + 1 \in 1..(Len(m) - i + 2) /\ i + (j + 1) - 1 = i + j
    BY <1>1
  <2>2. Suffix(q, j + 1) = Suffix(m, i + (j + 1) - 1)
    BY <1>1, <2>1, SuffixSuffix
  <2>3. QED
    BY <2>1, <2>2
<1> HIDE DEF q
<1>4. Len(q) >= 1 /\ Len(q) \in 1..(Len(m) - i + 1) /\ i + Len(q) - 1 = Len(m)
  BY <1>1, <1>2
<1>5. q[Len(q)] = m[Len(m)]
  BY <1>2, <1>4
<1>6. ASSUME NEW j \in 1..(Len(q) - 1)
      PROVE  Outer(q[j])
  <2>1. j \in 1..(Len(m) - i + 1) /\ i + j - 1 \in 1..(Len(m) - 1)
    BY <1>1, <1>2
  <2>2. QED
    BY <1>2, <2>1 DEF Shape
<1>7. Shape(q)
  BY <1>2, <1>4, <1>5, <1>6 DEF Shape
<1>8. QED
  BY <1>2, <1>3, <1>5, <1>7 DEF q

\* The message with one layer more (Adds).
Prepended(l, m) == <<l>> \o m

\* A message with a layer more is a message.
LEMMA ShapePrepend ==
    ASSUME NEW m, Shape(m), NEW l, Outer(l)
    PROVE  /\ Shape(Prepended(l, m)) /\ Len(Prepended(l, m)) = Len(m) + 1
           /\ Prepended(l, m)[1] = l
           /\ Prepended(l, m)[Len(Prepended(l, m))] = m[Len(m)]
           /\ \A j \in 1..Len(m) : Prepended(l, m)[j + 1] = m[j]
           /\ \A j \in 1..(Len(m) + 1) : Suffix(Prepended(l, m), j + 1) = Suffix(m, j)
<1> DEFINE q == Prepended(l, m)
<1>1. IsSeq(m) /\ Len(m) \in Nat /\ Len(m) >= 1
  BY IsSeqLen DEF Shape
<1>2. /\ IsSeq(q) /\ Len(q) = Len(m) + 1 /\ q[1] = l
      /\ \A j \in 1..Len(m) : q[j + 1] = m[j]
  BY <1>1, PrependSeq DEF Prepended
<1>3. \A j \in 1..(Len(m) + 1) : Suffix(q, j + 1) = Suffix(m, j)
  BY <1>1, PrependSuffix DEF Prepended
<1> HIDE DEF q
<1>4. q[Len(q)] = m[Len(m)]
  BY <1>1, <1>2
<1>5. ASSUME NEW j \in 1..(Len(q) - 1)
      PROVE  Outer(q[j])
  <2>1. CASE j = 1
    BY <1>2, <2>1
  <2>2. CASE j > 1
    <3>1. j - 1 \in 1..Len(m) /\ j - 1 \in 1..(Len(m) - 1) /\ (j - 1) + 1 = j
      BY <1>1, <1>2, <2>2
    <3>2. q[j] = m[j - 1]
      BY <1>2, <3>1
    <3>3. QED
      BY <3>1, <3>2 DEF Shape
  <2>3. QED
    BY <1>1, <1>2, <2>1, <2>2
<1>6. Shape(q)
  BY <1>1, <1>2, <1>4, <1>5 DEF Shape
<1>7. QED
  BY <1>2, <1>3, <1>4, <1>6 DEF q

\* Behind its signatures a message is what decrypt() and get_content() work on.
LEMMA UnsignedFacts ==
    ASSUME NEW m, Shape(m)
    PROVE  \E i \in 1..Len(m) :
              /\ Unsigned(m) = Suffix(m, i) /\ Unsigned(m)[1] = m[i]
              /\ m[i].t # "Signed" /\ \A n \in 1..(i - 1) : m[n].t = "Signed"
<1> DEFINE T == { j \in 1..Len(m) : m[j].t # "Signed" }
           P(j) == m[j].t # "Signed" /\ \A n \in 1..(j - 1) : m[n].t = "Signed"
           i == CHOOSE j \in 1..Len(m) : P(j)
<1>1. Len(m) \in Nat /\ Len(m) >= 1 /\ Len(m) \in T
  <2>1. Len(m) \in Nat /\ Len(m) >= 1
    BY IsSeqLen DEF Shape
  <2>2. Len(m) \in 1..Len(m)
    BY <2>1
  <2>3. m[Len(m)].t = "Literal"
    BY <2>2, LayerTags
  <2>4. QED
    BY <2>1, <2>2, <2>3
<1>2. PICK j \in T : \A n \in T : j <= n
  <2>1. T \in SUBSET Nat /\ T # {}
    BY <1>1
  <2> HIDE DEF T
  <2>2. QED
    BY <2>1, Least
<1>3. j \in 1..Len(m) /\ P(j)
  <2>1. ASSUME NEW n \in 1..(j - 1) PROVE m[n].t = "Signed"
    <3>1. n \in 1..Len(m) /\ ~(j <= n)
      BY <1>1, <1>2
    <3>2. QED
      BY <1>2, <3>1
  <2>2. QED
    BY <1>2, <2>1
<1>4. i \in 1..Len(m) /\ P(i)
  <2> HIDE DEF P
  <2>1. QED
    BY <1>3
<1>5. Unsigned(m) = Suffix(m, i)
  BY DEF Unsigned, Suffix
<1>6. Suffix(m, i)[1] = m[i]
  <2> HIDE DEF i
  <2>1. 1 \in 1..(Len(m) - i + 1) /\ i + 1 - 1 = i
    BY <1>1, <1>4
  <2>2. QED
    BY <1>4, <2>1, ShapeSuffix
<1>7. QED
  <2> HIDE DEF i
  <2>1. QED
    BY <1>4, <1>5, <1>6

-----------------------------------------------------------------------------
(* A layer replaced, and a layer taken out.                                *)

Replaced(m, i, e) == [m EXCEPT ![i] = e]

\* A sequence with one element replaced.
LEMMA ReplacedSeq ==
    ASSUME NEW m, IsSeq(m), NEW i \in 1..Len(m), NEW x
    PROVE  /\ IsSeq(Replaced(m, i, x)) /\ Len(Replaced(m, i, x)) = Len(m)
           /\ Replaced(m, i, x)[i] = x
           /\ \A j \in 1..Len(m) : j # i => Replaced(m, i, x)[j] = m[j]
<1> DEFINE S == Range(m) \cup {x}
           q == Replaced(m, i, x)
<1>1. Len(m) \in Nat /\ m \in [1..Len(m) -> Range(m)] /\ DOMAIN m = 1..Len(m)
  BY LenProperties DEF IsSeq
<1>2. DOMAIN q = 1..Len(m) /\ q[i] = x /\ \A j \in 1..Len(m) : j # i => q[j] = m[j]
  BY <1>1 DEF Replaced
<1>3. q \in [1..Len(m) -> S]
  BY <1>1 DEF Replaced
<1> HIDE DEF q, S
<1>4. q \in Seq(S)
  BY <1>1, <1>3
<1>5. Len(q) = Len(m)
  BY <1>1, <1>2, <1>4, LenProperties
<1>6. IsSeq(q)
  BY <1>4, IsSeqIntro
<1>7. QED
  BY <1>2, <1>5, <1>6 DEF q

\* Two sequences that agree from a position on have the same suffix there.
LEMMA SameSuffix ==
    ASSUME NEW m, NEW q, IsSeq(m), IsSeq(q),
           NEW i \in 1..(Len(m) + 1), NEW k \in 1..(Len(q) + 1), Len(m) - i = Len(q) - k,
           \A j \in 1..(Len(m) - i + 1) : q[k + j - 1] = m[i + j - 1]
    PROVE  Suffix(q, k) = Suffix(m, i)
<1>1. Len(m) \in Nat /\ Len(q) \in Nat
  BY IsSeqLen
<1>2. /\ IsSeq(Suffix(m, i)) /\ Len(Suffix(m, i)) = Len(m) - i + 1
      /\ \A j \in 1..(Len(m) - i + 1) : Suffix(m, i)[j] = m[i + j - 1]
  BY SuffixSeq
<1>3. /\ IsSeq(Suffix(q, k)) /\ Len(Suffix(q, k)) = Len(q) - k + 1
      /\ \A j \in 1..(Len(q) - k + 1) : Suffix(q, k)[j] = q[k + j - 1]
  BY SuffixSeq
<1>4. Len(q) - k + 1 = Len(m) - i + 1
  BY <1>1
<1>5. \A j \in 1..(Len(m) - i + 1) : Suffix(q, k)[j] = Suffix(m, i)[j]
  BY <1>2, <1>3, <1>4
<1>6. QED
  BY <1>2, <1>3, <1>4, <1>5, SameSeq

\* A sequence without one element.
LEMMA WithoutSeq ==
    ASSUME NEW m, IsSeq(m), NEW i \in 1..Len(m)
    PROVE  /\ IsSeq(Without(m, i)) /\ Len(Without(m, i)) = Len(m) - 1
           /\ \A j \in 1..(Len(m) - 1) : Without(m, i)[j] = IF j < i THEN m[j] ELSE m[j + 1]
<1> DEFINE a == SubSeq(m, 1, i - 1)
           b == SubSeq(m, i + 1, Len(m))
           q == a \o b
           S == Range(m)
<1>1. Len(m) \in Nat /\ DOMAIN m = 1..Len(m) /\ \A j \in 1..Len(m) : m[j] \in S
  <2>1. Len(m) \in Nat /\ DOMAIN m = 1..Len(m)
    BY IsSeqLen
  <2>2. QED
    BY <2>1 DEF Range
<1>2. i - 1 \in Int /\ 1 \in Int /\ i + 1 \in Int /\ Len(m) \in Int
  BY <1>1
<1> HIDE DEF S
<1>3. /\ a \in Seq(S) /\ Len(a) = IF 1 <= i - 1 THEN (i - 1) - 1 + 1 ELSE 0
      /\ \A j \in 1..((i - 1) - 1 + 1) : a[j] = m[1 + j - 1]
  <2>1. \A j \in 1..(i - 1) : m[j] \in S
    BY <1>1
  <2>2. QED
    BY <2>1, <1>2, SubSeqProperties
<1>4. /\ b \in Seq(S) /\ Len(b) = IF i + 1 <= Len(m) THEN Len(m) - (i + 1) + 1 ELSE 0
      /\ \A j \in 1..(Len(m) - (i + 1) + 1) : b[j] = m[(i + 1) + j - 1]
  <2>1. \A j \in (i + 1)..Len(m) : m[j] \in S
    BY <1>1
  <2>2. QED
    BY <2>1, <1>2, SubSeqProperties
<1> HIDE DEF a, b
<1>5. Len(a) = i - 1 /\ Len(b) = Len(m) - i
  <2>1. i \in Int /\ 1 <= i /\ i <= Len(m) /\ Len(m) \in Int
    BY <1>1
  <2>2. Len(a) = i - 1
    <3>1. Len(a) = IF 1 <= i - 1 THEN (i - 1) - 1 + 1 ELSE 0
      BY <1>3
    <3>2. QED
      BY <2>1, <3>1
  <2>3. Len(b) = Len(m) - i
    <3>1. Len(b) = IF i + 1 <= Len(m) THEN Len(m) - (i + 1) + 1 ELSE 0
      BY <1>4
    <3>2. QED
      BY <2>1, <3>1
  <2>4. QED
    BY <2>2, <2>3
<1>6. /\ q \in Seq(S) /\ Len(q) = Len(a) + Len(b)
      /\ \A j \in 1..(Len(a) + Len(b)) : q[j] = IF j <= Len(a) THEN a[j] ELSE b[j - Len(a)]
  BY <1>3, <1>4, ConcatProperties
<1> HIDE DEF q
<1>7. Len(q) = Len(m) - 1
  BY <1>1, <1>5, <1>6
<1>8. ASSUME NEW j \in 1..(Len(m) - 1)
      PROVE  q[j] = IF j < i THEN m[j] ELSE m[j + 1]
  <2>1. q[j] = IF j <= Len(a) THEN a[j] ELSE b[j - Len(a)]
    BY <1>1, <1>5, <1>6
  <2>2. CASE j < i
    <3>1. j <= Len(a) /\ j \in 1..((i - 1) - 1 + 1) /\ 1 + j - 1 = j
      BY <1>1, <1>5, <2>2
    <3>2. a[j] = m[j]
      BY <3>1, <1>3
    <3>3. QED
      BY <2>1, <2>2, <3>1, <3>2
  <2>3. CASE ~(j < i)
    <3>1. ~(j <= Len(a)) /\ j - Len(a) \in 1..(Len(m) - (i + 1) + 1) /\ (i + 1) + (j - Len(a)) - 1 = j + 1
      BY <1>1, <1>5, <2>3
    <3>2. b[j - Len(a)] = m[(i + 1) + (j - Len(a)) - 1]
      BY <3>1, <1>4
    <3>3. QED
      BY <2>1, <2>3, <3>1, <3>2
  <2>4. QED
    BY <2>2, <2>3
<1>9. IsSeq(q)
  BY <1>6, IsSeqIntro
<1>10. q = Without(m, i)
  BY DEF q, a, b, Without
<1>11. QED
  BY <1>7, <1>8, <1>9, <1>10

\* Damage to one layer behind signatures leaves what that layer encloses.
LEMMA ReplaceKeeps ==
    ASSUME NEW m, Shape(m), NEW sg, Genuine(m, sg), NEW i \in 1..Len(m), NEW x,
           i = Len(m) => x \in Literal /\ x.mode = m[Len(m)].mode,
           i # Len(m) => x \in Encrypted,
           \A n \in 1..(i - 1) : m[n].t = "Signed"
    PROVE  LET q == Replaced(m, i, x) IN
           /\ Shape(q) /\ q[Len(q)].mode = m[Len(m)].mode
           /\ Genuine(q, sg) /\ Enclosed(q, m)
<1> DEFINE q == Replaced(m, i, x)
<1>1. IsSeq(m) /\ Len(m) \in Nat /\ Len(m) >= 1
  BY IsSeqLen DEF Shape
<1>2. /\ IsSeq(q) /\ Len(q) = Len(m) /\ q[i] = x
      /\ \A j \in 1..Len(m) : j # i => q[j] = m[j]
  BY <1>1, ReplacedSeq
<1> HIDE DEF q
<1>3. q[Len(m)] \in Literal /\ q[Len(m)].mode = m[Len(m)].mode
  <2>1. CASE i = Len(m)
    BY <1>2, <2>1
  <2>2. CASE i # Len(m)
    <3>1. Len(m) \in 1..Len(m)
      BY <1>1
    <3>2. QED
      BY <1>2, <2>2, <3>1 DEF Shape
  <2>3. QED
    BY <2>1, <2>2
<1>4. ASSUME NEW j \in 1..(Len(m) - 1)
      PROVE  Outer(q[j])
  <2>1. j \in 1..Len(m) /\ j # Len(m)
    BY <1>1
  <2>2. CASE j = i
    BY <1>2, <2>1, <2>2 DEF Outer
  <2>3. CASE j # i
    BY <1>2, <2>1, <2>3 DEF Shape
  <2>4. QED
    BY <2>2, <2>3
<1>5. Shape(q)
  BY <1>1, <1>2, <1>3, <1>4 DEF Shape
<1>6. x.t # "Signed"
  BY DEF Literal, Encrypted
<1>7. Genuine(q, sg)
  BY <1>2, <1>6 DEF Genuine
<1>8. ASSUME NEW j \in 1..Len(m), q[j].t = "Encrypted"
      PROVE  \E n \in 1..Len(m) : Suffix(q, j + 1) = Suffix(m, n)
  <2>1. j # Len(m)
    BY <1>2, <1>5, <1>8, LayerTags
  <2>2. ~(j < i)
    <3>1. SUFFICES ASSUME j < i PROVE FALSE
      OBVIOUS
    <3>2. j \in 1..(i - 1) /\ j # i
      BY <1>1, <3>1
    <3>3. QED
      BY <1>2, <1>8, <3>2
  <2>3. j + 1 \in 1..Len(m) /\ j + 1 \in 1..(Len(m) + 1) /\ j + 1 \in 1..(Len(q) + 1) /\ Len(m) - (j + 1) = Len(q) - (j + 1)
    BY <1>1, <1>2, <2>1
  <2>4. ASSUME NEW n \in 1..(Len(m) - (j + 1) + 1)
        PROVE  q[(j + 1) + n - 1] = m[(j + 1) + n - 1]
    <3>1. (j + 1) + n - 1 \in 1..Len(m) /\ (j + 1) + n - 1 # i
      BY <1>1, <2>2
    <3>2. QED
      BY <1>2, <3>1
  <2>5. Suffix(q, j + 1) = Suffix(m, j + 1)
    BY <1>1, <1>2, <2>3, <2>4, SameSuffix
  <2>6. QED
    BY <2>3, <2>5
<1>9. Enclosed(q, m)
  BY <1>2, <1>8 DEF Enclosed
<1>10. QED
  BY <1>2, <1>3, <1>5, <1>7, <1>9 DEF q

\* A signature inside another taken out leaves what encrypted data encloses.
LEMMA WithoutKeeps ==
    ASSUME NEW m, Shape(m), NEW sg, Genuine(m, sg), NEW core \in 1..Len(m),
           \A n \in 1..(core - 1) : m[n].t = "Signed", NEW i \in 2..(core - 1)
    PROVE  LET q == Without(m, i) IN
           /\ Shape(q) /\ q[Len(q)].mode = m[Len(m)].mode
           /\ Genuine(q, sg) /\ Enclosed(q, m)
<1> DEFINE q == Without(m, i)
<1>1. IsSeq(m) /\ Len(m) \in Nat /\ Len(m) >= 1 /\ i \in 1..Len(m) /\ i < Len(m)
  <2>1. IsSeq(m) /\ Len(m) \in Nat
    BY IsSeqLen DEF Shape
  <2>2. QED
    BY <2>1
<1>2. /\ IsSeq(q) /\ Len(q) = Len(m) - 1
      /\ \A j \in 1..(Len(m) - 1) : q[j] = IF j < i THEN m[j] ELSE m[j + 1]
  BY <1>1, WithoutSeq
<1> HIDE DEF q
<1>3. Len(q) >= 1 /\ q[Len(q)] = m[Len(m)]
  <2>1. Len(m) - 1 \in 1..(Len(m) - 1) /\ ~(Len(m) - 1 < i) /\ (Len(m) - 1) + 1 = Len(m)
    BY <1>1
  <2>2. QED
    BY <1>1, <1>2, <2>1
<1>4. ASSUME NEW j \in 1..Len(q)
      PROVE  \E n \in 1..Len(m) : q[j] = m[n] /\ (j < Len(q) => n < Len(m))
  <2>1. j \in 1..(Len(m) - 1) /\ j \in 1..Len(m) /\ j + 1 \in 1..Len(m)
    BY <1>1, <1>2
  <2>2. CASE j < i
    <3>1. q[j] = m[j] /\ j < Len(m)
      BY <1>1, <1>2, <2>1, <2>2
    <3>2. QED
      BY <2>1, <3>1
  <2>3. CASE ~(j < i)
    <3>1. q[j] = m[j + 1] /\ (j < Len(q) => j + 1 < Len(m))
      BY <1>1, <1>2, <2>1, <2>3
    <3>2. QED
      BY <2>1, <3>1
  <2>4. QED
    BY <2>2, <2>3
<1>5. Shape(q)
  <2>1. ASSUME NEW j \in 1..(Len(q) - 1)
        PROVE  Outer(q[j])
    <3>1. j \in 1..Len(q) /\ j < Len(q)
      BY <1>1, <1>2
    <3>2. PICK n \in 1..Len(m) : q[j] = m[n] /\ n < Len(m)
      BY <1>4, <3>1
    <3>3. n \in 1..(Len(m) - 1)
      BY <1>1, <3>2
    <3>4. QED
      BY <3>2, <3>3 DEF Shape
  <2>2. QED
    BY <1>2, <1>3, <2>1 DEF Shape
<1>6. Genuine(q, sg)
  <2>1. ASSUME NEW j \in 1..Len(q), q[j].t = "Signed"
        PROVE  \E s \in sg : q[j] = SignedLayer(s.msg, s.by)
    <3>1. PICK n \in 1..Len(m) : q[j] = m[n]
      BY <1>4
    <3>2. QED
      BY <2>1, <3>1 DEF Genuine
  <2>2. QED
    BY <2>1 DEF Genuine
<1>7. ASSUME NEW j \in 1..Len(q), q[j].t = "Encrypted"
      PROVE  \E n \in 1..Len(m) : Suffix(q, j + 1) = Suffix(m, n)
  <2>1. j # Len(q)
    BY <1>5, <1>7, LayerTags
  <2>2. ~(j < i)
    <3>1. SUFFICES ASSUME j < i PROVE FALSE
      OBVIOUS
    <3>2. j \in 1..(core - 1) /\ j \in 1..(Len(m) - 1)
      BY <1>1, <1>2, <3>1
    <3>3. q[j] = m[j]
      BY <1>2, <3>1, <3>2
    <3>4. QED
      BY <1>7, <3>2, <3>3
  <2>3. /\ j + 2 \in 1..Len(m) /\ j + 2 \in 1..(Len(m) + 1) /\ j + 1 \in 1..(Len(q) + 1)
        /\ Len(m) - (j + 2) = Len(q) - (j + 1)
    <3>1. j \in Int /\ 1 <= j /\ j <= Len(m) - 1 /\ j # Len(m) - 1 /\ Len(q) = Len(m) - 1
      BY <1>1, <1>2, <2>1
    <3>2. QED
      BY <1>1, <3>1
  <2>4. ASSUME NEW n \in 1..(Len(m) - (j + 2) + 1)
        PROVE  q[(j + 1) + n - 1] = m[(j + 2) + n - 1]
    <3>1. (j + 1) + n - 1 \in 1..(Len(m) - 1) /\ ~((j + 1) + n - 1 < i) /\ ((j + 1) + n - 1) + 1 = (j + 2) + n - 1
      BY <1>1, <2>2
    <3>2. q[(j + 1) + n - 1] = m[((j + 1) + n - 1) + 1]
      BY <1>2, <3>1
    <3>3. QED
      BY <3>1, <3>2
  <2>5. Suffix(q, j + 1) = Suffix(m, j + 2)
    <3> DEFINE a == j + 2
               b == j + 1
    <3>1. /\ a \in 1..(Len(m) + 1) /\ b \in 1..(Len(q) + 1) /\ Len(m) - a = Len(q) - b
          /\ \A n \in 1..(Len(m) - a + 1) : q[b + n - 1] = m[a + n - 1]
      BY <2>3, <2>4
    <3> HIDE DEF a, b
    <3>2. Suffix(q, b) = Suffix(m, a)
      BY <1>1, <1>2, <3>1, SameSuffix
    <3>3. QED
      BY <3>2 DEF a, b
  <2>6. QED
    BY <2>3, <2>5
<1>8. Enclosed(q, m)
  BY <1>7 DEF Enclosed
<1>9. QED
  BY <1>3, <1>5, <1>6, <1>8 DEF q

\* Damaged encrypted data are encrypted data, with packets that are packets.
LEMMA DamagedEncryptedType ==
    ASSUME NEW e \in Encrypted, NEW x \in DamagedEncrypted(e)
    PROVE  x \in Encrypted
<1>1. /\ e.esk \in Seq(Esk) /\ e.key \in Int /\ e.alg \in Algs
      /\ e.kind \in {"SED", "V1", "V2"} /\ e.extra \in BOOLEAN
      /\ e.state \in {"whole", "flipped", "cut", "stub"}
  BY DEF Encrypted
<1>2. ASSUME NEW d \in {"flipped", "cut", "stub"}, x = [e EXCEPT !.state = d]
      PROVE  x \in Encrypted
  BY <1>2 DEF Encrypted
<1>3. ASSUME NEW k \in Seq(Esk), x = [e EXCEPT !.esk = k]
      PROVE  x \in Encrypted
  BY <1>3 DEF Encrypted
<1>4. ASSUME NEW i \in 1..Len(e.esk), x = [e EXCEPT !.esk = Without(@, i)]
      PROVE  x \in Encrypted
  <2>1. Len(e.esk) \in Nat /\ e.esk \in [1..Len(e.esk) -> Esk]
    BY <1>1, LenProperties
  <2>2. SubSeq(e.esk, 1, i - 1) \in Seq(Esk) /\ SubSeq(e.esk, i + 1, Len(e.esk)) \in Seq(Esk)
    <3>1. \A j \in 1..(i - 1) : e.esk[j] \in Esk
      BY <2>1
    <3>2. \A j \in (i + 1)..Len(e.esk) : e.esk[j] \in Esk
      BY <2>1
    <3>3. 1 \in Int /\ i - 1 \in Int /\ i + 1 \in Int /\ Len(e.esk) \in Int
      BY <2>1
    <3>4. QED
      BY <3>1, <3>2, <3>3, SubSeqProperties
  <2>3. Without(e.esk, i) \in Seq(Esk)
    BY <2>2, ConcatProperties DEF Without
  <2>4. x = [e EXCEPT !.esk = Without(e.esk, i)]
    BY <1>4
  <2>5. QED
    BY <1>3, <2>3, <2>4
<1>5. ASSUME NEW i \in 1..Len(e.esk), NEW p \in Esk, x = [e EXCEPT !.esk = [e.esk EXCEPT ![i] = p]]
      PROVE  x \in Encrypted
  <2>1. Len(e.esk) \in Nat /\ e.esk \in [1..Len(e.esk) -> Esk]
    BY <1>1, LenProperties
  <2>2. [e.esk EXCEPT ![i] = p] \in [1..Len(e.esk) -> Esk]
    BY <2>1
  <2>3. [e.esk EXCEPT ![i] = p] \in Seq(Esk)
    BY <2>1, <2>2
  <2>4. QED
    BY <1>3, <1>5, <2>3
<1>6. ASSUME NEW i \in 1..Len(e.esk) PROVE e.esk[i] \in Esk
  BY <1>1, ElementOfSeq
<1>7. ASSUME NEW i \in 1..Len(e.esk), x = [e EXCEPT !.esk[i].key = -1]
      PROVE  x \in Encrypted
  <2>1. [e.esk[i] EXCEPT !.key = -1] \in Esk
    BY <1>6 DEF Esk
  <2>2. x = [e EXCEPT !.esk = [e.esk EXCEPT ![i] = [e.esk[i] EXCEPT !.key = -1]]]
    BY <1>7
  <2>3. QED
    BY <1>5, <2>1, <2>2
<1>8. ASSUME NEW i \in 1..Len(e.esk), e.esk[i].e = "pk", x = [e EXCEPT !.esk[i].ok = FALSE]
      PROVE  x \in Encrypted
  <2>1. [e.esk[i] EXCEPT !.ok = FALSE] \in Esk
    BY <1>6, <1>8 DEF Esk
  <2>2. x = [e EXCEPT !.esk = [e.esk EXCEPT ![i] = [e.esk[i] EXCEPT !.ok = FALSE]]]
    BY <1>8
  <2>3. QED
    BY <1>5, <2>1, <2>2
<1>9. QED
  BY <1>2, <1>4, <1>7, <1>8 DEF DamagedEncrypted

\* Whatever happens to a message on the way: it is a message, its signatures
\* are ones that were made, and what is inside encrypted data is untouched.
LEMMA DamagedFacts ==
    ASSUME NEW m, Shape(m), NEW sg, Genuine(m, sg), NEW d \in Damaged(m)
    PROVE  /\ Shape(d) /\ d[Len(d)].mode = m[Len(m)].mode
           /\ Genuine(d, sg) /\ Enclosed(d, m)
<1>1. PICK i \in 1..Len(m) :
         /\ Unsigned(m) = Suffix(m, i)
         /\ m[i].t # "Signed" /\ \A n \in 1..(i - 1) : m[n].t = "Signed"
  BY UnsignedFacts
<1>2. Len(m) \in Nat /\ Len(m) \in 1..Len(m)
  BY IsSeqLen DEF Shape
<1>3. Len(m) - Len(Unsigned(m)) + 1 = i
  <2>1. Len(Suffix(m, i)) = Len(m) - i + 1
    BY ShapeSuffix
  <2>2. QED
    BY <1>1, <1>2, <2>1
<1>4. \/ m[i].t = "Literal" /\ d = Changed(m)
      \/ m[i].t = "Literal" /\ \E e \in Endings : d = [m EXCEPT ![i].le = e]
      \/ m[i].t = "Encrypted" /\ \E e \in DamagedEncrypted(m[i]) : d = [m EXCEPT ![i] = e]
      \/ \E n \in 2..(i - 1) : d = Without(m, n)
  BY <1>3 DEF Damaged
<1>5. CASE m[i].t = "Literal" /\ d = Changed(m)
  <2> DEFINE x == [m[i] EXCEPT !.data = "changed"]
  <2>1. i = Len(m)
    BY <1>5, LayerTags
  <2>2. m[i] \in Literal
    BY <2>1 DEF Shape
  <2>3. x \in Literal /\ x.mode = m[i].mode
    BY <2>2 DEF Literal
  <2>4. d = Replaced(m, i, x)
    BY <1>5, <2>1 DEF Changed, Replaced
  <2> HIDE DEF x
  <2>5. QED
    BY <1>1, <2>1, <2>3, <2>4, ReplaceKeeps
<1>6. CASE m[i].t = "Literal" /\ \E e \in Endings : d = [m EXCEPT ![i].le = e]
  <2>1. PICK e \in Endings : d = [m EXCEPT ![i].le = e]
    BY <1>6
  <2> DEFINE x == [m[i] EXCEPT !.le = e]
  <2>2. i = Len(m)
    BY <1>6, LayerTags
  <2>3. m[i] \in Literal
    BY <2>2 DEF Shape
  <2>4. x \in Literal /\ x.mode = m[i].mode
    BY <2>3 DEF Literal
  <2>5. d = Replaced(m, i, x)
    BY <2>1 DEF Replaced
  <2> HIDE DEF x
  <2>6. QED
    BY <1>1, <2>2, <2>4, <2>5, ReplaceKeeps
<1>7. CASE m[i].t = "Encrypted" /\ \E e \in DamagedEncrypted(m[i]) : d = [m EXCEPT ![i] = e]
  <2>1. PICK e \in DamagedEncrypted(m[i]) : d = [m EXCEPT ![i] = e]
    BY <1>7
  <2>2. i # Len(m) /\ m[i] \in Encrypted
    BY <1>7, LayerTags
  <2>3. e \in Encrypted
    BY <2>1, <2>2, DamagedEncryptedType
  <2>4. d = Replaced(m, i, e)
    BY <2>1 DEF Replaced
  <2>5. QED
    BY <1>1, <2>2, <2>3, <2>4, ReplaceKeeps
<1>8. CASE \E n \in 2..(i - 1) : d = Without(m, n)
  BY <1>1, <1>8, WithoutKeeps
<1>9. QED
  BY <1>4, <1>5, <1>6, <1>7, <1>8

-----------------------------------------------------------------------------
(* The inductive invariant.                                                *)

\* Sign, Compress, the encryptions and a foreign layer: one layer more.
LEMMA AddKeeps ==
    ASSUME MInv, phase = "sending", UNCHANGED <<phase, sent, intact, opened>>,
           NEW l, Outer(l), msg' = <<l>> \o msg, LayerOriginal(l, msg),
           l.t = "Signed" => \E s \in signed' : l = SignedLayer(s.msg, s.by),
           signed \subseteq signed', \A s \in signed' : s \in signed \/ s.msg = msg
    PROVE  MInv'
<1>1. Shape(msg) /\ Len(msg) \in Nat /\ Len(msg) >= 1 /\ IsSeq(msg)
  BY IsSeqLen DEF MInv, Shape
<1>2. /\ Shape(msg') /\ Len(msg') = Len(msg) + 1
      /\ msg'[1] = l /\ msg'[Len(msg')] = msg[Len(msg)]
      /\ \A j \in 1..Len(msg) : msg'[j + 1] = msg[j]
      /\ \A j \in 1..(Len(msg) + 1) : Suffix(msg', j + 1) = Suffix(msg, j)
  <2> DEFINE q == Prepended(l, msg)
  <2>1. msg' = q
    BY DEF Prepended
  <2>2. /\ Shape(q) /\ Len(q) = Len(msg) + 1
        /\ q[1] = l /\ q[Len(q)] = msg[Len(msg)]
        /\ \A j \in 1..Len(msg) : q[j + 1] = msg[j]
        /\ \A j \in 1..(Len(msg) + 1) : Suffix(q, j + 1) = Suffix(msg, j)
    BY <1>1, ShapePrepend
  <2> HIDE DEF q
  <2>3. QED
    BY <2>1, <2>2
<1>3. ASSUME NEW j \in 1..Len(msg'), j # 1
      PROVE  j - 1 \in 1..Len(msg) /\ msg'[j] = msg[j - 1] /\ Suffix(msg', j + 1) = Suffix(msg, (j - 1) + 1)
  <2>1. j - 1 \in 1..Len(msg) /\ (j - 1) + 1 = j /\ j \in 1..(Len(msg) + 1)
    BY <1>1, <1>2, <1>3
  <2>2. msg'[(j - 1) + 1] = msg[j - 1] /\ Suffix(msg', j + 1) = Suffix(msg, j)
    BY <1>2, <2>1
  <2>3. QED
    BY <2>1, <2>2
<1>4. Genuine(msg', signed')
  <2>1. ASSUME NEW j \in 1..Len(msg'), msg'[j].t = "Signed"
        PROVE  \E s \in signed' : msg'[j] = SignedLayer(s.msg, s.by)
    <3>1. CASE j = 1
      BY <1>2, <2>1, <3>1
    <3>2. CASE j # 1
      BY <1>3, <2>1, <3>2 DEF MInv, Genuine
    <3>3. QED
      BY <3>1, <3>2
  <2>2. QED
    BY <2>1 DEF Genuine
<1>5. \A s \in signed' : Shape(s.msg) /\ s.msg[Len(s.msg)].mode = msg'[Len(msg')].mode
  BY <1>1, <1>2 DEF MInv
<1>6. Original(msg')
  <2>1. ASSUME NEW j \in 1..Len(msg')
        PROVE  LayerOriginal(msg'[j], Suffix(msg', j + 1))
    <3>1. CASE j = 1
      <4>1. Suffix(msg', 2) = msg
        <5>1. Suffix(msg', 1 + 1) = Suffix(msg, 1)
          BY <1>1, <1>2
        <5>2. QED
          BY <1>1, <5>1, SuffixAll
      <4>2. QED
        BY <1>2, <3>1, <4>1
    <3>2. CASE j # 1
      <4>1. Original(msg)
        BY DEF MInv
      <4>2. QED
        BY <1>3, <3>2, <4>1 DEF Original
    <3>3. QED
      BY <3>1, <3>2
  <2>2. QED
    BY <2>1 DEF Original
<1>7. phase' = "sending" /\ intact' = TRUE /\ opened' = FALSE
  BY DEF MInv
<1>8. QED
  BY <1>2, <1>4, <1>5, <1>6, <1>7 DEF MInv

\* Decrypt, DecryptWithPassword and Decompress: what is inside a layer, or
\* the message as it was.
LEMMA SuffixKeeps ==
    ASSUME MInv, phase = "receiving", UNCHANGED <<phase, sent, intact, signed>>,
           NEW i \in 1..Len(msg), msg' = Suffix(msg, i), opened' \in BOOLEAN,
           opened' => opened \/ \E j \in 1..Len(sent) : msg' = Suffix(sent, j)
    PROVE  MInv'
<1>1. Shape(msg) /\ Len(msg) \in Nat /\ Shape(sent) /\ Len(sent) \in Nat /\ IsSeq(sent)
  BY IsSeqLen DEF MInv, Shape
<1>2. /\ Shape(msg') /\ Len(msg') = Len(msg) - i + 1
      /\ msg'[Len(msg')] = msg[Len(msg)]
      /\ \A j \in 1..(Len(msg) - i + 1) : msg'[j] = msg[i + j - 1]
      /\ \A j \in 1..(Len(msg) - i + 1) : Suffix(msg', j + 1) = Suffix(msg, i + j)
  BY <1>1, ShapeSuffix
<1>3. ASSUME NEW j \in 1..Len(msg')
      PROVE  /\ i + j - 1 \in 1..Len(msg) /\ msg'[j] = msg[i + j - 1]
             /\ Suffix(msg', j + 1) = Suffix(msg, (i + j - 1) + 1)
  <2>1. i + j - 1 \in 1..Len(msg) /\ (i + j - 1) + 1 = i + j /\ j \in 1..(Len(msg) - i + 1)
    BY <1>1, <1>2
  <2>2. QED
    BY <1>2, <2>1
<1>4. Genuine(msg', signed')
  BY <1>3 DEF MInv, Genuine
<1>5. \A s \in signed' : Shape(s.msg) /\ s.msg[Len(s.msg)].mode = msg'[Len(msg')].mode
  BY <1>2 DEF MInv
<1>6. intact' => Original(msg')
  BY <1>3 DEF MInv, Original
<1>7. Enclosed(msg', sent')
  BY <1>3 DEF MInv, Enclosed
<1>8. opened' => \E j \in 1..Len(sent') : msg' = Suffix(sent', j)
  <2>1. CASE opened
    <3>1. PICK j \in 1..Len(sent) : msg = Suffix(sent, j)
      BY <2>1 DEF MInv
    <3>2. Len(msg) = Len(sent) - j + 1
      BY <1>1, <3>1, ShapeSuffix
    <3>3. j \in 1..(Len(sent) + 1) /\ i \in 1..(Len(sent) - j + 2) /\ j + i - 1 \in 1..Len(sent)
      BY <1>1, <3>2
    <3>4. Suffix(Suffix(sent, j), i) = Suffix(sent, j + i - 1)
      BY <1>1, <3>3, SuffixSuffix
    <3>5. QED
      BY <3>1, <3>3, <3>4
  <2>2. CASE ~opened
    BY <2>2
  <2>3. QED
    BY <2>1, <2>2
<1>9. /\ phase' = "receiving" /\ Shape(sent') /\ intact' \in BOOLEAN /\ opened' \in BOOLEAN
  BY <1>1 DEF MInv
<1>10. QED
  BY <1>2, <1>4, <1>5, <1>6, <1>7, <1>8, <1>9 DEF MInv

\* The message on its way, damaged or not.
LEMMA SendKeeps ==
    ASSUME MInv, NEW m \in {msg} \cup Damaged(msg), Send(m)
    PROVE  MInv'
<1>1. /\ phase = "sending" /\ phase' = "receiving" /\ sent' = msg /\ msg' = m /\ intact' = (m = msg)
      /\ opened' = opened /\ signed' = signed
  BY DEF Send
<1>2. Shape(msg) /\ Genuine(msg, signed) /\ Original(msg) /\ opened = FALSE /\ Len(msg) \in Nat
  <2>1. Shape(msg) /\ Genuine(msg, signed) /\ Original(msg) /\ opened = FALSE
    BY <1>1 DEF MInv
  <2>2. QED
    BY <2>1, IsSeqLen DEF Shape
<1>3. Enclosed(msg, msg)
  <2>1. ASSUME NEW j \in 1..Len(msg), msg[j].t = "Encrypted"
        PROVE  \E i \in 1..Len(msg) : Suffix(msg, j + 1) = Suffix(msg, i)
    <3>1. j # Len(msg)
      BY <1>2, <2>1, LayerTags
    <3>2. j + 1 \in 1..Len(msg)
      BY <1>2, <3>1
    <3>3. QED
      BY <3>2
  <2>2. QED
    BY <2>1 DEF Enclosed
<1>4. /\ Shape(m) /\ m[Len(m)].mode = msg[Len(msg)].mode
      /\ Genuine(m, signed) /\ Enclosed(m, msg)
  <2>1. CASE m = msg
    BY <1>2, <1>3, <2>1
  <2>2. CASE m \in Damaged(msg)
    BY <1>2, <2>2, DamagedFacts
  <2>3. QED
    BY <2>1, <2>2
<1>5. intact' => Original(msg')
  BY <1>1, <1>2
<1>6. \A s \in signed' : Shape(s.msg) /\ s.msg[Len(s.msg)].mode = msg'[Len(msg')].mode
  BY <1>1, <1>4 DEF MInv
<1>7. intact' \in BOOLEAN /\ opened' = FALSE
  BY <1>1, <1>2
<1>8. QED
  BY <1>1, <1>2, <1>4, <1>5, <1>6, <1>7 DEF MInv

\* Signing keeps the invariant.
LEMMA SignKeeps ==
    ASSUME MInv, NEW k \in Keys, NEW pw, Sign(k, pw)
    PROVE  MInv'
<1>1. phase = "sending" /\ UNCHANGED <<phase, sent, intact, opened>>
  BY DEF Sign, Sending
<1>2. CASE CanSign(k, pw)
  <2> DEFINE l == SignedLayer(msg, k)
             s == [by |-> k, msg |-> msg]
  <2>1. msg' = <<l>> \o msg /\ signed' = signed \cup {s}
    BY <1>2 DEF Sign, Adds
  <2>2. l.t = "Signed" /\ l.by = k
    BY DEF SignedLayer
  <2>3. s.msg = msg /\ s.by = k /\ s \in signed'
    BY <2>1
  <2>4. l = SignedLayer(s.msg, s.by)
    BY <2>3
  <2> HIDE DEF l
  <2>5. LayerOriginal(l, msg)
    <3>1. l = SignedLayer(msg, l.by)
      BY <2>2 DEF l
    <3>2. QED
      BY <2>2, <3>1 DEF LayerOriginal
  <2>6. Outer(l)
    BY <2>2 DEF Outer
  <2>7. \A r \in signed' : r \in signed \/ r.msg = msg
    BY <2>1, <2>3
  <2>8. signed \subseteq signed' /\ \E r \in signed' : l = SignedLayer(r.msg, r.by)
    BY <2>1, <2>3, <2>4
  <2>9. QED
    BY <1>1, <2>1, <2>5, <2>6, <2>7, <2>8, AddKeeps
<1>3. CASE ~CanSign(k, pw)
  <2>1. UNCHANGED <<phase, msg, sent, intact, opened, signed>>
    BY <1>1, <1>3 DEF Sign
  <2>2. QED
    BY <2>1 DEF MInv
<1>4. QED
  BY <1>2, <1>3

\* Compressing keeps the invariant.
LEMMA CompressKeeps ==
    ASSUME MInv, NEW alg \in {"ZIP", "BZip2"}, Compress(alg)
    PROVE  MInv'
<1>1. phase = "sending" /\ UNCHANGED <<phase, sent, intact, opened, signed>>
  BY DEF Compress, Sending
<1>2. CASE Decompressable(alg)
  <2> DEFINE l == CompressedLayer(alg)
  <2>1. msg' = <<l>> \o msg
    BY <1>2 DEF Compress, Adds
  <2>2. l.t = "Compressed" /\ l \in Compressed
    BY DEF CompressedLayer, Compressed
  <2> HIDE DEF l
  <2>3. Outer(l) /\ LayerOriginal(l, msg)
    BY <2>2 DEF Outer, LayerOriginal
  <2>4. QED
    BY <1>1, <2>1, <2>2, <2>3, AddKeeps
<1>3. CASE ~Decompressable(alg)
  <2>1. UNCHANGED <<phase, msg, sent, intact, opened, signed>>
    BY <1>1, <1>3 DEF Compress
  <2>2. QED
    BY <2>1 DEF MInv
<1>4. QED
  BY <1>2, <1>3

\* Encrypted data with packets that hold its key keep the invariant.
LEMMA EncryptKeeps ==
    ASSUME MInv, phase = "sending", UNCHANGED <<phase, sent, intact, opened, signed>>,
           NEW op, NEW alg \in {"AES", "Other", "Plaintext"}, NEW esk \in Seq(Esk),
           EncryptSymmetric(op, esk, alg),
           Len(esk) >= 1, \A i \in 1..Len(esk) : esk[i].key = Len(msg),
           alg = "AES" => Openable(EncryptedLayer(esk, "V1", alg, Len(msg)))
    PROVE  MInv'
<1>1. CASE BlockSize(alg) = 0
  <2>1. UNCHANGED <<phase, msg, sent, intact, opened, signed>>
    BY <1>1 DEF EncryptSymmetric
  <2>2. QED
    BY <2>1 DEF MInv
<1>2. CASE BlockSize(alg) # 0
  <2> DEFINE l == EncryptedLayer(esk, "V1", alg, Len(msg))
  <2>1. alg = "AES" /\ msg' = <<l>> \o msg
    BY <1>2 DEF BlockSize, EncryptSymmetric, Adds
  <2>2. Len(msg) \in Nat /\ Len(msg) \in Int
    <3>1. Len(msg) \in Nat
      BY IsSeqLen DEF MInv, Shape
    <3>2. QED
      BY <3>1
  <2>3. /\ l.t = "Encrypted" /\ l.state = "whole" /\ l.alg = "AES" /\ l.esk = esk
        /\ l.key = Len(msg) /\ l \in Encrypted
    BY <2>1, <2>2 DEF EncryptedLayer, Encrypted, Algs
  <2>4. Openable(l)
    BY <2>1
  <2> HIDE DEF l
  <2>5. LayerOriginal(l, msg)
    BY <2>3, <2>4 DEF LayerOriginal
  <2>6. Outer(l)
    BY <2>3 DEF Outer
  <2>7. QED
    BY <2>1, <2>3, <2>5, <2>6, AddKeeps
<1>3. QED
  BY <1>1, <1>2

\* Encrypting to keys keeps the invariant.
LEMMA EncryptToKeysKeeps ==
    ASSUME MInv, NEW ks \in Recipients, NEW alg \in {"AES", "Plaintext"}, EncryptToKeys(ks, alg)
    PROVE  MInv'
<1>1. phase = "sending" /\ UNCHANGED <<phase, sent, intact, opened, signed>>
  BY DEF EncryptToKeys, Sending
<1>2. ks \in Seq(Keys) /\ ks # <<>>
  BY KeysAssumption
<1>3. Len(ks) \in Nat /\ Len(ks) >= 1 /\ DOMAIN ks = 1..Len(ks) /\ \A i \in 1..Len(ks) : ks[i] \in Keys
  <2>1. Len(ks) \in Nat /\ DOMAIN ks = 1..Len(ks) /\ ks \in [1..Len(ks) -> Keys]
    BY <1>2, LenProperties
  <2>2. Len(ks) # 0
    BY <1>2, EmptySeq
  <2>3. QED
    BY <2>1, <2>2
<1>4. CASE \A k \in Range(ks) : CanEncrypt(k)
  <2> DEFINE esk == [i \in 1..Len(ks) |-> Pkesk(ks[i], alg, Len(msg))]
             l == EncryptedLayer(esk, "V1", alg, Len(msg))
  <2>1. EncryptSymmetric("encrypt", esk, alg)
    BY <1>4 DEF EncryptToKeys
  <2>2. Len(msg) \in Int
    <3>1. Len(msg) \in Nat
      BY IsSeqLen DEF MInv, Shape
    <3>2. QED
      BY <3>1
  <2>3. ASSUME NEW i \in 1..Len(ks)
        PROVE  /\ esk[i] \in Esk /\ esk[i].key = Len(msg) /\ esk[i].e = "pk" /\ esk[i].ok = TRUE
               /\ esk[i].id = ks[i] /\ esk[i].alg = alg
    BY <1>3, <2>2 DEF Pkesk, Esk, Algs, PkAlgs
  <2>4. esk \in Seq(Esk) /\ Len(esk) = Len(ks)
    <3>1. esk \in [1..Len(ks) -> Esk]
      BY <2>3
    <3>2. DOMAIN esk = 1..Len(ks)
      OBVIOUS
    <3> HIDE DEF esk
    <3>3. esk \in Seq(Esk)
      BY <1>3, <3>1
    <3>4. QED
      BY <1>3, <3>2, <3>3, LenProperties
  <2> HIDE DEF esk
  <2>5. l.esk = esk
    BY DEF EncryptedLayer
  <2> HIDE DEF l
  <2>6. alg = "AES" => Openable(l)
    <3>1. 1 \in 1..Len(ks) /\ 1 \in DOMAIN ks
      BY <1>3
    <3>2. ks[1] \in CryptKeys
      BY <1>4, <3>1 DEF CanEncrypt, Range
    <3>3. QED
      BY <1>3, <2>3, <2>4, <2>5, <3>1, <3>2 DEF Openable
  <2>7. \A i \in 1..Len(esk) : esk[i].key = Len(msg)
    BY <2>3, <2>4
  <2>8. QED
    BY <1>1, <1>3, <2>1, <2>4, <2>6, <2>7, EncryptKeeps DEF l
<1>5. CASE ~(\A k \in Range(ks) : CanEncrypt(k))
  <2>1. UNCHANGED <<phase, msg, sent, intact, opened, signed>>
    BY <1>1, <1>5 DEF EncryptToKeys
  <2>2. QED
    BY <2>1 DEF MInv
<1>6. QED
  BY <1>4, <1>5

\* Encrypting with a password keeps the invariant.
LEMMA EncryptWithPasswordKeeps ==
    ASSUME MInv, NEW pw \in Passwords, NEW salted, NEW alg \in {"AES", "Other", "Plaintext"},
           EncryptWithPassword(pw, salted, alg)
    PROVE  MInv'
<1>1. phase = "sending" /\ UNCHANGED <<phase, sent, intact, opened, signed>>
  BY DEF EncryptWithPassword, Sending
<1>2. CASE SkeskEncrypts(salted, alg)
  <2> DEFINE p == Skesk(4, pw, alg, FALSE, Len(msg))
             esk == <<p>>
             l == EncryptedLayer(esk, "V1", alg, Len(msg))
  <2>1. EncryptSymmetric("encrypt", esk, alg)
    BY <1>2 DEF EncryptWithPassword
  <2>2. Len(msg) \in Int
    <3>1. Len(msg) \in Nat
      BY IsSeqLen DEF MInv, Shape
    <3>2. QED
      BY <3>1
  <2>3. p \in Esk /\ p.key = Len(msg) /\ p.e = "pw" /\ p.v = 4 /\ p.direct = FALSE /\ p.alg = alg
    BY <2>2 DEF Skesk, Esk, Algs
  <2> HIDE DEF p
  <2>4. esk \in Seq(Esk) /\ Len(esk) = 1 /\ esk[1] = p
    BY <2>3
  <2> HIDE DEF esk
  <2>5. l.esk = esk
    BY DEF EncryptedLayer
  <2> HIDE DEF l
  <2>6. alg = "AES" => Openable(l)
    <3>1. Len(l.esk) = 1 /\ l.esk[1] = p
      BY <2>4, <2>5, Zenon
    <3>2. Len(l.esk) >= 1 /\ \A i \in 1..Len(l.esk) : i = 1
      BY <3>1
    <3>3. alg = "AES" => \A i \in 1..Len(l.esk) : l.esk[i].alg = "AES" /\ (l.esk[i].e = "pw" => l.esk[i].v = 4)
      BY <2>3, <3>1, <3>2
    <3>4. QED
      BY <2>3, <3>1, <3>2, <3>3 DEF Openable
  <2>7. \A i \in 1..Len(esk) : esk[i].key = Len(msg)
    BY <2>3, <2>4
  <2>8. QED
    <3>1. esk \in Seq(Esk) /\ Len(esk) >= 1
      BY <2>4
    <3>2. QED
      BY <1>1, <2>1, <2>6, <2>7, <3>1, EncryptKeeps DEF l
<1>3. CASE ~SkeskEncrypts(salted, alg)
  <2>1. UNCHANGED <<phase, msg, sent, intact, opened, signed>>
    BY <1>1, <1>3 DEF EncryptWithPassword
  <2>2. QED
    BY <2>1 DEF MInv
<1>4. QED
  BY <1>2, <1>3

\* A layer of another implementation keeps the invariant.
LEMMA AddForeignKeeps ==
    ASSUME MInv, NEW l \in Foreign, AddForeign(l)
    PROVE  MInv'
<1>1. /\ phase = "sending" /\ UNCHANGED <<phase, sent, intact, opened, signed>>
      /\ msg' = <<l>> \o msg
  BY DEF AddForeign, Sending, Adds
<1>2. CASE l \in Compressed
  <2>1. l.t = "Compressed"
    BY <1>2 DEF Compressed
  <2>2. Outer(l) /\ LayerOriginal(l, msg)
    BY <1>2, <2>1 DEF Outer, LayerOriginal
  <2>3. QED
    BY <1>1, <2>1, <2>2, AddKeeps
<1>3. CASE /\ l \in Encrypted /\ l.state = "whole" /\ l.alg = "AES" /\ l.key = 0
           /\ \A i \in 1..Len(l.esk) : l.esk[i].key = 0
  <2>1. l.t = "Encrypted"
    BY <1>3 DEF Encrypted
  <2>2. LayerOriginal(l, msg)
    <3>1. l.t # "Signed" /\ ~(l.key > 0)
      BY <1>3, <2>1
    <3>2. \A i \in 1..Len(l.esk) : l.esk[i].key = l.key
      BY <1>3
    <3>3. QED
      BY <1>3, <3>1, <3>2 DEF LayerOriginal
  <2>3. Outer(l)
    BY <1>3 DEF Outer
  <2>4. QED
    BY <1>1, <2>1, <2>2, <2>3, AddKeeps
<1>4. QED
  BY <1>2, <1>3, ForeignAssumption

\* Encrypted data give a plaintext only when they are whole and the session
\* key is theirs: the MDC of version 1 and the tags of version 2 see to it.
LEMMA EdataOk ==
    ASSUME NEW e \in Encrypted, NEW k, k.v \in {4, 5, 6}, EdataDecrypt(e, k) = "ok"
    PROVE  e.state = "whole" /\ k.key = e.key /\ e.kind \in {"V1", "V2"}
<1>1. e.kind \in {"SED", "V1", "V2"} /\ e.state \in {"whole", "flipped", "cut", "stub"}
  BY DEF Encrypted
<1>2. CASE e.kind = "SED"
  <2>1. EdataDecrypt(e, k) \in {"err", "panic"}
    BY <1>2 DEF EdataDecrypt, DecryptResync
  <2>2. QED
    BY <2>1
<1>3. CASE e.kind = "V1"
  <2>1. EdataDecrypt(e, k) \in {"err", "panic"} \/ EdataDecrypt(e, k) = DecryptProtected(e, k)
    BY <1>3 DEF EdataDecrypt
  <2>2. DecryptProtected(e, k) = "ok"
    BY <2>1
  <2>3. QED
    BY <1>1, <1>3, <2>2 DEF DecryptProtected, Decipherable
<1>4. CASE e.kind = "V2"
  <2>1. EdataDecrypt(e, k) \in {"err", "panic"} \/ EdataDecrypt(e, k) = DecryptChunks(e, k)
    BY <1>4 DEF EdataDecrypt
  <2>2. DecryptChunks(e, k) = "ok"
    BY <2>1
  <2>3. QED
    BY <1>1, <1>4, <2>2 DEF DecryptChunks
<1>5. QED
  BY <1>1, <1>2, <1>3, <1>4

\* What comes out of encrypted data is what is inside, and was sent.
LEMMA Opens ==
    ASSUME MInv, phase = "receiving", Unsigned(msg)[1].t = "Encrypted",
           NEW k, k.v \in {4, 5, 6}, EdataDecrypt(Unsigned(msg)[1], k) = "ok"
    PROVE  /\ \E i \in 1..Len(msg) : Plaintext(Unsigned(msg), k) = Suffix(msg, i)
           /\ \E j \in 1..Len(sent) : Plaintext(Unsigned(msg), k) = Suffix(sent, j)
<1>1. Shape(msg) /\ Enclosed(msg, sent)
  BY DEF MInv
<1>2. PICK i \in 1..Len(msg) : Unsigned(msg) = Suffix(msg, i) /\ Unsigned(msg)[1] = msg[i]
  BY <1>1, UnsignedFacts
<1>3. Len(msg) \in Nat /\ i # Len(msg) /\ msg[i] \in Encrypted
  BY <1>1, <1>2, LayerTags
<1>4. msg[i].state = "whole" /\ k.key = msg[i].key
  BY <1>2, <1>3, EdataOk
<1>5. Plaintext(Unsigned(msg), k) = Tail(Unsigned(msg))
  BY <1>2, <1>4 DEF Plaintext
<1>6. Tail(Unsigned(msg)) = Suffix(msg, i + 1)
  <2>1. IsSeq(Suffix(msg, i)) /\ Len(Suffix(msg, i)) >= 1
    BY <1>1, ShapeSuffix DEF Shape
  <2>2. Tail(Suffix(msg, i)) = Suffix(Suffix(msg, i), 2)
    BY <2>1, TailSuffix
  <2>3. 1 \in 1..(Len(msg) - i + 1)
    BY <1>3
  <2>4. Suffix(Suffix(msg, i), 1 + 1) = Suffix(msg, i + 1)
    BY <1>1, <2>3, ShapeSuffix
  <2>5. QED
    BY <1>2, <2>2, <2>4
<1>7. i + 1 \in 1..Len(msg)
  BY <1>3
<1>8. \E j \in 1..Len(sent) : Suffix(msg, i + 1) = Suffix(sent, j)
  BY <1>1, <1>2 DEF Enclosed
<1>9. QED
  BY <1>5, <1>6, <1>7, <1>8

\* A decryption that gives a part of the message, or nothing, keeps the
\* invariant.
LEMMA DecryptedKeeps ==
    ASSUME MInv, phase = "receiving", NEW op, NEW cs, NEW pw, NEW res, NEW ids, NEW m,
           Decrypted(op, cs, pw, res, ids, m),
           res = "ok" => /\ \E i \in 1..Len(msg) : m = Suffix(msg, i)
                         /\ \E j \in 1..Len(sent) : m = Suffix(sent, j)
    PROVE  MInv'
<1>1. /\ UNCHANGED <<phase, sent, intact, signed>> /\ opened' = (opened \/ res = "ok")
      /\ msg' = IF res = "ok" THEN m ELSE msg
  BY DEF Decrypted
<1>2. opened' \in BOOLEAN
  BY <1>1 DEF MInv
<1>3. IsSeq(msg) /\ Len(msg) \in Nat /\ 1 \in 1..Len(msg)
  BY IsSeqLen DEF MInv, Shape
<1>4. CASE res = "ok"
  <2>1. PICK i \in 1..Len(msg) : m = Suffix(msg, i)
    BY <1>4
  <2>2. msg' = Suffix(msg, i) /\ \E j \in 1..Len(sent) : msg' = Suffix(sent, j)
    BY <1>1, <1>4, <2>1
  <2>3. QED
    BY <1>1, <1>2, <2>2, SuffixKeeps
<1>5. CASE res # "ok"
  <2>1. msg' = Suffix(msg, 1) /\ opened' = opened
    BY <1>1, <1>3, <1>5, SuffixAll DEF MInv
  <2>2. QED
    BY <1>1, <1>2, <1>3, <2>1, SuffixKeeps
<1>6. QED
  BY <1>4, <1>5

\* Refused, or opened with a session key of version 4.
LEMMA DecryptOutcomeCases ==
    ASSUME NEW m, NEW cs, NEW pw
    PROVE  LET o == DecryptOutcome(m, cs, pw) IN
           \/ o.res = "missing" /\ o.ids = {}
           \/ o.res = "err" /\ o.ids = {}
           \/ /\ o.res = "panic" /\ o.ids = {}
              /\ \E p \in ValidKeys(m[1].esk, cs) : SessionKeyPanics(p, pw)
           \/ \E p \in SessionKeys(ValidKeys(m[1].esk, cs), pw) :
                /\ o.key = PlainSessionKey(4, p.alg, p.key) /\ o.res = EdataDecrypt(m[1], o.key)
                /\ Consistent(SessionKeys(ValidKeys(m[1].esk, cs), pw))
                /\ o.ids = IF o.res = "ok" THEN Reported(SessionKeys(ValidKeys(m[1].esk, cs), pw)) ELSE {}
<1> DEFINE valid == ValidKeys(m[1].esk, cs)
           opening == SessionKeys(valid, pw)
           first == CHOOSE p \in opening : TRUE
           key == PlainSessionKey(4, first.alg, first.key)
           res == EdataDecrypt(m[1], key)
           o == DecryptOutcome(m, cs, pw)
           no == PlainSessionKey(4, "Other", -1)
           ids == IF res = "ok" THEN Reported(opening) ELSE {}
<1>1. o = IF valid = {} THEN [res |-> "missing", ids |-> {}, key |-> no]
          ELSE IF \E p \in valid : SessionKeyPanics(p, pw) THEN [res |-> "panic", ids |-> {}, key |-> no]
          ELSE IF opening = {} \/ ~Consistent(opening) THEN [res |-> "err", ids |-> {}, key |-> no]
          ELSE [res |-> res, ids |-> ids, key |-> key]
  BY DEF DecryptOutcome
<1> HIDE DEF o
<1>2. CASE valid = {}
  BY <1>1, <1>2 DEF o
<1>3. CASE valid # {} /\ \E p \in valid : SessionKeyPanics(p, pw)
  <2>1. o.res = "panic" /\ o.ids = {}
    <3> HIDE DEF valid, no
    <3>1. QED
      BY <1>1, <1>3
  <2>2. QED
    BY <1>3, <2>1 DEF o
<1>4. CASE /\ valid # {} /\ ~(\E p \in valid : SessionKeyPanics(p, pw))
           /\ opening = {} \/ ~Consistent(opening)
  <2>1. o.res = "err" /\ o.ids = {}
    <3> HIDE DEF valid, opening, no
    <3>1. QED
      BY <1>1, <1>4
  <2>2. QED
    BY <2>1 DEF o
<1>5. CASE /\ valid # {} /\ ~(\E p \in valid : SessionKeyPanics(p, pw))
           /\ ~(opening = {} \/ ~Consistent(opening))
  <2>1. first \in opening
    <3> HIDE DEF opening
    <3>1. QED
      BY <1>5
  <2>2. o.res = res /\ o.ids = ids /\ o.key = key
    <3> HIDE DEF valid, opening, no, res, ids, key
    <3>1. QED
      BY <1>1, <1>5
  <2>3. Consistent(opening)
    BY <1>5
  <2> HIDE DEF first
  <2>4. QED
    BY <2>1, <2>2, <2>3 DEF o
<1>6. QED
  <2> HIDE DEF valid, opening
  <2>1. QED
    BY <1>2, <1>3, <1>4, <1>5

\* Decrypting with keys keeps the invariant.
LEMMA DecryptKeeps ==
    ASSUME MInv, NEW cs, NEW pw, Decrypt(cs, pw)
    PROVE  MInv'
<1> DEFINE m == Unsigned(msg)
           o == DecryptOutcome(m, cs, pw)
<1>1. phase = "receiving"
  BY DEF Decrypt, Receiving
<1>2. CASE m[1].t # "Encrypted"
  <2>1. Decrypted("decrypt", cs, pw, "err", {}, msg)
    BY <1>2 DEF Decrypt
  <2>2. QED
    BY <1>1, <2>1, DecryptedKeeps
<1>3. CASE m[1].t = "Encrypted"
  <2>1. Decrypted("decrypt", cs, pw, o.res, o.ids, Plaintext(m, o.key))
    BY <1>3 DEF Decrypt
  <2>2. ASSUME o.res = "ok" PROVE o.key.v \in {4, 5, 6} /\ EdataDecrypt(m[1], o.key) = "ok"
    <3> HIDE DEF m
    <3>1. PICK p : o.key = PlainSessionKey(4, p.alg, p.key) /\ o.res = EdataDecrypt(m[1], o.key)
      BY <2>2, DecryptOutcomeCases
    <3>2. QED
      BY <2>2, <3>1 DEF PlainSessionKey
  <2> DEFINE res == o.res
             ids == o.ids
             key == o.key
             t == Plaintext(m, key)
  <2>3. res = "ok" => /\ \E i \in 1..Len(msg) : t = Suffix(msg, i)
                      /\ \E j \in 1..Len(sent) : t = Suffix(sent, j)
    <3>1. SUFFICES ASSUME res = "ok"
                   PROVE /\ \E i \in 1..Len(msg) : t = Suffix(msg, i)
                         /\ \E j \in 1..Len(sent) : t = Suffix(sent, j)
      OBVIOUS
    <3>2. key.v \in {4, 5, 6} /\ EdataDecrypt(m[1], key) = "ok"
      BY <2>2, <3>1
    <3> HIDE DEF key
    <3>3. QED
      BY <1>1, <1>3, <3>2, Opens
  <2>4. Decrypted("decrypt", cs, pw, res, ids, t)
    BY <2>1
  <2> HIDE DEF res, ids, key, t
  <2>5. QED
    BY <1>1, <2>3, <2>4, DecryptedKeeps
<1>4. QED
  BY <1>2, <1>3

\* The versions of the session keys a password gives.
LEMMA PasswordKeyFacts ==
    ASSUME NEW e \in Encrypted, NEW m, m[1] = e, NEW pw, NEW k \in PasswordKeys(m, pw)
    PROVE  /\ k.v \in {4, 5, 6}
           /\ \E i \in 1..Len(e.esk) : e.esk[i].e = "pw" /\ (k.v # 4 => e.esk[i].v = k.v)
<1>1. PICK i \in 1..Len(e.esk) : e.esk[i].e = "pw" /\ k \in DecryptSessionKeyWithPassword(e.esk[i], pw)
  BY DEF PasswordKeys, FirstPasswordPacket
<1>2. e.esk[i] \in Esk
  <2>1. e.esk \in Seq(Esk)
    BY DEF Encrypted
  <2>2. QED
    BY <2>1, ElementOfSeq
<1>3. e.esk[i].v \in {4, 5, 6}
  BY <1>1, <1>2 DEF Esk
<1>4. k.v = 4 \/ k.v = e.esk[i].v
  BY <1>1 DEF DecryptSessionKeyWithPassword, SkeskDecrypt, PlainSessionKey
<1>5. QED
  BY <1>1, <1>3, <1>4

\* Decrypting with a password keeps the invariant.
LEMMA DecryptWithPasswordKeeps ==
    ASSUME MInv, NEW pw, DecryptWithPassword(pw)
    PROVE  MInv'
<1> DEFINE m == Unsigned(msg)
<1>1. phase = "receiving"
  BY DEF DecryptWithPassword, Receiving
<1>2. CASE Decrypted("password", <<>>, pw, "err", {}, msg)
  BY <1>1, <1>2, DecryptedKeeps
<1>3. CASE /\ m[1].t = "Encrypted"
           /\ \E k \in PasswordKeys(m, pw) :
                 Decrypted("password", <<>>, pw, EdataDecrypt(m[1], k), {}, Plaintext(m, k))
  <2>1. PICK k \in PasswordKeys(m, pw) :
           Decrypted("password", <<>>, pw, EdataDecrypt(m[1], k), {}, Plaintext(m, k))
    BY <1>3
  <2>2. Shape(msg)
    BY DEF MInv
  <2>3. m[1] \in Encrypted
    <3>1. PICK i \in 1..Len(msg) : m[1] = msg[i]
      BY <2>2, UnsignedFacts
    <3>2. QED
      BY <1>3, <2>2, <3>1, LayerTags
  <2>4. k.v \in {4, 5, 6}
    BY <2>3, PasswordKeyFacts
  <2> DEFINE res == EdataDecrypt(m[1], k)
             t == Plaintext(m, k)
  <2>5. res = "ok" => /\ \E i \in 1..Len(msg) : t = Suffix(msg, i)
                      /\ \E j \in 1..Len(sent) : t = Suffix(sent, j)
    BY <1>1, <1>3, <2>4, Opens
  <2>6. Decrypted("password", <<>>, pw, res, {}, t)
    BY <2>1
  <2> HIDE DEF res, t
  <2>7. QED
    BY <1>1, <2>5, <2>6, DecryptedKeeps
<1>4. QED
  BY <1>2, <1>3 DEF DecryptWithPassword

\* Decompressing keeps the invariant.
LEMMA DecompressKeeps ==
    ASSUME MInv, Decompress
    PROVE  MInv'
<1>1. phase = "receiving" /\ msg[1].t = "Compressed" /\ UNCHANGED <<phase, sent, intact, opened, signed>>
  BY DEF Decompress, Receiving
<1>2. Shape(msg) /\ IsSeq(msg) /\ Len(msg) \in Nat /\ Len(msg) >= 1 /\ 1 \in 1..Len(msg) /\ opened' \in BOOLEAN
  BY <1>1, IsSeqLen DEF MInv, Shape
<1>3. CASE msg' = Tail(msg)
  <2>1. 1 # Len(msg)
    BY <1>1, <1>2, LayerTags
  <2>2. 2 \in 1..Len(msg)
    <3>1. \A n \in Nat : n >= 1 /\ 1 # n => 2 \in 1..n
      OBVIOUS
    <3>2. Len(msg) \in Nat /\ Len(msg) >= 1
      BY <1>2
    <3>3. QED
      BY <2>1, <3>1, <3>2
  <2>3. msg' = Suffix(msg, 2)
    BY <1>2, <1>3, TailSuffix
  <2>4. QED
    BY <1>1, <1>2, <2>2, <2>3, SuffixKeeps
<1>4. CASE msg' = msg
  <2>1. msg' = Suffix(msg, 1)
    BY <1>2, <1>4, SuffixAll
  <2>2. QED
    BY <1>1, <1>2, <2>1, SuffixKeeps
<1>5. QED
  BY <1>3, <1>4 DEF Decompress

\* The first literal has been signed by nobody.
LEMMA InitMInv ==
    ASSUME Init
    PROVE  MInv
<1>1. PICK l \in Literals : msg = <<l>>
  BY DEF Init
<1>2. l \in Literal
  BY LiteralsAssumption
<1>3. IsSeq(msg) /\ Len(msg) = 1 /\ msg[1] = l
  <2>1. msg \in Seq(Literal)
    BY <1>1, <1>2
  <2>2. IsSeq(msg)
    BY <2>1, IsSeqIntro
  <2>3. QED
    BY <1>1, <2>2
<1>4. Shape(msg)
  BY <1>2, <1>3 DEF Shape
<1>5. \A j \in 1..Len(msg) : msg[j].t = "Literal"
  BY <1>2, <1>3 DEF Literal
<1>6. Genuine(msg, signed) /\ Original(msg)
  BY <1>5 DEF Genuine, Original, LayerOriginal
<1>7. QED
  BY <1>4, <1>6 DEF Init, MInv

\* Every operation keeps the invariant.
LEMMA NextMInv ==
    ASSUME MInv, [Next]_vars
    PROVE  MInv'
<1>1. CASE UNCHANGED vars
  BY <1>1 DEF MInv, vars
<1>2. CASE Next
  BY <1>2, SignKeeps, CompressKeeps, EncryptToKeysKeeps, EncryptWithPasswordKeeps, AddForeignKeeps,
     SendKeeps, DecryptKeeps, DecryptWithPasswordKeeps, DecompressKeeps DEF Next
<1>3. QED
  BY <1>1, <1>2

\* The invariant: a message is layers around a literal, its signatures were
\* made, undamaged layers are as they were made, and what is inside encrypted
\* data, and what has come out of it, is a part of what was sent.
THEOREM MInvHolds == Spec => []MInv
BY InitMInv, NextMInv, PTL DEF Spec

\* What decrypt() and decrypt_with_password() give is what the sender put in.
THEOREM PlaintextIsOriginalHolds == Spec => []PlaintextIsOriginal
<1>1. MInv => PlaintextIsOriginal
  BY DEF MInv, PlaintextIsOriginal, Suffix
<1>2. QED
  BY <1>1, MInvHolds, PTL

-----------------------------------------------------------------------------
(* Panics.                                                                 *)

\* Where decrypting data panics.
LEMMA EdataPanics ==
    ASSUME NEW e \in Encrypted, NEW k, k.v \in {4, 5, 6}, EdataDecrypt(e, k) = "panic"
    PROVE  \/ e.kind = "SED" /\ e.state # "stub"
           \/ e.kind = "V1" /\ e.state = "cut"
           \/ e.kind = "V2" /\ e.state \in {"cut", "stub"}
           \/ e.kind = "V1" /\ k.v = 6
<1>1. e.kind \in {"SED", "V1", "V2"}
  BY DEF Encrypted
<1>2. CASE e.kind = "SED"
  <2>1. EdataDecrypt(e, k) = "err" \/ EdataDecrypt(e, k) = DecryptResync(e, k)
    BY <1>2 DEF EdataDecrypt
  <2>2. QED
    BY <1>2, <2>1 DEF DecryptResync, Decipherable
<1>3. CASE e.kind = "V1"
  <2>1. EdataDecrypt(e, k) = "err" \/ EdataDecrypt(e, k) = DecryptProtected(e, k) \/ k.v = 6
    BY <1>3 DEF EdataDecrypt
  <2>2. QED
    BY <1>3, <2>1 DEF DecryptProtected
<1>4. CASE e.kind = "V2"
  <2>1. EdataDecrypt(e, k) = "err" \/ EdataDecrypt(e, k) = DecryptChunks(e, k)
    BY <1>4 DEF EdataDecrypt
  <2>2. QED
    BY <1>4, <2>1 DEF DecryptChunks
<1>5. QED
  BY <1>1, <1>2, <1>3, <1>4

\* A packet that is found for a certificate is one of the message, for a key
\* of the certificate.
LEMMA ValidKeysFacts ==
    ASSUME NEW esk, NEW cs, NEW p \in ValidKeys(esk, cs)
    PROVE  \E i \in 1..Len(esk), c \in Range(cs) :
              p = esk[i] /\ esk[i].e = "pk" /\ esk[i].id \in Range(KeysOf[c])
BY DEF ValidKeys, FirstPacket

\* What a panic leaves: the message and the encrypted data it was about.
LEMMA DecryptedPanics ==
    ASSUME NEW op, NEW cs, NEW pw, NEW res, NEW ids, NEW m,
           Decrypted(op, cs, pw, res, ids, m), last'.res = "panic"
    PROVE  res = "panic" /\ msg' = msg
BY DEF Decrypted

\* The encrypted data of an undamaged message of rPGP's own.
LEMMA PlainFacts ==
    ASSUME MInv, intact, Plain(msg), Unsigned(msg)[1].t = "Encrypted"
    PROVE  LET e == Unsigned(msg)[1] IN
           /\ e \in Encrypted /\ e.kind = "V1" /\ e.state = "whole"
           /\ \A i \in 1..Len(e.esk) : e.esk[i].alg = "AES" /\ (e.esk[i].e = "pw" => e.esk[i].v = 4)
<1> DEFINE e == Unsigned(msg)[1]
<1>1. Shape(msg) /\ Original(msg)
  BY DEF MInv
<1>2. PICK i \in 1..Len(msg) : e = msg[i]
  BY <1>1, UnsignedFacts
<1>3. msg[i] \in Encrypted /\ msg[i].t = "Encrypted"
  BY <1>1, <1>2, LayerTags
<1>4. msg[i].kind = "V1" /\ msg[i].key > 0
  BY <1>3 DEF Plain
<1>5. LayerOriginal(msg[i], Suffix(msg, i + 1))
  BY <1>1 DEF Original
<1>6. msg[i].state = "whole" /\ Openable(msg[i])
  BY <1>3, <1>4, <1>5 DEF LayerOriginal
<1>7. QED
  BY <1>2, <1>3, <1>4, <1>6 DEF Openable

\* Decrypting with keys does not panic on it.
LEMMA DecryptPanics ==
    ASSUME MInv, NEW cs, NEW pw, Decrypt(cs, pw)
    PROVE  IntactNeverPanics'
<1> DEFINE m == Unsigned(msg)
           e == m[1]
           o == DecryptOutcome(m, cs, pw)
<1>1. SUFFICES ASSUME last'.res = "panic", intact', Plain(msg')
               PROVE  FALSE
  BY DEF IntactNeverPanics
<1>2. e.t = "Encrypted" /\ Decrypted("decrypt", cs, pw, o.res, o.ids, Plaintext(m, o.key))
  <2>1. CASE e.t # "Encrypted"
    <3>1. Decrypted("decrypt", cs, pw, "err", {}, msg)
      BY <2>1 DEF Decrypt
    <3>2. QED
      BY <1>1, <3>1, DecryptedPanics
  <2>2. CASE e.t = "Encrypted"
    BY <2>2 DEF Decrypt
  <2>3. QED
    BY <2>1, <2>2
<1>3. o.res = "panic" /\ msg' = msg /\ intact' = intact
  BY <1>1, <1>2 DEF Decrypted
<1>4. /\ e \in Encrypted /\ e.kind = "V1" /\ e.state = "whole"
      /\ \A i \in 1..Len(e.esk) : e.esk[i].alg = "AES"
  BY <1>1, <1>2, <1>3, PlainFacts
<1>5. CASE \E p \in ValidKeys(e.esk, cs) : SessionKeyPanics(p, pw)
  <2>1. PICK p \in ValidKeys(e.esk, cs) : SessionKeyPanics(p, pw)
    BY <1>5
  <2>2. PICK i \in 1..Len(e.esk) : p = e.esk[i]
    BY ValidKeysFacts
  <2>3. p.alg = "AES"
    BY <1>4, <2>2
  <2>4. QED
    BY <2>1, <2>3 DEF SessionKeyPanics
<1>6. CASE \E p : o.key = PlainSessionKey(4, p.alg, p.key) /\ o.res = EdataDecrypt(e, o.key)
  <2> DEFINE k == o.key
  <2>1. k.v = 4 /\ EdataDecrypt(e, k) = "panic"
    BY <1>3, <1>6 DEF PlainSessionKey
  <2> HIDE DEF k, e
  <2>2. QED
    BY <1>4, <2>1, EdataPanics
<1>7. QED
  <2> HIDE DEF m
  <2>1. QED
    BY <1>3, <1>5, <1>6, DecryptOutcomeCases

\* Nor does decrypting with a password.
LEMMA DecryptWithPasswordPanics ==
    ASSUME MInv, NEW pw, DecryptWithPassword(pw)
    PROVE  IntactNeverPanics'
<1> DEFINE m == Unsigned(msg)
           e == m[1]
<1>1. SUFFICES ASSUME last'.res = "panic", intact', Plain(msg')
               PROVE  FALSE
  BY DEF IntactNeverPanics
<1>2. CASE Decrypted("password", <<>>, pw, "err", {}, msg)
  BY <1>1, <1>2, DecryptedPanics
<1>3. CASE /\ e.t = "Encrypted"
           /\ \E k \in PasswordKeys(m, pw) :
                 Decrypted("password", <<>>, pw, EdataDecrypt(e, k), {}, Plaintext(m, k))
  <2>1. PICK k \in PasswordKeys(m, pw) :
           Decrypted("password", <<>>, pw, EdataDecrypt(e, k), {}, Plaintext(m, k))
    BY <1>3
  <2>2. EdataDecrypt(e, k) = "panic" /\ msg' = msg /\ intact' = intact
    BY <1>1, <2>1 DEF Decrypted
  <2>3. /\ e \in Encrypted /\ e.kind = "V1" /\ e.state = "whole"
        /\ \A i \in 1..Len(e.esk) : e.esk[i].e = "pw" => e.esk[i].v = 4
    BY <1>1, <1>3, <2>2, PlainFacts
  <2>4. /\ k.v \in {4, 5, 6}
        /\ \E i \in 1..Len(e.esk) : e.esk[i].e = "pw" /\ (k.v # 4 => e.esk[i].v = k.v)
    BY <2>3, PasswordKeyFacts
  <2>5. k.v = 4
    BY <2>3, <2>4
  <2> HIDE DEF e
  <2>6. QED
    BY <2>2, <2>3, <2>5, EdataPanics
<1>4. QED
  BY <1>2, <1>3 DEF DecryptWithPassword

\* No call panics on an undamaged message that rPGP wrote, for every set of
\* certificates and passwords and any number of layers.
THEOREM IntactNeverPanicsHolds == Spec => []IntactNeverPanics
<1>1. Init => IntactNeverPanics
  BY DEF Init, IntactNeverPanics
<1>2. MInv /\ IntactNeverPanics /\ [Next]_vars => IntactNeverPanics'
  <2> SUFFICES ASSUME MInv, IntactNeverPanics, [Next]_vars
               PROVE  IntactNeverPanics'
    OBVIOUS
  <2>1. CASE UNCHANGED vars
    BY <2>1 DEF IntactNeverPanics, Plain, vars
  <2>2. CASE phase' = "sending"
    BY <2>2 DEF IntactNeverPanics
  <2>3. ASSUME NEW m, Send(m)
        PROVE  IntactNeverPanics'
    BY <2>3 DEF Send, Idle, IntactNeverPanics
  <2>4. ASSUME Decompress
        PROVE  IntactNeverPanics'
    BY <2>4 DEF Decompress, Tried, Idle, IntactNeverPanics
  <2>5. ASSUME \/ \E k \in Keys, pw \in Passwords : Sign(k, pw)
               \/ \E alg \in {"ZIP", "BZip2"} : Compress(alg)
               \/ \E ks \in Recipients, alg \in {"AES", "Plaintext"} : EncryptToKeys(ks, alg)
               \/ \E pw \in Passwords, salted \in BOOLEAN, alg \in {"AES", "Other", "Plaintext"} :
                     EncryptWithPassword(pw, salted, alg)
               \/ \E l \in Foreign : AddForeign(l)
        PROVE  phase' = "sending"
    BY <2>5 DEF Sign, Compress, EncryptToKeys, EncryptWithPassword, AddForeign, Sending
  <2>6. QED
    BY <2>1, <2>2, <2>3, <2>4, <2>5, DecryptPanics, DecryptWithPasswordPanics DEF Next
<1>3. QED
  BY <1>1, <1>2, MInvHolds, PTL DEF Spec

-----------------------------------------------------------------------------
(* Signatures.                                                             *)

\* The content of a literal is never taken for the octets of a message.
LEMMA ContentKinds ==
    ASSUME NEW l, NEW m, NEW n
    PROVE  /\ Content(l) # [bytes |-> m]
           /\ NormalizedContent(Content(l)) # [bytes |-> m]
           /\ NormalizedContent([bytes |-> m]) # Content(l)
           /\ [bytes |-> m] = [bytes |-> n] => m = n
<1>1. DOMAIN Content(l) = {"data", "le"} /\ DOMAIN NormalizedContent(Content(l)) = {"data", "le"}
  BY DEF Content, NormalizedContent
<1>2. DOMAIN [bytes |-> m] = {"bytes"} /\ DOMAIN NormalizedContent([bytes |-> m]) = {"bytes"}
  BY DEF NormalizedContent
<1>3. "data" \notin {"bytes"} /\ "data" \in {"data", "le"}
  OBVIOUS
<1>4. [bytes |-> m] = [bytes |-> n] => m = n
  <2>1. [bytes |-> m].bytes = m /\ [bytes |-> n].bytes = n
    OBVIOUS
  <2>2. QED
    BY <2>1
<1>5. QED
  BY <1>1, <1>2, <1>3, <1>4

\* A signature made over n that verifies over m was made over m, up to the
\* line endings of a text.
LEMMA VerifiesSame ==
    ASSUME NEW m, Shape(m), NEW n, Shape(n), m[Len(m)].mode = n[Len(n)].mode,
           NEW by, NEW k, SignatureVerifies(SignedLayer(n, by), k, SignedContent(m))
    PROVE  by = k /\ SameSigned(m, n)
<1> DEFINE s == SignedLayer(n, by)
<1>1. /\ s.by = by /\ s.typ = SignatureTyp(n)
      /\ s.hash = [typ |-> SignatureTyp(n), content |-> SignedContent(n)]
  BY DEF SignedLayer, HashToSign
<1> HIDE DEF s
<1>2. s.by = k /\ s.hash = HashToVerify(s.typ, SignedContent(m))
  BY DEF SignatureVerifies, s
<1>3. by = k
  BY <1>1, <1>2
<1>4. SignedContent(n) = IF SignatureTyp(n) = "Text" THEN NormalizedContent(SignedContent(m)) ELSE SignedContent(m)
  <2>1. [typ |-> SignatureTyp(n), content |-> SignedContent(n)] = HashToVerify(SignatureTyp(n), SignedContent(m))
    BY <1>1, <1>2
  <2>2. QED
    BY <2>1 DEF HashToVerify
<1>5. /\ Len(m) \in Nat /\ Len(n) \in Nat /\ IsSeq(m) /\ IsSeq(n)
      /\ 1 \in 1..Len(m) /\ 1 \in 1..Len(n)
  BY IsSeqLen DEF Shape
<1>6. m[1].t = "Literal" => Len(m) = 1 /\ m[1] \in Literal
  <2>1. m[1].t = "Literal" => 1 = Len(m)
    BY <1>5, LayerTags
  <2>2. QED
    BY <2>1 DEF Shape
<1>7. n[1].t = "Literal" => Len(n) = 1 /\ n[1] \in Literal
  <2>1. n[1].t = "Literal" => 1 = Len(n)
    BY <1>5, LayerTags
  <2>2. QED
    BY <2>1 DEF Shape
<1>8. CASE n[1].t # "Literal"
  <2>1. SignedContent(n) = [bytes |-> n] /\ SignatureTyp(n) = "Binary"
    BY <1>8 DEF SignedContent, SignatureTyp
  <2>2. SignedContent(m) = [bytes |-> n]
    BY <1>4, <2>1
  <2>3. m[1].t # "Literal"
    BY <2>2, ContentKinds DEF SignedContent
  <2>4. SignedContent(m) = [bytes |-> m]
    BY <2>3 DEF SignedContent
  <2>5. m = n
    BY <2>2, <2>4, ContentKinds
  <2>6. QED
    BY <1>3, <2>5 DEF SameSigned
<1>9. CASE n[1].t = "Literal"
  <2>1. SignedContent(n) = Content(n[1]) /\ Len(n) = 1 /\ n[1] \in Literal
    BY <1>7, <1>9 DEF SignedContent
  <2>2. m[1].t = "Literal"
    <3>1. SUFFICES ASSUME m[1].t # "Literal" PROVE FALSE
      OBVIOUS
    <3>2. SignedContent(m) = [bytes |-> m]
      BY <3>1 DEF SignedContent
    <3>3. QED
      BY <1>4, <2>1, <3>2, ContentKinds
  <2>3. SignedContent(m) = Content(m[1]) /\ Len(m) = 1 /\ m[1] \in Literal
    BY <1>6, <2>2 DEF SignedContent
  <2>4. m[1].mode = n[1].mode
    BY <2>1, <2>3
  <2>5. CASE IsBinary(n[1])
    <3>1. SignatureTyp(n) = "Binary"
      BY <1>9, <2>5 DEF SignatureTyp
    <3>2. Content(n[1]) = Content(m[1])
      BY <1>4, <2>1, <2>3, <3>1
    <3>3. n[1].data = m[1].data /\ n[1].le = m[1].le
      <4>1. Content(n[1]).data = n[1].data /\ Content(n[1]).le = n[1].le
        BY DEF Content
      <4>2. Content(m[1]).data = m[1].data /\ Content(m[1]).le = m[1].le
        BY DEF Content
      <4>3. QED
        BY <3>2, <4>1, <4>2
    <3>4. n[1] = m[1]
      BY <2>1, <2>3, <2>4, <3>3 DEF Literal
    <3>5. m = n
      BY <1>5, <2>1, <2>3, <3>4, SameSeq
    <3>6. QED
      BY <1>3, <3>5 DEF SameSigned
  <2>6. CASE ~IsBinary(n[1])
    <3>1. SignatureTyp(n) = "Text"
      BY <1>9, <2>6 DEF SignatureTyp
    <3>2. Content(n[1]) = NormalizedContent(Content(m[1]))
      BY <1>4, <2>1, <2>3, <3>1
    <3>3. NormalizedContent(NormalizedContent(Content(m[1]))) = NormalizedContent(Content(m[1]))
      BY DEF NormalizedContent, Content
    <3>4. ~IsBinary(m[1])
      BY <2>4, <2>6 DEF IsBinary
    <3>5. QED
      BY <1>3, <2>1, <2>3, <3>2, <3>3, <3>4 DEF SameSigned
  <2>7. QED
    BY <2>5, <2>6
<1>10. QED
  BY <1>8, <1>9

\* Where the signature that verify() looks at is, and what is behind it.
LEMMA InnerFacts ==
    ASSUME NEW m, Shape(m)
    PROVE  /\ m[1].t # "Literal" => Len(m) >= 2
           /\ Inner(m)[1].t = "Signed" =>
                \E i \in 1..Len(m) : /\ i < Len(m) /\ Inner(m)[1] = m[i] /\ Tail(Inner(m)) = Suffix(m, i + 1)
                                     /\ Inner(m) = Suffix(m, i)
<1>1. Len(m) \in Nat /\ IsSeq(m) /\ 1 \in 1..Len(m) /\ Len(m) >= 1
  BY IsSeqLen DEF Shape
<1>2. m[1].t # "Literal" => Len(m) >= 2
  <2>1. m[1].t # "Literal" => 1 # Len(m)
    BY <1>1, LayerTags
  <2>2. QED
    BY <1>1, <2>1
<1>3. \E i \in 1..Len(m) : Inner(m) = Suffix(m, i)
  <2>1. CASE m[1].t = "Compressed"
    <3>1. 2 \in 1..Len(m)
      BY <1>1, <1>2, <2>1
    <3>2. QED
      BY <1>1, <2>1, <3>1, TailSuffix DEF Inner
  <2>2. CASE m[1].t # "Compressed"
    BY <1>1, <2>2, SuffixAll DEF Inner
  <2>3. QED
    BY <2>1, <2>2
<1>4. ASSUME Inner(m)[1].t = "Signed"
      PROVE  \E i \in 1..Len(m) : /\ i < Len(m) /\ Inner(m)[1] = m[i] /\ Tail(Inner(m)) = Suffix(m, i + 1)
                                  /\ Inner(m) = Suffix(m, i)
  <2>1. PICK i \in 1..Len(m) : Inner(m) = Suffix(m, i)
    BY <1>3
  <2>2. 1 \in 1..(Len(m) - i + 1) /\ i + 1 - 1 = i
    BY <1>1
  <2>3. Suffix(m, i)[1] = m[i] /\ Suffix(Suffix(m, i), 1 + 1) = Suffix(m, i + 1)
    BY <2>2, ShapeSuffix
  <2>4. IsSeq(Suffix(m, i)) /\ Len(Suffix(m, i)) >= 1
    BY ShapeSuffix DEF Shape
  <2>5. Tail(Suffix(m, i)) = Suffix(Suffix(m, i), 2)
    BY <2>4, TailSuffix
  <2>6. i # Len(m)
    BY <1>4, <2>1, <2>3, LayerTags
  <2>7. i < Len(m)
    BY <1>1, <2>6
  <2>8. QED
    BY <2>1, <2>3, <2>5, <2>7
<1>5. QED
  BY <1>2, <1>4

\* What verify() comes down to.
LEMMA VerifyInner ==
    ASSUME NEW m, NEW k
    PROVE  Verify(m, k) <=>
             /\ m[1].t = "Compressed" => Decompressable(m[1].alg)
             /\ Inner(m)[1].t = "Signed" /\ SignatureVerifies(Inner(m)[1], k, SignedContent(Tail(Inner(m))))
BY DEF Verify, VerifySigned, Inner

\* verify() accepts only what was signed with that key.
THEOREM VerifiedIsSignedHolds == Spec => []VerifiedIsSigned
<1>1. MInv => VerifiedIsSigned
  <2> SUFFICES ASSUME MInv, NEW k \in Keys, Verify(msg, k)
               PROVE  \E s \in signed : s.by = k /\ SameSigned(Tail(Inner(msg)), s.msg)
    BY DEF VerifiedIsSigned
  <2>1. Shape(msg) /\ Genuine(msg, signed)
    BY DEF MInv
  <2>2. /\ Inner(msg)[1].t = "Signed"
        /\ SignatureVerifies(Inner(msg)[1], k, SignedContent(Tail(Inner(msg))))
    BY VerifyInner
  <2>3. PICK i \in 1..Len(msg) :
           i < Len(msg) /\ Inner(msg)[1] = msg[i] /\ Tail(Inner(msg)) = Suffix(msg, i + 1)
    BY <2>1, <2>2, InnerFacts
  <2>4. PICK s \in signed : msg[i] = SignedLayer(s.msg, s.by)
    BY <2>1, <2>2, <2>3 DEF Genuine
  <2>5. i + 1 \in 1..Len(msg)
    <3>1. Len(msg) \in Nat
      BY <2>1, IsSeqLen DEF Shape
    <3>2. QED
      BY <2>3, <3>1
  <2> DEFINE t == Suffix(msg, i + 1)
  <2>6. Shape(t) /\ t[Len(t)] = msg[Len(msg)]
    BY <2>1, <2>5, ShapeSuffix
  <2>7. Shape(s.msg) /\ t[Len(t)].mode = s.msg[Len(s.msg)].mode
    BY <2>6 DEF MInv
  <2> HIDE DEF t
  <2>8. SignatureVerifies(SignedLayer(s.msg, s.by), k, SignedContent(t))
    BY <2>2, <2>3, <2>4 DEF t
  <2>9. s.by = k /\ SameSigned(t, s.msg)
    BY <2>6, <2>7, <2>8, VerifiesSame
  <2>10. QED
    BY <2>3, <2>9 DEF t
<1>2. QED
  BY <1>1, MInvHolds, PTL

\* A signature on an undamaged message verifies.
LEMMA SignedVerifiesFollows ==
    ASSUME MInv
    PROVE  SignedVerifies
<1> SUFFICES ASSUME intact, StoredNormalised(msg), Inner(msg)[1].t = "Signed",
                    msg[1].t = "Compressed" => Decompressable(msg[1].alg)
             PROVE  Verify(msg, Inner(msg)[1].by)
  BY DEF SignedVerifies
<1>1. Shape(msg) /\ Original(msg) /\ Len(msg) \in Nat
  <2>1. Shape(msg) /\ Original(msg)
    BY DEF MInv
  <2>2. QED
    BY <2>1, IsSeqLen DEF Shape
<1>2. PICK i \in 1..Len(msg) :
         i < Len(msg) /\ Inner(msg)[1] = msg[i] /\ Tail(Inner(msg)) = Suffix(msg, i + 1)
  BY <1>1, InnerFacts
<1> DEFINE t == Suffix(msg, i + 1)
           s == msg[i]
           k == s.by
<1>3. s = SignedLayer(t, k)
  <2>1. LayerOriginal(msg[i], Suffix(msg, i + 1))
    BY <1>1 DEF Original
  <2>2. QED
    BY <1>2, <2>1 DEF LayerOriginal
<1>4. i + 1 \in 1..Len(msg)
  BY <1>1, <1>2
<1>5. Shape(t) /\ t[Len(t)] = msg[Len(msg)]
  BY <1>1, <1>4, ShapeSuffix
<1> HIDE DEF t
<1>6. /\ s.typ = SignatureTyp(t)
      /\ s.hash = [typ |-> SignatureTyp(t), content |-> SignedContent(t)]
  <2>1. /\ SignedLayer(t, k).typ = SignatureTyp(t)
        /\ SignedLayer(t, k).hash = [typ |-> SignatureTyp(t), content |-> SignedContent(t)]
    BY DEF SignedLayer, HashToSign
  <2>2. QED
    BY <1>3, <2>1
<1>7. SignatureTyp(t) = "Text" => NormalizedContent(SignedContent(t)) = SignedContent(t)
  <2>1. SUFFICES ASSUME SignatureTyp(t) = "Text"
                 PROVE  NormalizedContent(SignedContent(t)) = SignedContent(t)
    OBVIOUS
  <2>2. t[1].t = "Literal" /\ ~IsBinary(t[1])
    BY <2>1 DEF SignatureTyp
  <2>3. t[1] = t[Len(t)]
    <3>1. 1 \in 1..Len(t)
      BY <1>5, IsSeqLen DEF Shape
    <3>2. QED
      BY <1>5, <2>2, <3>1, LayerTags
  <2>4. t[1].le = "crlf"
    BY <1>5, <2>2, <2>3 DEF StoredNormalised
  <2>5. SignedContent(t) = Content(t[1])
    BY <2>2 DEF SignedContent
  <2>6. QED
    BY <2>4, <2>5 DEF NormalizedContent, Content
<1>8. HashToVerify(SignatureTyp(t), SignedContent(t)) = [typ |-> SignatureTyp(t), content |-> SignedContent(t)]
  BY <1>7 DEF HashToVerify
<1>9. SignatureVerifies(s, k, SignedContent(t))
  BY <1>6, <1>8 DEF SignatureVerifies
<1>10. QED
  BY <1>2, <1>9, VerifyInner DEF t

-----------------------------------------------------------------------------
(* Keys and passwords.                                                     *)

\* Whole data give their plaintext to their session key.
LEMMA WholeOpens ==
    ASSUME NEW e, e.kind = "V1", e.state = "whole", e.alg = "AES",
           NEW k, k = PlainSessionKey(4, "AES", e.key)
    PROVE  EdataDecrypt(e, k) = "ok"
<1>1. k.v = 4 /\ k.alg = "AES" /\ k.key = e.key
  BY DEF PlainSessionKey
<1>2. EdataDecrypt(e, k) = DecryptProtected(e, k)
  BY <1>1 DEF EdataDecrypt
<1>3. QED
  BY <1>1, <1>2 DEF DecryptProtected, Decipherable

\* Packets that all hold the session key, one of which can be decrypted, open
\* the message: the others do no harm.
LEMMA KeyOpens ==
    ASSUME NEW m, m[1].kind = "V1", m[1].state = "whole", m[1].alg = "AES",
           NEW cs, NEW pw,
           \A p \in ValidKeys(m[1].esk, cs) : p.alg = "AES" /\ p.key = m[1].key,
           \E p \in ValidKeys(m[1].esk, cs) : CanDecryptSessionKey(p, pw)
    PROVE  DecryptOutcome(m, cs, pw).res = "ok"
<1> DEFINE valid == ValidKeys(m[1].esk, cs)
           opening == SessionKeys(valid, pw)
           first == CHOOSE p \in opening : TRUE
           key == PlainSessionKey(4, first.alg, first.key)
           res == EdataDecrypt(m[1], key)
           o == DecryptOutcome(m, cs, pw)
           no == PlainSessionKey(4, "Other", -1)
           ids == IF res = "ok" THEN Reported(opening) ELSE {}
<1>1. o = IF valid = {} THEN [res |-> "missing", ids |-> {}, key |-> no]
          ELSE IF \E p \in valid : SessionKeyPanics(p, pw) THEN [res |-> "panic", ids |-> {}, key |-> no]
          ELSE IF opening = {} \/ ~Consistent(opening) THEN [res |-> "err", ids |-> {}, key |-> no]
          ELSE [res |-> res, ids |-> ids, key |-> key]
  BY DEF DecryptOutcome
<1>2. valid # {} /\ opening # {} /\ \A p \in opening : p \in valid
  BY DEF SessionKeys
<1>3. ~(\E p \in valid : SessionKeyPanics(p, pw))
  BY DEF SessionKeyPanics
<1>4. Consistent(opening)
  BY <1>2 DEF Consistent
<1>5. first \in opening
  <2> HIDE DEF opening
  <2>1. QED
    BY <1>2
<1>6. first.alg = "AES" /\ first.key = m[1].key
  <2> HIDE DEF opening, first
  <2>1. QED
    BY <1>2, <1>5
<1>7. res = "ok"
  <2>1. key = PlainSessionKey(4, "AES", m[1].key)
    BY <1>6
  <2> HIDE DEF key
  <2>2. QED
    BY <2>1, WholeOpens
<1> HIDE DEF valid, opening, no, res, ids, key, o
<1>8. o = [res |-> res, ids |-> ids, key |-> key]
  BY <1>1, <1>2, <1>3, <1>4
<1>9. o.res = "ok"
  BY <1>7, <1>8
<1>10. QED
  BY <1>9 DEF o

\* decrypt() succeeds whenever one of the keys given is right.
LEMMA DecryptByRightKey ==
    ASSUME MInv, NEW cs, NEW pw, Decrypt(cs, pw)
    PROVE  OpenedByRightKey
<1> DEFINE m == Unsigned(msg)
           e == m[1]
           o == DecryptOutcome(m, cs, pw)
<1>1. SUFFICES ASSUME /\ intact /\ e.t = "Encrypted" /\ e.kind = "V1"
                      /\ \A p \in Range(e.esk) : p.alg = e.alg
                      /\ Unambiguous(e.esk, last'.certs)
                      /\ \E p \in Range(e.esk) :
                           /\ p.e = "pk" /\ p.id \in UNION { Range(KeysOf[c]) : c \in Range(last'.certs) }
                           /\ CanDecryptSessionKey(p, last'.pw)
               PROVE  last'.res = "ok"
  BY DEF OpenedByRightKey
<1>2. Decrypted("decrypt", cs, pw, o.res, o.ids, Plaintext(m, o.key))
  BY <1>1 DEF Decrypt
<1>3. last'.certs = cs /\ last'.pw = pw /\ last'.res = o.res
  BY <1>2 DEF Decrypted
<1>4. Shape(msg) /\ Original(msg)
  BY <1>1 DEF MInv
<1>5. PICK i \in 1..Len(msg) : e = msg[i]
  BY <1>4, UnsignedFacts
<1>6. e \in Encrypted
  BY <1>1, <1>4, <1>5, LayerTags
<1>7. e.state = "whole" /\ e.alg = "AES" /\ \A n \in 1..Len(e.esk) : e.esk[n].key = e.key
  <2>1. LayerOriginal(msg[i], Suffix(msg, i + 1))
    BY <1>4 DEF Original
  <2>2. QED
    BY <1>1, <1>5, <2>1 DEF LayerOriginal
<1>8. DOMAIN e.esk = 1..Len(e.esk)
  <2>1. e.esk \in Seq(Esk)
    BY <1>6 DEF Encrypted
  <2>2. QED
    BY <2>1, LenProperties
<1>9. \A n \in 1..Len(e.esk) : e.esk[n].alg = "AES"
  <2> HIDE DEF e
  <2>1. QED
    BY <1>1, <1>7, <1>8 DEF Range
<1>10. PICK n \in 1..Len(e.esk), c \in Range(cs) :
         e.esk[n].e = "pk" /\ e.esk[n].id \in Range(KeysOf[c]) /\ CanDecryptSessionKey(e.esk[n], pw)
  <2> HIDE DEF e
  <2>1. PICK p \in Range(e.esk) :
           /\ p.e = "pk" /\ p.id \in UNION { Range(KeysOf[c]) : c \in Range(cs) }
           /\ CanDecryptSessionKey(p, pw)
    BY <1>1, <1>3
  <2>2. PICK n \in 1..Len(e.esk) : p = e.esk[n]
    BY <1>8, <2>1 DEF Range
  <2>3. PICK c \in Range(cs) : p.id \in Range(KeysOf[c])
    BY <2>1
  <2>4. QED
    BY <2>1, <2>2, <2>3
<1>11. e.esk[n] \in ValidKeys(e.esk, cs)
  <2> HIDE DEF e
  <2>1. ASSUME NEW j \in 1..(n - 1), e.esk[j].e = "pk"
        PROVE  e.esk[j].id \notin Range(KeysOf[c])
    <3>1. SUFFICES ASSUME e.esk[j].id \in Range(KeysOf[c]) PROVE FALSE
      OBVIOUS
    <3>2. Unambiguous(e.esk, cs)
      BY <1>1, <1>3
    <3>3. j \in 1..Len(e.esk) /\ j # n
      <4>1. Len(e.esk) \in Nat
        BY <1>6, LenProperties DEF Encrypted
      <4>2. QED
        BY <4>1
    <3>4. QED
      BY <1>10, <2>1, <3>1, <3>2, <3>3 DEF Unambiguous
  <2>2. e.esk[n] \in FirstPacket(e.esk, c)
    BY <1>10, <2>1 DEF FirstPacket
  <2>3. QED
    BY <2>2 DEF ValidKeys
<1>12. \A p \in ValidKeys(e.esk, cs) : p.alg = "AES" /\ p.key = e.key
  <2> HIDE DEF e
  <2>1. QED
    BY <1>7, <1>9, ValidKeysFacts
<1>13. o.res = "ok"
  <2> HIDE DEF m
  <2>1. QED
    BY <1>1, <1>7, <1>10, <1>11, <1>12, KeyOpens
<1>14. QED
  BY <1>3, <1>13

\* decrypt() succeeds only with keys of the caller that the sender meant.
LEMMA DecryptByRecipients ==
    ASSUME NEW cs, NEW pw, Decrypt(cs, pw), MInv
    PROVE  OpenedByRecipients
<1> DEFINE m == Unsigned(msg)
           e == m[1]
           o == DecryptOutcome(m, cs, pw)
           valid == ValidKeys(e.esk, cs)
           opening == SessionKeys(valid, pw)
<1>1. SUFFICES ASSUME last'.res = "ok"
               PROVE  /\ last'.ids # {}
                      /\ \A k \in last'.ids :
                           /\ Unlocks(k, last'.pw)
                           /\ \E c \in Range(last'.certs) : k \in Range(KeysOf[c])
                           /\ \E p \in Range(e.esk) : p.e = "pk" /\ p.id = k /\ p.ok
  BY DEF OpenedByRecipients
<1>2. e.t = "Encrypted"
  <2>1. SUFFICES ASSUME e.t # "Encrypted" PROVE FALSE
    OBVIOUS
  <2>2. Decrypted("decrypt", cs, pw, "err", {}, msg)
    BY <2>1 DEF Decrypt
  <2>3. QED
    BY <1>1, <2>2 DEF Decrypted
<1>3. Decrypted("decrypt", cs, pw, o.res, o.ids, Plaintext(m, o.key))
  BY <1>2 DEF Decrypt
<1>4. last'.certs = cs /\ last'.pw = pw /\ last'.ids = o.ids /\ o.res = "ok"
  BY <1>1, <1>3 DEF Decrypted
<1>5. opening # {} /\ o.ids = Reported(opening)
  <2> HIDE DEF m
  <2>1. QED
    BY <1>4, DecryptOutcomeCases
<1>6. e \in Encrypted
  <2>1. Shape(msg)
    BY DEF MInv
  <2>2. PICK i \in 1..Len(msg) : m[1] = msg[i]
    BY <2>1, UnsignedFacts
  <2>3. QED
    BY <1>2, <2>1, <2>2, LayerTags
<1>7. DOMAIN e.esk = 1..Len(e.esk)
  <2>1. e.esk \in Seq(Esk)
    BY <1>6 DEF Encrypted
  <2>2. QED
    BY <2>1, LenProperties
<1> HIDE DEF e, m
<1>8. last'.ids # {}
  <2> HIDE DEF opening
  <2>1. QED
    BY <1>4, <1>5 DEF Reported
<1>9. ASSUME NEW k \in last'.ids
      PROVE  /\ Unlocks(k, pw)
             /\ \E c \in Range(cs) : k \in Range(KeysOf[c])
             /\ \E p \in Range(e.esk) : p.e = "pk" /\ p.id = k /\ p.ok
  <2>1. PICK p \in opening : p.id = k
    <3> HIDE DEF opening
    <3>1. QED
      BY <1>4, <1>5 DEF Reported
  <2>2. p \in ValidKeys(e.esk, cs) /\ CanDecryptSessionKey(p, pw)
    BY <2>1 DEF SessionKeys
  <2>3. PICK i \in 1..Len(e.esk), c \in Range(cs) :
           p = e.esk[i] /\ e.esk[i].e = "pk" /\ e.esk[i].id \in Range(KeysOf[c])
    BY <2>2, ValidKeysFacts
  <2>4. p \in Range(e.esk)
    BY <1>7, <2>3 DEF Range
  <2>5. Unlocks(k, pw) /\ p.ok
    BY <2>1, <2>2 DEF CanDecryptSessionKey
  <2>6. QED
    BY <2>1, <2>3, <2>4, <2>5
<1>10. QED
  BY <1>4, <1>8, <1>9

\* No other operation is a decryption with keys.
LEMMA OnlyDecryptDecrypts ==
    ASSUME Next, last'.op = "decrypt"
    PROVE  \E cs, pw : Decrypt(cs, pw)
<1>1. ASSUME NEW k, NEW pw, Sign(k, pw) PROVE last'.op = "sign"
  BY <1>1 DEF Sign, Tried, Idle
<1>2. ASSUME NEW alg, Compress(alg) PROVE last'.op = "compress"
  BY <1>2 DEF Compress, Tried, Idle
<1>3. ASSUME NEW ks, NEW alg, EncryptToKeys(ks, alg) PROVE last'.op = "encrypt"
  BY <1>3 DEF EncryptToKeys, EncryptSymmetric, Tried, Idle
<1>4. ASSUME NEW pw, NEW salted, NEW alg, EncryptWithPassword(pw, salted, alg) PROVE last'.op = "encrypt"
  BY <1>4 DEF EncryptWithPassword, EncryptSymmetric, Tried, Idle
<1>5. ASSUME NEW l, AddForeign(l) PROVE last'.op = "foreign"
  BY <1>5 DEF AddForeign, Tried, Idle
<1>6. ASSUME NEW m, Send(m) PROVE last'.op = "none"
  BY <1>6 DEF Send, Idle
<1>7. ASSUME NEW pw, DecryptWithPassword(pw) PROVE last'.op = "password"
  <2>1. PICK cs, w, res, ids, m : Decrypted("password", cs, w, res, ids, m)
    BY <1>7 DEF DecryptWithPassword
  <2>2. QED
    BY <2>1 DEF Decrypted
<1>8. ASSUME Decompress PROVE last'.op = "decompress"
  BY <1>8 DEF Decompress, Tried, Idle
<1>9. QED
  BY <1>1, <1>2, <1>3, <1>4, <1>5, <1>6, <1>7, <1>8 DEF Next

\* decrypt() succeeds with the right keys among others and only with those.
THEOREM KeysOpenHolds == Spec => KeysOpen
<1>1. MInv /\ [Next]_vars => [OpenedByRightKey]_vars
  <2> SUFFICES ASSUME MInv, Next PROVE OpenedByRightKey
    OBVIOUS
  <2>1. CASE last'.op = "decrypt"
    BY <2>1, OnlyDecryptDecrypts, DecryptByRightKey
  <2>2. CASE last'.op # "decrypt"
    BY <2>2 DEF OpenedByRightKey
  <2>3. QED
    BY <2>1, <2>2
<1>2. MInv /\ [Next]_vars => [OpenedByRecipients]_vars
  <2> SUFFICES ASSUME MInv, Next PROVE OpenedByRecipients
    OBVIOUS
  <2>1. CASE last'.op = "decrypt"
    BY <2>1, OnlyDecryptDecrypts, DecryptByRecipients
  <2>2. CASE last'.op # "decrypt"
    BY <2>2 DEF OpenedByRecipients
  <2>3. QED
    BY <2>1, <2>2
<1>3. QED
  BY <1>1, <1>2, MInvHolds, PTL DEF Spec, KeysOpen, RightKeyOpens, OnlyRecipientsOpen

\* Encrypted data that were made here open: for a certificate of the first
\* packet's key and its password, or for the first packet's password.
LEMMA OpenableOpens ==
    ASSUME NEW m, m[1] \in Encrypted, m[1].kind = "V1", m[1].state = "whole", m[1].alg = "AES",
           m[1].key > 0, \A i \in 1..Len(m[1].esk) : m[1].esk[i].key = m[1].key,
           Openable(m[1])
    PROVE  \E pw \in Passwords :
              \/ \E c \in Certs : DecryptOutcome(m, <<c>>, pw).res = "ok"
              \/ \E k \in PasswordKeys(m, pw) : EdataDecrypt(m[1], k) = "ok"
<1> DEFINE e == m[1]
           p == e.esk[1]
<1>1. e.esk \in Seq(Esk) /\ e.key \in Int
  BY DEF Encrypted
<1>2. Len(e.esk) \in Nat /\ 1 \in 1..Len(e.esk)
  <2>1. Len(e.esk) \in Nat
    BY <1>1, LenProperties
  <2>2. Len(e.esk) >= 1
    BY DEF Openable
  <2>3. QED
    BY <2>1, <2>2
<1>3. p \in Esk /\ p.alg = "AES" /\ p.key = e.key
  <2>1. p \in Esk
    BY <1>1, <1>2, ElementOfSeq
  <2>2. QED
    BY <1>2, <2>1 DEF Openable
<1>4. CASE p.e = "pk" /\ p.id \in CryptKeys /\ p.ok = TRUE
  <2>1. p.id \in Keys
    BY <1>3, <1>4 DEF Esk
  <2>2. PICK c \in Certs : p.id \in Range(KeysOf[c])
    BY <2>1 DEF Keys
  <2> DEFINE pw == Lock[p.id]
             cs == <<c>>
  <2>3. pw \in Passwords
    BY <2>1, KeysAssumption
  <2>4. CanDecryptSessionKey(p, pw)
    BY <1>3, <1>4 DEF CanDecryptSessionKey, Unlocks
  <2>5. Range(cs) = {c}
    <3>1. DOMAIN cs = {1} /\ cs[1] = c
      OBVIOUS
    <3> HIDE DEF cs
    <3>2. QED
      BY <3>1 DEF Range
  <2> HIDE DEF cs, pw
  <2>6. ASSUME NEW j \in 1..Len(e.esk),
               \A n \in 1..(j - 1) : e.esk[n].e = "pk" => e.esk[n].id \notin Range(KeysOf[c])
        PROVE  j = 1
    <3>1. SUFFICES ASSUME j # 1 PROVE FALSE
      OBVIOUS
    <3>2. 1 \in 1..(j - 1)
      BY <1>2, <3>1
    <3>3. QED
      BY <1>4, <2>2, <2>6, <3>2
  <2>7. p \in FirstPacket(e.esk, c) /\ \A q \in FirstPacket(e.esk, c) : q = p
    <3>1. \A n \in 1..(1 - 1) : FALSE
      OBVIOUS
    <3>2. p \in FirstPacket(e.esk, c)
      BY <1>2, <1>4, <2>2, <3>1 DEF FirstPacket
    <3>3. QED
      BY <2>6, <3>2 DEF FirstPacket
  <2>8. p \in ValidKeys(e.esk, cs) /\ \A q \in ValidKeys(e.esk, cs) : q = p
    BY <2>5, <2>7 DEF ValidKeys
  <2>9. DecryptOutcome(m, cs, pw).res = "ok"
    BY <1>3, <2>4, <2>8, KeyOpens
  <2>10. QED
    BY <2>3, <2>9 DEF cs
<1>5. CASE p.e = "pw" /\ p.v = 4 /\ p.direct = FALSE
  <2> DEFINE pw == p.pw
             k == PlainSessionKey(4, "AES", e.key)
  <2>1. pw \in Passwords
    BY <1>3, <1>5 DEF Esk
  <2>2. p \in FirstPasswordPacket(e.esk)
    <3>1. \A n \in 1..(1 - 1) : FALSE
      OBVIOUS
    <3>2. QED
      BY <1>2, <1>5, <3>1 DEF FirstPasswordPacket
  <2>3. p.key # -1
    BY <1>1, <1>3
  <2>4. k \in DecryptSessionKeyWithPassword(p, pw)
    BY <1>3, <1>5, <2>3 DEF DecryptSessionKeyWithPassword, SkeskDecrypt
  <2>5. k \in PasswordKeys(m, pw)
    BY <2>2, <2>4 DEF PasswordKeys
  <2>6. EdataDecrypt(e, k) = "ok"
    BY WholeOpens
  <2>7. QED
    BY <2>1, <2>5, <2>6
<1>6. QED
  BY <1>4, <1>5 DEF Openable

\* No undamaged message is a dead end.
LEMMA NoDeadEndFollows ==
    ASSUME MInv
    PROVE  NoDeadEnd
<1> SUFFICES ASSUME phase = "receiving", intact, Plain(msg)
             PROVE  \/ GetContent(msg) = Content(msg[Len(msg)])
                    \/ msg[1].t = "Compressed"
                    \/ LET m == Unsigned(msg) IN
                       /\ m[1].t = "Encrypted"
                       /\ \E pw \in Passwords :
                            \/ \E c \in Certs : DecryptOutcome(m, <<c>>, pw).res = "ok"
                            \/ \E k \in PasswordKeys(m, pw) : EdataDecrypt(m[1], k) = "ok"
  BY DEF NoDeadEnd
<1>1. Shape(msg) /\ Original(msg) /\ Len(msg) \in Nat
  <2>1. Shape(msg) /\ Original(msg)
    BY DEF MInv
  <2>2. QED
    BY <2>1, IsSeqLen DEF Shape
<1>2. PICK i \in 1..Len(msg) :
         /\ Unsigned(msg)[1] = msg[i] /\ msg[i].t # "Signed"
         /\ \A n \in 1..(i - 1) : msg[n].t = "Signed"
  BY <1>1, UnsignedFacts
<1>3. CASE msg[i].t = "Literal"
  <2>1. i = Len(msg)
    BY <1>1, <1>3, LayerTags
  <2>2. GetLiteral(msg) = Content(msg[Len(msg)])
    BY <1>2, <1>3, <2>1 DEF GetLiteral
  <2>3. CASE msg[1].t = "Compressed"
    BY <2>3
  <2>4. CASE msg[1].t # "Compressed"
    BY <2>2, <2>4 DEF GetContent
  <2>5. QED
    BY <2>3, <2>4
<1>4. CASE msg[i].t = "Compressed"
  <2>1. CASE i = 1
    BY <1>4, <2>1
  <2>2. CASE i # 1
    <3>1. i - 1 \in 1..(Len(msg) - 1) /\ i - 1 \in 1..(i - 1) /\ (i - 1) + 1 = i
      BY <1>1, <2>2
    <3>2. msg[i - 1].t = "Signed"
      BY <1>2, <3>1
    <3>3. msg[(i - 1) + 1].t # "Compressed"
      BY <3>1, <3>2 DEF Plain
    <3>4. QED
      BY <1>4, <3>1, <3>3
  <2>3. QED
    BY <2>1, <2>2
<1>5. CASE msg[i].t = "Encrypted"
  <2> DEFINE m == Unsigned(msg)
  <2>1. m[1] = msg[i] /\ m[1].t = "Encrypted"
    BY <1>2, <1>5
  <2>2. m[1] \in Encrypted
    BY <1>1, <1>5, <2>1, LayerTags
  <2>3. m[1].kind = "V1" /\ m[1].key > 0
    BY <1>5, <2>1 DEF Plain
  <2>4. LayerOriginal(msg[i], Suffix(msg, i + 1))
    BY <1>1 DEF Original
  <2> HIDE DEF m
  <2>5. /\ m[1].state = "whole" /\ m[1].alg = "AES"
        /\ \A n \in 1..Len(m[1].esk) : m[1].esk[n].key = m[1].key
        /\ Openable(m[1])
    BY <2>1, <2>3, <2>4 DEF LayerOriginal
  <2>6. \E pw \in Passwords :
           \/ \E c \in Certs : DecryptOutcome(m, <<c>>, pw).res = "ok"
           \/ \E k \in PasswordKeys(m, pw) : EdataDecrypt(m[1], k) = "ok"
    BY <2>2, <2>3, <2>5, OpenableOpens
  <2>7. QED
    BY <2>1, <2>6 DEF m
<1>6. QED
  <2>1. msg[i].t \in {"Literal", "Signed", "Compressed", "Encrypted"}
    BY <1>1, LayerTags
  <2>2. QED
    BY <1>2, <1>3, <1>4, <1>5, <2>1

\* What arrives undamaged is of use to whoever it is for.
THEOREM IntactIsReadableHolds == Spec => []IntactIsReadable
<1>1. MInv => IntactIsReadable
  BY SignedVerifiesFollows, NoDeadEndFollows DEF IntactIsReadable
<1>2. QED
  BY <1>1, MInvHolds, PTL

=============================================================================
