--------------------------- MODULE DearmorProofs ----------------------------
(***************************************************************************)
(* Proofs about reading ASCII armor, for every text with a header and a    *)
(* body, cut anywhere, every failure of its source, every slice and every  *)
(* size of the buffers: what is decoded is what was armored, and once      *)
(* read() has returned an error nothing more is given out.                 *)
(***************************************************************************)
EXTENDS Dearmor, SelectionProofs, SequenceTheorems

-----------------------------------------------------------------------------
(* Least and greatest.                                                     *)

\* The first of some places (take_until, the first character that ends a read).
LEMMA MinFacts ==
    ASSUME NEW T \in SUBSET Nat, T # {}
    PROVE  Min(T) \in T /\ \A y \in T : Min(T) <= y
<1>1. \E x \in T : \A y \in T : x =< y
  BY LeastExists
<1>2. QED
  BY <1>1 DEF Min

\* The last of some places before m (the last header line, the longest slice that decodes).
LEMMA MaxFacts ==
    ASSUME NEW m \in Nat, NEW T \in SUBSET (0..m), T # {}
    PROVE  Max(T) \in T /\ \A y \in T : y <= Max(T)
<1> DEFINE U == { d \in Nat : d <= m /\ m - d \in T }
<1>1. U \in SUBSET Nat /\ U # {}
  <2>1. PICK x \in T : TRUE
    OBVIOUS
  <2>2. x \in Nat /\ x <= m
    OBVIOUS
  <2>3. m - x \in Nat /\ m - x <= m /\ m - (m - x) = x
    BY <2>2
  <2>4. QED
    BY <2>3
<1>2. PICK d \in U : \A e \in U : d <= e
  BY <1>1, LeastExists
<1>3. ASSUME NEW y \in T PROVE y <= m - d
  <2>1. y \in Nat /\ y <= m /\ m - y \in Nat /\ m - y <= m /\ m - (m - y) = y
    OBVIOUS
  <2>2. m - y \in U
    BY <2>1
  <2>3. d <= m - y /\ d \in Nat
    BY <1>2, <2>2
  <2>4. QED
    BY <2>1, <2>3
<1>4. \E x \in T : \A y \in T : x >= y
  <2>1. m - d \in T /\ d \in Nat
    OBVIOUS
  <2>2. \A y \in T : m - d >= y
    BY <1>3, <2>1
  <2>3. QED
    BY <2>1, <2>2
<1>5. Max(T) \in T /\ \A y \in T : Max(T) >= y
  BY <1>4 DEF Max
<1>6. QED
  BY <1>5

\* What a buffer of characters or octets holds.
LEMMA ElementsOf ==
    ASSUME NEW S, NEW s \in Seq(S)
    PROVE  \A i \in 1..Len(s) : s[i] \in S
OBVIOUS

-----------------------------------------------------------------------------
(* Base64Reader: the characters behind a place.                            *)

Taken(cells, from) == { n \in Nat : n > from /\ cells[n].k \in TokenKinds }

\* The reader's rounds; the same for every place it stops at.
LEMMA TokensRounds ==
    ASSUME NEW cells \in Seq(Cell), NEW from \in Nat
    PROVE  \E f : /\ Takes(f, cells, Taken(cells, from), Len(cells))
                  /\ \A to : TokensOf(cells, from, to) = f[to]
<1> DEFINE P == Taken(cells, from)
           g == CHOOSE f : Takes(f, cells, P, Len(cells))
           h == CHOOSE f : f = [n \in 0..Len(cells) |->
                  IF n = 0 THEN <<>>
                  ELSE IF n > from /\ cells[n].k \in TokenKinds THEN Append(f[n - 1], cells[n])
                  ELSE f[n - 1]]
<1>1. \E f : Takes(f, cells, P, Len(cells))
  <2>1. Len(cells) \in Nat
    OBVIOUS
  <2>2. \A k \in Nat : \E f : Takes(f, cells, P, k)
    BY TakesExist
  <2>3. QED
    BY <2>1, <2>2
<1>2. Takes(g, cells, P, Len(cells))
  BY <1>1
<1>3. \A f : Takes(f, cells, P, Len(cells)) <=> f = [n \in 0..Len(cells) |->
                  IF n = 0 THEN <<>>
                  ELSE IF n > from /\ cells[n].k \in TokenKinds THEN Append(f[n - 1], cells[n])
                  ELSE f[n - 1]]
  <2>1. \A n \in 0..Len(cells) : n \in P <=> n > from /\ cells[n].k \in TokenKinds
    BY DEF Taken
  <2> HIDE DEF P
  <2>2. ASSUME NEW f
        PROVE  [n \in 0..Len(cells) |-> IF n = 0 THEN <<>> ELSE Chosen(cells, P, f[n - 1], n)]
             = [n \in 0..Len(cells) |->
                  IF n = 0 THEN <<>>
                  ELSE IF n > from /\ cells[n].k \in TokenKinds THEN Append(f[n - 1], cells[n])
                  ELSE f[n - 1]]
    BY <2>1 DEF Chosen
  <2>3. QED
    BY <2>2 DEF Takes
<1>4. \E f : f = [n \in 0..Len(cells) |->
                  IF n = 0 THEN <<>>
                  ELSE IF n > from /\ cells[n].k \in TokenKinds THEN Append(f[n - 1], cells[n])
                  ELSE f[n - 1]]
  BY <1>2, <1>3
<1>5. Takes(h, cells, P, Len(cells))
  BY <1>3, <1>4
<1>6. \A to : TokensOf(cells, from, to) = h[to]
  BY DEF TokensOf
<1>7. QED
  BY <1>5, <1>6

\* Nothing lies behind a place up to itself.
LEMMA TokensStart ==
    ASSUME NEW cells \in Seq(Cell), NEW from \in 0..Len(cells), NEW to \in 0..from
    PROVE  TokensOf(cells, from, to) = <<>>
<1> DEFINE P == Taken(cells, from)
<1>0. Len(cells) \in Nat /\ from \in Nat
  OBVIOUS
<1>1. PICK f : Takes(f, cells, P, Len(cells)) /\ \A t : TokensOf(cells, from, t) = f[t]
  BY <1>0, TokensRounds
<1> DEFINE T == { n \in Nat : n <= from => f[n] = <<>> }
<1>2. 0 \in T
  BY <1>0, <1>1 DEF Takes
<1>3. ASSUME NEW n \in Nat, n \in T PROVE n + 1 \in T
  <2> SUFFICES ASSUME n + 1 <= from PROVE f[n + 1] = <<>>
    OBVIOUS
  <2>1. f[n + 1] = Chosen(cells, P, f[n], n + 1)
    BY <1>0, <1>1, OneRound
  <2>2. n + 1 \notin P
    BY <1>0 DEF Taken
  <2>3. f[n] = <<>>
    BY <1>0, <1>3
  <2>4. QED
    BY <2>1, <2>2, <2>3 DEF Chosen
<1> HIDE DEF T
<1>4. \A n \in Nat : n \in T
  BY <1>2, <1>3, Rounds
<1>5. QED
  BY <1>0, <1>1, <1>4 DEF T

\* One cell more.
LEMMA TokensStep ==
    ASSUME NEW cells \in Seq(Cell), NEW from \in 0..Len(cells), NEW to \in from..Len(cells),
           to < Len(cells)
    PROVE  TokensOf(cells, from, to + 1) =
             IF cells[to + 1].k \in TokenKinds
             THEN Append(TokensOf(cells, from, to), cells[to + 1])
             ELSE TokensOf(cells, from, to)
<1>0. Len(cells) \in Nat /\ from \in Nat /\ to \in Nat /\ to + 1 \in Nat /\ to + 1 <= Len(cells)
  OBVIOUS
<1>1. PICK f : Takes(f, cells, Taken(cells, from), Len(cells)) /\ \A t : TokensOf(cells, from, t) = f[t]
  BY <1>0, TokensRounds
<1>2. f[to + 1] = Chosen(cells, Taken(cells, from), f[to], to + 1)
  BY <1>0, <1>1, OneRound
<1>3. to + 1 \in Taken(cells, from) <=> cells[to + 1].k \in TokenKinds
  BY <1>0 DEF Taken
<1>4. QED
  BY <1>1, <1>2, <1>3 DEF Chosen

\* Appending to the second of two sequences.
LEMMA AppendJoin ==
    ASSUME NEW S, NEW s \in Seq(S), NEW t \in Seq(S), NEW c \in S
    PROVE  Append(s \o t, c) = s \o Append(t, c) /\ Append(t, c) \in Seq(S)
<1>1. s \o t \in Seq(S) /\ Append(t, c) \in Seq(S) /\ Append(s \o t, c) \in Seq(S) /\ s \o Append(t, c) \in Seq(S)
  OBVIOUS
<1>2. Len(Append(s \o t, c)) = Len(s \o Append(t, c))
  OBVIOUS
<1>3. ASSUME NEW i \in 1..Len(Append(s \o t, c)) PROVE Append(s \o t, c)[i] = (s \o Append(t, c))[i]
  <2>1. CASE i <= Len(s)
    BY <2>1
  <2>2. CASE i > Len(s) /\ i <= Len(s) + Len(t)
    BY <2>2
  <2>3. CASE i = Len(s) + Len(t) + 1
    BY <2>3
  <2>4. QED
    BY <2>1, <2>2, <2>3
<1>4. QED
  BY <1>1, <1>2, <1>3

\* Characters are cells, and reading goes on where it stopped: what read()
\* takes in two calls is what it takes in one.
LEMMA TokensJoin ==
    ASSUME NEW cells \in Seq(Cell), NEW from \in 0..Len(cells), NEW mid \in from..Len(cells),
           NEW to \in mid..Len(cells)
    PROVE  /\ TokensOf(cells, mid, to) \in Seq(Cell)
           /\ TokensOf(cells, from, to) = TokensOf(cells, from, mid) \o TokensOf(cells, mid, to)
<1>0. Len(cells) \in Nat /\ from \in Nat /\ mid \in Nat /\ to \in Nat /\ mid <= to /\ from <= mid /\ mid \in 0..Len(cells)
  OBVIOUS
<1> DEFINE F(n) == TokensOf(cells, from, n)
           G(n) == TokensOf(cells, mid, n)
           TF == { d \in Nat : from + d <= Len(cells) => F(from + d) \in Seq(Cell) }
           T == { d \in Nat : mid + d <= Len(cells) =>
                    G(mid + d) \in Seq(Cell) /\ F(mid + d) = F(mid) \o G(mid + d) }
<1>1. F(mid) \in Seq(Cell)
  <2>1. 0 \in TF
    <3>1. F(from) = <<>>
      BY <1>0, TokensStart
    <3>2. QED
      BY <1>0, <3>1
  <2>2. ASSUME NEW d \in Nat, d \in TF PROVE d + 1 \in TF
    <3> SUFFICES ASSUME from + (d + 1) <= Len(cells) PROVE F(from + (d + 1)) \in Seq(Cell)
      OBVIOUS
    <3>1. from + d \in from..Len(cells) /\ from + d < Len(cells) /\ from + (d + 1) = (from + d) + 1
      BY <1>0
    <3>2. F(from + d) \in Seq(Cell)
      BY <2>2, <3>1
    <3>3. cells[(from + d) + 1] \in Cell
      BY <3>1, <1>0
    <3>4. F((from + d) + 1) = IF cells[(from + d) + 1].k \in TokenKinds
             THEN Append(F(from + d), cells[(from + d) + 1]) ELSE F(from + d)
      BY <3>1, TokensStep
    <3>5. F((from + d) + 1) \in Seq(Cell)
      <4> DEFINE a == F(from + d)
                 c == cells[(from + d) + 1]
                 b == F((from + d) + 1)
      <4>1. a \in Seq(Cell) /\ c \in Cell /\ (b = Append(a, c) \/ b = a)
        BY <3>2, <3>3, <3>4
      <4> HIDE DEF a, b, c
      <4>2. b \in Seq(Cell)
        BY <4>1
      <4>3. QED
        BY <4>2 DEF b
    <3>6. QED
      BY <3>1, <3>5
  <2> HIDE DEF TF
  <2>3. \A d \in Nat : d \in TF
    BY <2>1, <2>2, Rounds
  <2>4. mid - from \in Nat /\ from + (mid - from) = mid /\ mid <= Len(cells)
    BY <1>0
  <2>5. QED
    BY <2>3, <2>4 DEF TF
<1>2. 0 \in T
  <2>1. G(mid) = <<>>
    BY <1>0, TokensStart
  <2> HIDE DEF F, G
  <2>2. QED
    BY <1>0, <1>1, <2>1
<1>3. ASSUME NEW d \in Nat, d \in T PROVE d + 1 \in T
  <2> SUFFICES ASSUME mid + (d + 1) <= Len(cells)
               PROVE  G(mid + (d + 1)) \in Seq(Cell) /\ F(mid + (d + 1)) = F(mid) \o G(mid + (d + 1))
    OBVIOUS
  <2>1. /\ mid + d \in mid..Len(cells) /\ mid + d \in from..Len(cells)
        /\ mid + d < Len(cells) /\ mid + (d + 1) = (mid + d) + 1
    BY <1>0
  <2>2. G(mid + d) \in Seq(Cell) /\ F(mid + d) = F(mid) \o G(mid + d)
    BY <1>3, <2>1
  <2>3. cells[(mid + d) + 1] \in Cell
    BY <2>1, <1>0
  <2>4. G((mid + d) + 1) = IF cells[(mid + d) + 1].k \in TokenKinds
           THEN Append(G(mid + d), cells[(mid + d) + 1]) ELSE G(mid + d)
    BY <1>0, <2>1, TokensStep
  <2>5. F((mid + d) + 1) = IF cells[(mid + d) + 1].k \in TokenKinds
           THEN Append(F(mid + d), cells[(mid + d) + 1]) ELSE F(mid + d)
    BY <2>1, TokensStep
  <2> HIDE DEF F, G
  <2> DEFINE c == cells[(mid + d) + 1]
  <2> HIDE DEF c
  <2>6. Append(F(mid) \o G(mid + d), c) = F(mid) \o Append(G(mid + d), c) /\ Append(G(mid + d), c) \in Seq(Cell)
    BY <1>1, <2>2, <2>3, AppendJoin DEF c
  <2>7. CASE cells[(mid + d) + 1].k \in TokenKinds
    <3>1. G((mid + d) + 1) = Append(G(mid + d), c) /\ F((mid + d) + 1) = Append(F(mid + d), c)
      BY <2>4, <2>5, <2>7 DEF c
    <3>2. QED
      BY <2>1, <2>2, <2>6, <3>1
  <2>8. CASE cells[(mid + d) + 1].k \notin TokenKinds
    <3>1. G((mid + d) + 1) = G(mid + d) /\ F((mid + d) + 1) = F(mid + d)
      BY <2>4, <2>5, <2>8
    <3>2. QED
      BY <2>1, <2>2, <3>1
  <2>9. QED
    BY <2>7, <2>8
<1> HIDE DEF T
<1>4. \A d \in Nat : d \in T
  BY <1>2, <1>3, Rounds
<1>5. to - mid \in Nat /\ mid + (to - mid) = to /\ to <= Len(cells)
  BY <1>0
<1>6. QED
  BY <1>4, <1>5 DEF T

-----------------------------------------------------------------------------
(* try_decode_engine_slice.                                                *)

\* There is a longest slice that decodes, if only the empty one.
LEMMA DecodableFacts ==
    ASSUME NEW s \in Seq(Cell)
    PROVE  /\ Decodable(s) \in Nat
           /\ 4 * Decodable(s) <= Len(s)
           /\ Decodes(s, Decodable(s))
<1> DEFINE m == Len(s) \div 4
           T == { n \in 0..m : Decodes(s, n) }
<1>1. m \in Nat /\ 4 * m <= Len(s)
  <2>1. Len(s) \in Nat
    OBVIOUS
  <2>2. QED
    BY <2>1
<1> HIDE DEF m
<1>2. 0 \in T
  BY <1>1 DEF Decodes
<1>3. Max(T) \in T
  BY <1>1, <1>2, MaxFacts
<1>4. Decodable(s) = Max(T)
  BY DEF Decodable, m
<1>5. Decodable(s) \in 0..m /\ Decodes(s, Decodable(s))
  BY <1>3, <1>4
<1>6. QED
  BY <1>1, <1>5

\* The characters of a quad.
LEMMA QuadFacts ==
    ASSUME NEW s \in Seq(Cell), NEW n \in Nat, n >= 1, 4 * n <= Len(s)
    PROVE  /\ Quad(s, n) \in Seq(Cell) /\ Len(Quad(s, n)) = 4
           /\ \A i \in 1..4 : /\ Quad(s, n)[i] = s[4 * (n - 1) + i]
                              /\ Quad(s, n)[i] \in Cell
                              /\ 4 * (n - 1) + i \in 1..Len(s)
<1>1. /\ Len(s) \in Nat /\ 4 * n - 3 \in 1..Len(s) /\ 4 * n \in 1..Len(s) /\ 4 * n - (4 * n - 3) + 1 = 4
      /\ \A i \in 1..4 : (4 * n - 3) + i - 1 = 4 * (n - 1) + i /\ 4 * (n - 1) + i \in 1..Len(s)
  OBVIOUS
<1> DEFINE a == 4 * n - 3
           b == 4 * n
<1>2. SubSeq(s, a, b) \in Seq(Cell) /\ Len(SubSeq(s, a, b)) = 4
  BY <1>1
<1>3. \A i \in 1..4 : SubSeq(s, a, b)[i] = s[4 * (n - 1) + i]
  BY <1>1
<1>4. \A i \in 1..4 : s[4 * (n - 1) + i] \in Cell
  BY <1>1
<1>5. QED
  BY <1>1, <1>2, <1>3, <1>4 DEF Quad

\* A valid quad is one to three octets, three when it is full.
LEMMA QuadDecodes ==
    ASSUME NEW s \in Seq(Cell), Len(s) = 4
    PROVE  /\ QuadLen(s) \in 1..3
           /\ QuadFull(s) => QuadLen(s) = 3
           /\ DecodeQuad(s) \in [1..QuadLen(s) -> Nat]
<1>1. QuadLen(s) \in 1..3 /\ (QuadFull(s) => QuadLen(s) = 3)
  BY DEF QuadLen
<1>2. s[1].q \in Nat
  <2>1. s[1] \in Cell
    OBVIOUS
  <2>2. QED
    BY <2>1 DEF Cell
<1> DEFINE n == QuadLen(s)
           q == s[1].q
<1>3. n \in Nat /\ q \in Nat
  BY <1>1, <1>2
<1> HIDE DEF n, q
<1>4. [j \in 1..n |-> 10 * q + j] \in [1..n -> Nat] /\ [j \in 1..n |-> 0] \in [1..n -> Nat]
  BY <1>3
<1>5. DecodeQuad(s) = [j \in 1..n |-> 10 * q + j] \/ DecodeQuad(s) = [j \in 1..n |-> 0]
  BY DEF DecodeQuad, Octets, n, q
<1>6. DecodeQuad(s) \in [1..n -> Nat]
  BY <1>4, <1>5
<1>7. QED
  BY <1>1, <1>6 DEF n

\* Counting by threes.
LEMMA ByThrees ==
    ASSUME NEW p \in Nat, p >= 1
    PROVE  /\ ((p - 1) \div 3) + 1 \in Nat /\ ((p - 1) \div 3) + 1 >= 1
           /\ ((p - 1) % 3) + 1 \in 1..3
           /\ p = 3 * (((p - 1) \div 3) + 1 - 1) + (((p - 1) % 3) + 1)
<1> DEFINE d == (p - 1) \div 3
           r == (p - 1) % 3
<1>1. p - 1 \in Nat
  OBVIOUS
<1>2. d \in Nat /\ r \in 0..2 /\ p - 1 = 3 * d + r
  BY <1>1
<1> HIDE DEF d, r
<1>3. d + 1 \in Nat /\ d + 1 >= 1 /\ r + 1 \in 1..3 /\ p = 3 * (d + 1 - 1) + (r + 1)
  BY <1>2
<1>4. QED
  BY <1>3 DEF d, r

\* What is decoded, octet by octet of each quad.
LEMMA PrefixFacts ==
    ASSUME NEW s \in Seq(Cell), NEW N, N = Decodable(s), N >= 1
    PROVE  /\ DecodedPrefix(s) \in Seq(Nat)
           /\ Len(DecodedPrefix(s)) = 3 * (N - 1) + QuadLen(Quad(s, N))
           /\ \A p \in 1..Len(DecodedPrefix(s)) :
                 \E n \in 1..N, j \in 1..3 :
                     /\ p = 3 * (n - 1) + j
                     /\ j <= QuadLen(Quad(s, n))
                     /\ DecodedPrefix(s)[p] = DecodeQuad(Quad(s, n))[j]
<1>1. N \in Nat /\ 4 * N <= Len(s) /\ Decodes(s, N) /\ N # 0
  BY DecodableFacts
<1>2. ASSUME NEW n \in 1..N
      PROVE  /\ QuadLen(Quad(s, n)) \in 1..3
             /\ n < N => QuadLen(Quad(s, n)) = 3
             /\ DecodeQuad(Quad(s, n)) \in [1..QuadLen(Quad(s, n)) -> Nat]
  <2>1. n \in Nat /\ n >= 1 /\ 4 * n <= Len(s)
    BY <1>1
  <2>2. Quad(s, n) \in Seq(Cell) /\ Len(Quad(s, n)) = 4
    BY <2>1, QuadFacts
  <2>3. n < N => QuadFull(Quad(s, n))
    BY <1>1, <2>1 DEF Decodes
  <2>4. QED
    BY <2>2, <2>3, QuadDecodes
<1> DEFINE total == 3 * (N - 1) + QuadLen(Quad(s, N))
           D(p) == DecodeQuad(Quad(s, ((p - 1) \div 3) + 1))[((p - 1) % 3) + 1]
<1>3. QuadLen(Quad(s, N)) \in 1..3
  BY <1>1, <1>2
<1>4. total \in Nat
  BY <1>1, <1>3
<1>5. DecodedPrefix(s) = [p \in 1..total |-> D(p)]
  BY <1>1 DEF DecodedPrefix
<1>6. ASSUME NEW p \in 1..total
      PROVE  /\ D(p) \in Nat
             /\ \E n \in 1..N, j \in 1..3 :
                  p = 3 * (n - 1) + j /\ j <= QuadLen(Quad(s, n)) /\ D(p) = DecodeQuad(Quad(s, n))[j]
  <2> DEFINE n == ((p - 1) \div 3) + 1
             j == ((p - 1) % 3) + 1
  <2>1. p \in Nat /\ p >= 1 /\ p <= total
    BY <1>4
  <2>2. n \in Nat /\ n >= 1 /\ j \in 1..3 /\ p = 3 * (n - 1) + j
    BY <2>1, ByThrees
  <2>3. D(p) = DecodeQuad(Quad(s, n))[j]
    OBVIOUS
  <2> HIDE DEF n, j, D
  <2>4. n <= N
    BY <1>1, <1>3, <2>1, <2>2
  <2>5. j <= QuadLen(Quad(s, n))
    <3>1. CASE n < N
      BY <1>1, <1>2, <2>2, <2>4, <3>1
    <3>2. CASE n = N
      <4> DEFINE l == QuadLen(Quad(s, N))
      <4>1. l \in 1..3 /\ p <= 3 * (N - 1) + l /\ p = 3 * (N - 1) + j
        BY <1>3, <2>1, <2>2, <3>2
      <4> HIDE DEF l
      <4>2. j <= l
        BY <1>1, <2>2, <4>1
      <4>3. QED
        BY <3>2, <4>2 DEF l
    <3>3. QED
      BY <1>1, <2>2, <2>4, <3>1, <3>2
  <2>6. n \in 1..N
    BY <1>1, <2>2, <2>4
  <2>7. DecodeQuad(Quad(s, n))[j] \in Nat
    BY <1>2, <2>2, <2>5, <2>6
  <2>8. QED
    BY <2>2, <2>3, <2>5, <2>6, <2>7
<1> HIDE DEF D, total
<1>7. DecodedPrefix(s) \in Seq(Nat) /\ Len(DecodedPrefix(s)) = total /\ \A p \in 1..total : DecodedPrefix(s)[p] = D(p)
  <2>1. [p \in 1..total |-> D(p)] \in Seq(Nat) /\ Len([p \in 1..total |-> D(p)]) = total
    BY <1>4, <1>6
  <2>2. QED
    BY <1>5, <2>1
<1>8. ASSUME NEW p \in 1..Len(DecodedPrefix(s))
      PROVE  \E n \in 1..N, j \in 1..3 :
                 /\ p = 3 * (n - 1) + j
                 /\ j <= QuadLen(Quad(s, n))
                 /\ DecodedPrefix(s)[p] = DecodeQuad(Quad(s, n))[j]
  <2>1. p \in 1..total /\ DecodedPrefix(s)[p] = D(p)
    BY <1>7
  <2>2. QED
    BY <1>6, <2>1, Zenon
<1>9. Len(DecodedPrefix(s)) = 3 * (N - 1) + QuadLen(Quad(s, N))
  BY <1>7 DEF total
<1>10. QED
  BY <1>7, <1>8, <1>9

-----------------------------------------------------------------------------
(* Decoding gives back what was encoded.                                   *)

\* Octets of the first k quads.
OctetsIn(k, len) == IF 3 * k <= len THEN 3 * k ELSE len

\* How octets are spread over quads: three in each but the last.
LEMMA QuadCount ==
    ASSUME NEW len \in Nat
    PROVE  /\ Quads(len) \in Nat
           /\ \A n \in 1..Quads(len) :
                 /\ QuadOctets(len, n) \in 1..3
                 /\ OctetsIn(n, len) = 3 * (n - 1) + QuadOctets(len, n)
                 /\ OctetsIn(n - 1, len) = 3 * (n - 1)
<1> DEFINE Q == Quads(len)
<1>1. Q \in Nat /\ 3 * Q >= len /\ 3 * Q <= len + 2
  BY DEF Quads
<1>2. \A n : QuadOctets(len, n) = IF n < Q THEN 3 ELSE len - 3 * (n - 1)
  BY DEF QuadOctets
<1> HIDE DEF Q
<1>3. ASSUME NEW n \in 1..Q
      PROVE  /\ QuadOctets(len, n) \in 1..3
             /\ OctetsIn(n, len) = 3 * (n - 1) + QuadOctets(len, n)
             /\ OctetsIn(n - 1, len) = 3 * (n - 1)
  <2>1. CASE n < Q
    BY <1>1, <1>2, <2>1 DEF OctetsIn
  <2>2. CASE n = Q
    BY <1>1, <1>2, <2>2 DEF OctetsIn
  <2>3. QED
    BY <1>1, <2>1, <2>2
<1>4. QED
  BY <1>1, <1>3 DEF Q

\* The characters of a quad decode to its octets.
LEMMA QuadExact ==
    ASSUME NEW body \in Seq(Nat), NEW n \in 1..Quads(Len(body)), NEW s \in Seq(Cell), Len(s) = 4,
           \A i \in 1..4 : CharOf(s[i], n, i, body)
    PROVE  /\ QuadLen(s) = QuadOctets(Len(body), n)
           /\ \A j \in 1..QuadLen(s) : DecodeQuad(s)[j] = body[3 * (n - 1) + j]
<1> DEFINE r == QuadOctets(Len(body), n)
<1>1. r \in 1..3 /\ n \in Nat /\ n >= 1
  <2>1. Len(body) \in Nat
    OBVIOUS
  <2>2. QED
    BY <2>1, QuadCount
<1>2. \A i \in 1..4 : /\ i <= r + 1 => /\ s[i].k = "tok" /\ s[i].i = i
                                       /\ \A j \in 1..r : body[3 * (n - 1) + j] = 10 * s[i].q + j
                      /\ i > r + 1 => s[i].k = "eq"
  BY <1>1 DEF CharOf
<1> HIDE DEF r
<1>3. QuadLen(s) = r
  <2>1. \A i \in 1..4 : NotEq(s[i]) <=> i <= r + 1
    BY <1>1, <1>2 DEF NotEq
  <2>2. QED
    BY <1>1, <2>1 DEF QuadLen, QuadFull
<1>4. \A i \in 1..4 : s[i] \in Cell
  BY ElementsOf
<1>5. ASSUME NEW i \in 1..4, i <= r + 1 PROVE s[i] = [k |-> "tok", q |-> s[1].q, i |-> i]
  <2>1. s[i].q \in Nat /\ s[1].q \in Nat
    BY <1>4 DEF Cell
  <2>2. 1 \in 1..4 /\ 1 <= r + 1 /\ 1 \in 1..r
    BY <1>1
  <2>3. body[3 * (n - 1) + 1] = 10 * s[i].q + 1 /\ body[3 * (n - 1) + 1] = 10 * s[1].q + 1
    BY <1>2, <1>5, <2>2
  <2>4. s[i].q = s[1].q
    BY <2>1, <2>3
  <2>5. QED
    BY <1>2, <1>4, <1>5, <2>4 DEF Cell
<1>6. DecodeQuad(s) = Octets(s[1].q, r)
  <2>1. \A i \in 1..(r + 1) : i \in 1..4 /\ i <= r + 1
    BY <1>1
  <2>2. QED
    BY <1>3, <1>5, <2>1 DEF DecodeQuad
<1>7. ASSUME NEW j \in 1..r PROVE DecodeQuad(s)[j] = body[3 * (n - 1) + j]
  <2>1. DecodeQuad(s)[j] = 10 * s[1].q + j
    BY <1>6 DEF Octets
  <2>2. 1 \in 1..4 /\ 1 <= r + 1
    BY <1>1
  <2>3. QED
    BY <1>2, <2>1, <2>2
<1>8. QED
  BY <1>3, <1>7 DEF r

\* The characters behind the first k quads.
RestOf(s, chars, k) ==
    /\ s \in Seq(Cell)
    /\ Len(s) = Len(chars) - 4 * k
    /\ \A i \in 1..Len(s) : s[i] = chars[4 * k + i]

\* Behind k quads of the body N more are to be decoded.
Decoding(body, chars, k, s, N) ==
    /\ Encodes(chars, body)
    /\ k <= Quads(Len(body)) /\ RestOf(s, chars, k)
    /\ N = Decodable(s) /\ N >= 1

\* A quad of what is left is a quad of the body.
LEMMA QuadOfRest ==
    ASSUME NEW chars \in Seq(Cell), NEW k \in Nat, NEW s, RestOf(s, chars, k), NEW n \in Nat, n >= 1, 4 * n <= Len(s)
    PROVE  /\ Quad(s, n) \in Seq(Cell) /\ Len(Quad(s, n)) = 4
           /\ \A i \in 1..4 : /\ Quad(s, n)[i] = chars[4 * (k + n - 1) + i]
                              /\ 4 * (k + n - 1) + i <= Len(chars)
<1>1. s \in Seq(Cell) /\ Len(s) = Len(chars) - 4 * k /\ \A i \in 1..Len(s) : s[i] = chars[4 * k + i]
  BY DEF RestOf
<1>2. Len(chars) \in Nat /\ Len(s) \in Nat
  BY <1>1
<1>3. /\ Quad(s, n) \in Seq(Cell) /\ Len(Quad(s, n)) = 4
      /\ \A i \in 1..4 : Quad(s, n)[i] = s[4 * (n - 1) + i] /\ 4 * (n - 1) + i \in 1..Len(s)
  BY <1>1, QuadFacts
<1>4. ASSUME NEW i \in 1..4
      PROVE  Quad(s, n)[i] = chars[4 * (k + n - 1) + i] /\ 4 * (k + n - 1) + i <= Len(chars)
  <2> DEFINE m == 4 * (n - 1) + i
  <2>1. m \in 1..Len(s) /\ Quad(s, n)[i] = s[m]
    BY <1>3
  <2>2. 4 * k + m = 4 * (k + n - 1) + i
    OBVIOUS
  <2>3. s[m] = chars[4 * k + m]
    BY <1>1, <2>1
  <2> HIDE DEF m
  <2>4. 4 * k + m <= Len(chars)
    BY <1>1, <1>2, <2>1
  <2>5. QED
    BY <2>1, <2>2, <2>3, <2>4
<1>5. QED
  BY <1>3, <1>4

\* No octet is made of the checksum: its first character is padding.
LEMMA NotTheChecksum ==
    ASSUME NEW body \in Seq(Nat), NEW chars \in Seq(Cell), NEW k \in Nat, NEW s, NEW N, Decoding(body, chars, k, s, N)
    PROVE  /\ N \in Nat /\ N >= 1 /\ 4 * N <= Len(s)
           /\ k + N <= Quads(Len(body))
<1> DEFINE Q == Quads(Len(body))
<1>1. Q \in Nat
  <2>1. Len(body) \in Nat
    OBVIOUS
  <2>2. QED
    BY <2>1, QuadCount
<1>2. s \in Seq(Cell) /\ RestOf(s, chars, k) /\ N = Decodable(s) /\ N >= 1 /\ k <= Q
  BY DEF Decoding, RestOf
<1>3. N \in Nat /\ 4 * N <= Len(s) /\ Decodes(s, N)
  BY <1>2, DecodableFacts
<1>4. Encodes(chars, body)
  BY DEF Decoding
<1> HIDE DEF Q
<1>5. Len(s) \in Nat /\ Len(chars) \in Nat
  BY <1>2
<1>6. k + N <= Q
  <2> SUFFICES ASSUME k + N > Q PROVE FALSE
    BY <1>1, <1>3
  <2>1. PICK n \in Nat : n = Q - k + 1
    BY <1>1, <1>2
  <2>2. n >= 1 /\ n <= N /\ 4 * n <= Len(s) /\ 4 * (k + n - 1) + 1 = 4 * Q + 1
    BY <1>1, <1>2, <1>3, <1>5, <2>1
  <2>3. Quad(s, n)[1] = chars[4 * Q + 1] /\ 4 * Q + 1 <= Len(chars)
    BY <1>2, <2>2, QuadOfRest
  <2>4. Len(chars) > 4 * Q
    BY <1>1, <1>5, <2>3
  <2>5. chars[4 * Q + 1].k = "eq"
    BY <1>4, <2>4 DEF Encodes, Q
  <2>6. n \in 1..N
    BY <1>3, <2>2
  <2>7. QuadOk(Quad(s, n))
    BY <1>3, <2>6 DEF Decodes
  <2>8. QED
    BY <2>3, <2>5, <2>7 DEF QuadOk, NotEq
<1>7. QED
  BY <1>2, <1>3, <1>6 DEF Q

\* Decoding goes on where it stopped: behind k quads of the body, the octets
\* decoded from what has been read are the next ones of the body.
LEMMA DecodeExact ==
    ASSUME NEW body \in Seq(Nat), NEW chars \in Seq(Cell), NEW k \in Nat, NEW s, NEW N, Decoding(body, chars, k, s, N)
    PROVE  /\ DecodedPrefix(s) \in Seq(Nat)
           /\ Len(DecodedPrefix(s)) = OctetsIn(k + N, Len(body)) - OctetsIn(k, Len(body))
           /\ \A p \in 1..Len(DecodedPrefix(s)) : DecodedPrefix(s)[p] = body[OctetsIn(k, Len(body)) + p]
<1> DEFINE len == Len(body)
           Q == Quads(len)
           D == DecodedPrefix(s)
<1>1. len \in Nat /\ Q \in Nat
  <2>1. Len(body) \in Nat
    OBVIOUS
  <2>2. QED
    BY <2>1, QuadCount
<1>2. N \in Nat /\ N >= 1 /\ 4 * N <= Len(s) /\ k + N <= Q
  BY NotTheChecksum
<1>3. s \in Seq(Cell) /\ RestOf(s, chars, k) /\ N = Decodable(s) /\ Encodes(chars, body)
  BY DEF Decoding, RestOf
<1>4. Len(s) \in Nat
  BY <1>3
<1>5. ASSUME NEW n \in 1..N
      PROVE  /\ k + n \in 1..Q
             /\ QuadOctets(len, k + n) \in 1..3
             /\ QuadLen(Quad(s, n)) = QuadOctets(len, k + n)
             /\ \A j \in 1..QuadLen(Quad(s, n)) : DecodeQuad(Quad(s, n))[j] = body[3 * (k + n - 1) + j]
  <2> HIDE DEF len, Q
  <2>1. k + n \in 1..Q /\ n \in Nat /\ n >= 1 /\ 4 * n <= Len(s)
    BY <1>1, <1>2, <1>4
  <2>2. /\ Quad(s, n) \in Seq(Cell) /\ Len(Quad(s, n)) = 4
        /\ \A i \in 1..4 : /\ Quad(s, n)[i] = chars[4 * (k + n - 1) + i]
                           /\ 4 * (k + n - 1) + i <= Len(chars)
    BY <1>3, <2>1, QuadOfRest
  <2>3. PICK m \in 1..Q : m = k + n
    BY <2>1
  <2>4. ASSUME NEW i \in 1..4 PROVE CharOf(Quad(s, n)[i], m, i, body)
    <3>1. Quad(s, n)[i] = chars[4 * (m - 1) + i] /\ 4 * (m - 1) + i <= Len(chars)
      <4>1. Quad(s, n)[i] = chars[4 * (k + n - 1) + i] /\ 4 * (k + n - 1) + i <= Len(chars)
        BY <2>2
      <4>2. 4 * (k + n - 1) + i = 4 * (m - 1) + i
        BY <2>3
      <4>3. QED
        BY <4>1, <4>2
    <3>2. CharOf(chars[4 * (m - 1) + i], m, i, body)
      BY <1>3, <3>1 DEF Encodes, Q, len
    <3>3. QED
      BY <3>1, <3>2
  <2>5. QuadOctets(len, m) \in 1..3
    BY <1>1, QuadCount DEF Q
  <2>6. /\ QuadLen(Quad(s, n)) = QuadOctets(len, m)
        /\ \A j \in 1..QuadLen(Quad(s, n)) : DecodeQuad(Quad(s, n))[j] = body[3 * (m - 1) + j]
    BY <2>2, <2>3, <2>4, QuadExact DEF Q, len
  <2>7. QuadOctets(len, k + n) \in 1..3 /\ QuadLen(Quad(s, n)) = QuadOctets(len, k + n)
    BY <2>3, <2>5, <2>6, Zenon
  <2>8. ASSUME NEW j \in 1..QuadLen(Quad(s, n))
        PROVE  DecodeQuad(Quad(s, n))[j] = body[3 * (k + n - 1) + j]
    <3>1. DecodeQuad(Quad(s, n))[j] = body[3 * (m - 1) + j]
      BY <2>6
    <3>2. 3 * (m - 1) + j = 3 * (k + n - 1) + j
      BY <2>3
    <3>3. QED
      BY <3>1, <3>2, Zenon
  <2>9. QED
    BY <2>1, <2>7, <2>8, Zenon
<1> HIDE DEF len, Q
<1>6. OctetsIn(k, len) = 3 * k /\ OctetsIn(k + N, len) = 3 * (k + N - 1) + QuadOctets(len, k + N)
  <2>1. PICK a \in 1..Q, b \in 1..Q : a - 1 = k /\ b = k + N
    BY <1>1, <1>2
  <2>2. \A n \in 1..Q : /\ OctetsIn(n, len) = 3 * (n - 1) + QuadOctets(len, n)
                        /\ OctetsIn(n - 1, len) = 3 * (n - 1)
    BY <1>1, QuadCount DEF Q
  <2>3. OctetsIn(a - 1, len) = 3 * (a - 1) /\ OctetsIn(b, len) = 3 * (b - 1) + QuadOctets(len, b)
    BY <2>2
  <2>4. a \in Nat /\ b \in Nat /\ a = k + 1
    BY <1>1, <2>1
  <2>5. OctetsIn(k, len) = 3 * k
    BY <2>1, <2>3
  <2>6. OctetsIn(k + N, len) = 3 * (k + N - 1) + QuadOctets(len, k + N)
    BY <1>2, <2>1, <2>3
  <2>7. QED
    BY <2>5, <2>6
<1>7. /\ D \in Seq(Nat)
      /\ Len(D) = 3 * (N - 1) + QuadLen(Quad(s, N))
      /\ \A p \in 1..Len(D) :
            \E n \in 1..N, j \in 1..3 :
                p = 3 * (n - 1) + j /\ j <= QuadLen(Quad(s, n)) /\ D[p] = DecodeQuad(Quad(s, n))[j]
  BY <1>2, <1>3, PrefixFacts
<1> HIDE DEF D
<1>8. Len(D) = OctetsIn(k + N, len) - OctetsIn(k, len)
  <2> DEFINE l == QuadOctets(len, k + N)
  <2>1. l \in 1..3 /\ QuadLen(Quad(s, N)) = l
    BY <1>2, <1>5
  <2>2. Len(D) = 3 * (N - 1) + l /\ OctetsIn(k + N, len) = 3 * (k + N - 1) + l
    BY <1>6, <1>7, <2>1
  <2> HIDE DEF l
  <2> DEFINE a == OctetsIn(k, len)
             b == OctetsIn(k + N, len)
  <2>3. a = 3 * k /\ b = 3 * (k + N - 1) + l
    BY <1>6, <2>2
  <2> HIDE DEF a, b
  <2>4. Len(D) = b - a
    BY <1>2, <2>1, <2>2, <2>3
  <2>5. QED
    BY <2>4 DEF a, b
<1>9. ASSUME NEW p \in 1..Len(D) PROVE D[p] = body[OctetsIn(k, len) + p]
  <2>1. PICK n \in 1..N, j \in 1..3 :
           p = 3 * (n - 1) + j /\ j <= QuadLen(Quad(s, n)) /\ D[p] = DecodeQuad(Quad(s, n))[j]
    BY <1>7
  <2>2. j \in 1..QuadLen(Quad(s, n))
    <3>1. QuadLen(Quad(s, n)) \in 1..3
      BY <1>5
    <3>2. QED
      BY <2>1, <3>1
  <2>3. 3 * (k + n - 1) + j = 3 * k + p
    BY <1>2, <2>1
  <2>4. D[p] = body[3 * (k + n - 1) + j]
    BY <1>5, <2>1, <2>2
  <2>5. QED
    BY <1>6, <2>3, <2>4
<1>10. QED
  BY <1>7, <1>8, <1>9 DEF len, D

-----------------------------------------------------------------------------
(* The inductive invariant.                                                *)

TypeInv ==
    /\ src \in Texts
    /\ first \in 1..Len(Cells) /\ (src.fail > 0 => first <= src.fail)
    /\ wrapped \in BOOLEAN /\ faulted \in BOOLEAN /\ err \in BOOLEAN /\ filled \in BOOLEAN
    /\ pos \in 0..Len(Cells) /\ (Failing => pos <= src.fail)
    /\ part \in Parts
    /\ dec \in Seq(Cell)
    /\ out \in Seq(Nat) /\ read \in Seq(Nat) /\ got \in Seq(Nat)
    /\ errs \in Nat
    /\ want \in Nat /\ (want = 0 => read = <<>>) /\ (want > 0 => Len(read) < want)

\* Where read() is, and what is gone when it has failed.
Flow ==
    /\ ~wrapped => part = "Body" /\ read = <<>>
    /\ filled => part = "Body" /\ out = <<>> /\ ~err
    /\ part # "Body" => out = <<>>
    /\ part = "Header" => got = <<>> /\ read = <<>> /\ dec = <<>> /\ ~err /\ errs = 0
    /\ errs > 0 => read = <<>> /\ (IF wrapped THEN part \in {"Temp", "Done"} ELSE err /\ out = <<>>)

\* The octets decoded so far.
Given == got \o read \o out

Starts(s, t) == Len(s) <= Len(t) /\ \A i \in 1..Len(s) : s[i] = t[i]

\* Behind k quads: their octets are given, what has been read of the rest is in dec.
AtQuad(k) ==
    /\ k <= Quads(Len(src.body))
    /\ RestOf(dec, Tokens(src.hdr, pos), k)
    /\ Len(Given) = OctetsIn(k, Len(src.body))

Exact ==
    HeaderWhole =>
        /\ Starts(Given, src.body)
        /\ (part = "Body" /\ ~err) => src.hdr <= pos /\ InBodyOf(src, pos) /\ \E k \in Nat : AtQuad(k)

DInv == TypeInv /\ Flow /\ Exact

-----------------------------------------------------------------------------
(* The header and the end of a read.                                       *)

\* A text is what is assumed of it.
LEMMA TextFacts ==
    ASSUME NEW t \in Texts
    PROVE  /\ t.cells \in Seq(Cell) /\ Len(t.cells) \in Nat
           /\ t.fail \in Nat /\ t.hdr \in Nat
           /\ t.body \in Seq(Nat) /\ t.payload \in Seq(Nat)
           /\ Layout(t)
<1>1. t \in Text /\ Layout(t)
  BY TextsAssumption
<1>2. t.cells \in Seq(Cell) /\ t.fail \in Nat /\ t.hdr \in Nat /\ t.body \in Seq(Nat) /\ t.payload \in Seq(Nat)
  BY <1>1 DEF Text
<1>3. Len(t.cells) \in Nat
  BY <1>2
<1>4. QED
  BY <1>1, <1>2, <1>3

\* Line breaks are skipped.
LEMMA TokensNone ==
    ASSUME NEW cells \in Seq(Cell), NEW from \in 0..Len(cells), NEW to \in from..Len(cells),
           \A i \in (from + 1)..to : cells[i].k = "nl"
    PROVE  TokensOf(cells, from, to) = <<>>
<1>0. Len(cells) \in Nat /\ from \in Nat /\ to \in Nat /\ from <= to
  OBVIOUS
<1> DEFINE F(n) == TokensOf(cells, from, n)
           T == { d \in Nat : from + d <= to => F(from + d) = <<>> }
<1>1. 0 \in T
  <2>1. F(from) = <<>>
    BY <1>0, TokensStart
  <2>2. QED
    BY <1>0, <2>1
<1>2. ASSUME NEW d \in Nat, d \in T PROVE d + 1 \in T
  <2> SUFFICES ASSUME from + (d + 1) <= to PROVE F(from + (d + 1)) = <<>>
    OBVIOUS
  <2>1. PICK m \in from..Len(cells) : m = from + d /\ m < Len(cells) /\ m + 1 = from + (d + 1) /\ m + 1 \in (from + 1)..to
    BY <1>0
  <2>2. cells[m + 1].k \notin TokenKinds
    BY <2>1 DEF TokenKinds
  <2>3. F(m + 1) = F(m)
    BY <2>1, <2>2, TokensStep
  <2>4. F(m) = <<>>
    BY <1>0, <1>2, <2>1
  <2>5. QED
    BY <2>1, <2>3, <2>4
<1> HIDE DEF T
<1>3. \A d \in Nat : d \in T
  BY <1>1, <1>2, Rounds
<1>4. PICK d \in Nat : from + d = to
  <2>1. to - from \in Nat /\ from + (to - from) = to
    BY <1>0
  <2>2. QED
    BY <2>1
<1>5. F(from + d) = <<>>
  <2>1. d \in T
    BY <1>3
  <2>2. from + d <= to
    BY <1>0, <1>4
  <2> HIDE DEF F
  <2>3. QED
    BY <2>1, <2>2 DEF T
<1>6. QED
  BY <1>4, <1>5

\* header_parser stops inside the buffer.
LEMMA HeaderStops ==
    ASSUME src \in Texts, first \in 1..Len(Cells), HeaderParses
    PROVE  /\ BeginAt \in 1..first
           /\ PairsEnd \in Nat /\ PairsEnd > BeginAt
           /\ BodyStarts \in SUBSET Nat /\ BodyStarts # {}
           /\ HeaderEnd \in 0..(first - 1)
           /\ HeaderEnd + 1 \in BodyStarts /\ \A i \in BodyStarts : HeaderEnd < i
<1>1. Len(Cells) \in Nat /\ first \in Nat /\ first >= 1
  BY TextFacts DEF Cells
<1> DEFINE A == Places({"begin", "end", "otherend"}, 1, first)
<1>2. BeginAt \in 1..first
  <2>1. A \in SUBSET Nat /\ \A i \in A : i <= first
    BY <1>1 DEF Places
  <2>2. BeginAt > 0 /\ BeginAt = IF A = {} THEN 0 ELSE Min(A)
    BY DEF HeaderParses, BeginAt
  <2> HIDE DEF A
  <2>3. A # {} /\ BeginAt = Min(A)
    BY <2>2
  <2>4. Min(A) \in A
    BY <2>1, <2>3, MinFacts
  <2>5. BeginAt \in Nat /\ BeginAt <= first
    BY <2>1, <2>3, <2>4
  <2>6. QED
    BY <1>1, <2>2, <2>5
<1> DEFINE S == Places({"sep"}, BeginAt + 2, first)
<1>3. PairsEnd \in Nat /\ PairsEnd > BeginAt
  <2>1. S \in SUBSET (0..first) /\ \A i \in S : i > BeginAt
    BY <1>1, <1>2 DEF Places
  <2>2. PairsEnd = IF S = {} THEN BeginAt + 1 ELSE Max(S)
    BY DEF PairsEnd
  <2> HIDE DEF S
  <2>3. CASE S = {}
    BY <1>2, <2>2, <2>3
  <2>4. CASE S # {}
    <3>1. Max(S) \in S
      BY <1>1, <2>1, <2>4, MaxFacts
    <3>2. PICK m \in S : m = Max(S)
      BY <3>1
    <3>3. m \in Nat /\ m > BeginAt
      BY <1>1, <2>1
    <3>4. QED
      BY <2>2, <2>4, <3>2, <3>3
  <2>5. QED
    BY <2>3, <2>4
<1>4. BodyStarts \in SUBSET Nat /\ BodyStarts # {} /\ \A i \in BodyStarts : i >= 1 /\ i <= first
  BY <1>1, <1>2, <1>3 DEF BodyStarts, HeaderParses
<1>5. Min(BodyStarts) \in BodyStarts /\ \A i \in BodyStarts : Min(BodyStarts) <= i
  BY <1>4, MinFacts
<1>6. HeaderEnd = Min(BodyStarts) - 1
  BY DEF HeaderEnd
<1>7. PICK m \in BodyStarts : m = Min(BodyStarts)
  BY <1>5
<1>8. m \in Nat /\ m >= 1 /\ m <= first /\ \A i \in BodyStarts : m <= i
  BY <1>4, <1>5, <1>7
<1>9. HeaderEnd = m - 1
  BY <1>6, <1>7
<1>10. HeaderEnd \in 0..(first - 1) /\ HeaderEnd + 1 = m
  BY <1>1, <1>8, <1>9
<1>11. \A i \in BodyStarts : HeaderEnd < i
  BY <1>4, <1>8, <1>9
<1>12. QED
  BY <1>2, <1>3, <1>4, <1>7, <1>10, <1>11

\* When the buffer holds the whole header and no other pair, header_parser
\* stops in front of the body, or inside its leading line breaks.
LEMMA HeaderExact ==
    ASSUME src \in Texts, first \in 1..Len(Cells), HeaderParses, HeaderWhole
    PROVE  /\ src.hdr \in Nat /\ src.hdr <= HeaderEnd
           /\ \A i \in (src.hdr + 1)..HeaderEnd : Cells[i].k = "nl"
<1>1. /\ Len(Cells) \in Nat /\ first \in Nat /\ first >= 1 /\ first <= Len(Cells)
      /\ src.hdr \in Nat /\ src.hdr < first /\ Layout(src)
      /\ \A i \in (src.hdr + 1)..first : Cells[i].k # "sep"
  BY TextFacts DEF Cells, HeaderWhole, NoForeignPair
<1>2. HeaderLayout(src)
  <2>1. src.hdr < Len(src.cells)
    BY <1>1 DEF Cells
  <2>2. QED
    BY <1>1, <2>1 DEF Layout
<1>3. PICK b \in 1..(src.hdr - 2), p \in 2..(src.hdr - 1) :
         /\ Cells[b].k = "begin" /\ Cells[b + 1].k = "begun"
         /\ \A i \in 1..(b - 1) : Cells[i].k \notin {"begin", "end", "otherend"}
         /\ p = b + 1 \/ (p > b + 1 /\ Cells[p].k = "sep")
         /\ \A i \in (p + 1)..src.hdr : Cells[i].k = "nl"
  BY <1>2 DEF HeaderLayout, Cells
<1>4. b \in Nat /\ b >= 1 /\ b < src.hdr /\ p \in Nat /\ p < src.hdr /\ p >= b + 1
  BY <1>1, <1>3
<1>5. /\ BeginAt \in 1..first /\ HeaderEnd \in 0..(first - 1)
      /\ HeaderEnd + 1 \in BodyStarts /\ \A i \in BodyStarts : HeaderEnd < i
  BY HeaderStops
<1>6. BeginAt = b
  <2> DEFINE A == Places({"begin", "end", "otherend"}, 1, first)
  <2>1. A \in SUBSET Nat /\ b \in A
    BY <1>1, <1>3, <1>4 DEF Places
  <2>2. BeginAt = Min(A)
    BY <2>1 DEF BeginAt
  <2>3. Min(A) \in A /\ Min(A) <= b
    BY <2>1, MinFacts
  <2>4. \A i \in A : i \in Nat /\ i >= 1 /\ Cells[i].k \in {"begin", "end", "otherend"}
    BY <1>1 DEF Places
  <2>5. PICK m \in A : m = Min(A)
    BY <2>3
  <2>6. m \in Nat /\ m >= 1 /\ m <= b /\ Cells[m].k \in {"begin", "end", "otherend"}
    BY <2>3, <2>4, <2>5
  <2>7. ~(m \in 1..(b - 1))
    BY <1>3, <2>6
  <2>8. m = b
    BY <1>4, <2>6, <2>7
  <2>9. QED
    BY <2>2, <2>5, <2>8
<1>7. PairsEnd = p
  <2> DEFINE S == Places({"sep"}, BeginAt + 2, first)
  <2>1. \A i \in S : i \in Nat /\ i >= b + 2 /\ i <= first /\ Cells[i].k = "sep"
    BY <1>1, <1>4, <1>6 DEF Places
  <2>2. \A i \in S : i <= p
    <3> SUFFICES ASSUME NEW i \in S, i > p PROVE FALSE
      BY <1>4, <2>1
    <3>1. i \in Nat /\ Cells[i].k = "sep" /\ i <= first
      BY <2>1
    <3>2. i \in (p + 1)..src.hdr \/ i \in (src.hdr + 1)..first
      BY <1>1, <1>4, <3>1
    <3>3. QED
      BY <1>1, <1>3, <3>1, <3>2
  <2>3. PairsEnd = IF S = {} THEN b + 1 ELSE Max(S)
    BY <1>6 DEF PairsEnd
  <2>4. p > b + 1 => p \in S
    BY <1>1, <1>3, <1>4, <1>6 DEF Places
  <2> HIDE DEF S
  <2>5. CASE p = b + 1
    <3>1. S = {}
      BY <1>4, <2>1, <2>2, <2>5
    <3>2. QED
      BY <2>3, <2>5, <3>1
  <2>6. CASE p > b + 1
    <3>1. p \in S /\ S \in SUBSET (0..p)
      BY <1>4, <2>1, <2>2, <2>4, <2>6
    <3>2. Max(S) \in S /\ p <= Max(S)
      BY <1>4, <3>1, MaxFacts
    <3>3. PICK m \in S : m = Max(S)
      BY <3>2
    <3>4. m = p
      BY <1>4, <2>1, <2>2, <3>2, <3>3
    <3>5. QED
      BY <2>3, <3>1, <3>3, <3>4
  <2>7. QED
    BY <1>4, <2>5, <2>6
<1>8. \A i \in BodyStarts : i \in Nat /\ i > src.hdr
  <2> SUFFICES ASSUME NEW i \in BodyStarts, ~(i > src.hdr) PROVE FALSE
    BY <1>1, <1>4, <1>7 DEF BodyStarts
  <2>1. i \in Nat /\ i >= p + 1 /\ Cells[i].k # "nl"
    BY <1>1, <1>4, <1>7 DEF BodyStarts
  <2>2. i \in (p + 1)..src.hdr
    BY <1>1, <1>4, <2>1
  <2>3. QED
    BY <1>3, <2>1, <2>2
<1>9. HeaderEnd \in Nat /\ HeaderEnd < first
  BY <1>1, <1>5
<1>10. src.hdr <= HeaderEnd
  <2>1. HeaderEnd + 1 > src.hdr
    BY <1>5, <1>8
  <2>2. QED
    BY <1>1, <1>9, <2>1
<1>11. ASSUME NEW i \in (src.hdr + 1)..HeaderEnd PROVE Cells[i].k = "nl"
  <2>1. i \in Nat /\ i > src.hdr /\ i <= HeaderEnd
    BY <1>1, <1>9
  <2>2. i \in (p + 1)..first /\ i \notin BodyStarts
    BY <1>1, <1>4, <1>5, <1>9, <2>1
  <2>3. QED
    BY <1>7, <2>2 DEF BodyStarts
<1>12. QED
  BY <1>1, <1>10, <1>11

\* A read takes characters and line breaks only, and none behind a failure.
LEMMA TakenToFacts ==
    ASSUME TypeInv, NEW room, NEW to, to = TakenTo(room)
    PROVE  /\ to \in pos..Len(Cells) /\ (Failing => to <= src.fail)
           /\ \A i \in (pos + 1)..to : Cells[i].k \in TokenKinds \cup {"nl"}
<1>1. /\ Len(Cells) \in Nat /\ pos \in Nat /\ pos <= Len(Cells) /\ src.fail \in Nat
      /\ src.fail <= Len(Cells) /\ (Failing => pos <= src.fail)
  BY TextFacts DEF TypeInv, Cells, Layout
<1>2. Limit \in Nat /\ pos <= Limit /\ Limit <= Len(Cells) /\ (Failing => Limit = src.fail)
  BY <1>1 DEF Limit
<1> DEFINE A == { i \in (pos + 1)..Len(Cells) : Cells[i].k \notin TokenKinds \cup {"nl"} }
<1>3. PICK e \in Nat : /\ e = NonToken - 1 /\ e >= pos /\ e <= Len(Cells)
                       /\ \A i \in A : e < i
  <2>1. A \in SUBSET Nat /\ \A i \in A : i > pos /\ i <= Len(Cells)
    BY <1>1
  <2>2. NonToken = IF A = {} THEN Len(Cells) + 1 ELSE Min(A)
    BY DEF NonToken
  <2> HIDE DEF A
  <2>3. CASE A = {}
    <3>1. NonToken - 1 = Len(Cells)
      BY <1>1, <2>2, <2>3
    <3>2. QED
      BY <1>1, <2>3, <3>1
  <2>4. CASE A # {}
    <3>1. Min(A) \in A /\ \A i \in A : Min(A) <= i
      BY <2>1, <2>4, MinFacts
    <3>2. PICK m \in A : m = Min(A)
      BY <3>1
    <3>3. m \in Nat /\ m > pos /\ m <= Len(Cells) /\ NonToken = m
      BY <2>1, <2>2, <2>4, <3>2
    <3>4. m - 1 \in Nat /\ NonToken - 1 = m - 1 /\ m - 1 >= pos /\ m - 1 <= Len(Cells)
      BY <1>1, <3>3
    <3>5. \A i \in A : m - 1 < i
      BY <2>1, <3>1, <3>2, <3>3
    <3>6. QED
      BY <3>4, <3>5
  <2>5. QED
    BY <2>3, <2>4
<1> DEFINE all == Places(TokenKinds, pos + 1, Len(Cells))
           full == { i \in all : Cardinality({ j \in all : j <= i }) = room }
           U == full \cup {e, Limit}
<1>4. \A i \in full : i \in Nat /\ i >= pos
  BY <1>1 DEF Places
<1>5. to = Min(U)
  BY <1>3 DEF TakenTo
<1> HIDE DEF full
<1>6. U \in SUBSET Nat /\ U # {} /\ e \in U /\ Limit \in U /\ \A i \in U : i >= pos
  BY <1>2, <1>3, <1>4
<1>7. Min(U) \in U /\ Min(U) <= e /\ Min(U) <= Limit
  BY <1>6, MinFacts
<1>8. to \in Nat /\ to >= pos /\ to <= e /\ to <= Limit
  BY <1>5, <1>6, <1>7
<1>9. to \in pos..Len(Cells) /\ (Failing => to <= src.fail)
  BY <1>1, <1>2, <1>8
<1>10. ASSUME NEW i \in (pos + 1)..to PROVE Cells[i].k \in TokenKinds \cup {"nl"}
  <2>1. i \in (pos + 1)..Len(Cells) /\ ~(e < i)
    BY <1>1, <1>3, <1>8, <1>9
  <2>2. i \notin A
    BY <1>3, <2>1
  <2>3. QED
    BY <2>1, <2>2
<1>11. QED
  BY <1>9, <1>10

-----------------------------------------------------------------------------
(* What a step does to the octets.                                         *)

\* A decoded slice is cut in two: what is copied and what is left.
LEMMA CutInTwo ==
    ASSUME NEW S, NEW s \in Seq(S), NEW n \in 0..Len(s)
    PROVE  /\ SubSeq(s, 1, n) \in Seq(S) /\ Len(SubSeq(s, 1, n)) = n
           /\ LeftAfter(s, n) \in Seq(S)
           /\ SubSeq(s, 1, n) \o LeftAfter(s, n) = s
<1>1. Len(s) \in Nat /\ n \in Nat /\ n <= Len(s) /\ n \in (1 - 1)..Len(s) /\ Len(s) \in n..Len(s) /\ 1 \in 1..(Len(s) + 1)
  OBVIOUS
<1>2. \A i \in 1..Len(s) : s[i] \in S
  BY ElementsOf
<1>3. SubSeq(s, 1, n) \in Seq(S) /\ Len(SubSeq(s, 1, n)) = n
  BY <1>1, <1>2, SubSeqProperties
<1>4. SubSeq(s, n + 1, Len(s)) \in Seq(S)
  <2>1. \A i \in (n + 1)..Len(s) : s[i] \in S
    BY <1>1, <1>2
  <2>2. QED
    BY <1>1, <2>1, SubSeqProperties
<1>5. SubSeq(s, 1, n) \o SubSeq(s, n + 1, Len(s)) = SubSeq(s, 1, Len(s))
  BY <1>1, ConcatAdjacentSubSeq
<1>6. SubSeq(s, 1, Len(s)) = s
  BY SubSeqFull
<1>7. QED
  BY <1>3, <1>4, <1>5, <1>6 DEF LeftAfter

\* Where a sequence of octets is cut makes no difference.
LEMMA Regrouped == \A x, y, z \in Seq(Nat) : (x \o y) \o z = x \o (y \o z)
<1> SUFFICES ASSUME NEW x \in Seq(Nat), NEW y \in Seq(Nat), NEW z \in Seq(Nat)
             PROVE  (x \o y) \o z = x \o (y \o z)
  BY Zenon
<1>1. QED
  BY ConcatAssociative, SMTT(60)

\* Copying moves octets on and changes nothing of what is given, whether the
\* call returns or goes on.
LEMMA Moved ==
    \A g, r, a, b \in Seq(Nat) :
        /\ g \o (r \o a) \o b = g \o r \o (a \o b)
        /\ g \o (r \o a) \o <<>> \o b = g \o r \o (a \o b)
        /\ r \o a \in Seq(Nat) /\ g \o (r \o a) \in Seq(Nat)
        /\ Len(r \o a) = Len(r) + Len(a)
<1> SUFFICES ASSUME NEW g \in Seq(Nat), NEW r \in Seq(Nat), NEW a \in Seq(Nat), NEW b \in Seq(Nat)
             PROVE  /\ g \o (r \o a) \o b = g \o r \o (a \o b)
                    /\ g \o (r \o a) \o <<>> \o b = g \o r \o (a \o b)
                    /\ r \o a \in Seq(Nat) /\ g \o (r \o a) \in Seq(Nat)
                    /\ Len(r \o a) = Len(r) + Len(a)
  BY Zenon
<1> DEFINE c == r \o a
           d == a \o b
<1>1. c \in Seq(Nat) /\ d \in Seq(Nat) /\ Len(c) = Len(r) + Len(a)
  BY ConcatProperties
<1>2. c \o b = r \o d
  BY Regrouped, Zenon
<1> HIDE DEF c, d
<1> DEFINE e == g \o c
<1>3. e \in Seq(Nat) /\ c \o b \in Seq(Nat)
  BY <1>1, ConcatProperties
<1>4. e \o b = g \o (c \o b)
  BY Regrouped, <1>1, Zenon
<1>5. (g \o r) \o d = g \o (r \o d)
  BY Regrouped, <1>1, Zenon
<1>6. e \o <<>> = e
  BY <1>3, ConcatEmptySeq
<1> HIDE DEF e
<1>7. e \o b = (g \o r) \o d /\ e \o <<>> \o b = (g \o r) \o d
  BY <1>2, <1>4, <1>5, <1>6
<1>8. QED
  BY <1>1, <1>3, <1>7 DEF c, d, e

\* What is given to the caller is a beginning of what is decoded.
LEMMA ShorterStarts ==
    ASSUME NEW g \in Seq(Nat), NEW r \in Seq(Nat), NEW o \in Seq(Nat), NEW t \in Seq(Nat), Starts(g \o r \o o, t)
    PROVE  Starts(g \o <<>> \o <<>>, t)
<1>1. g \o <<>> \o <<>> = g
  BY ConcatEmptySeq
<1>2. Len(g) \in Nat /\ Len(g \o r \o o) = Len(g) + Len(r) + Len(o) /\ Len(r) \in Nat /\ Len(o) \in Nat
  OBVIOUS
<1>3. \A i \in 1..Len(g) : (g \o r \o o)[i] = g[i] /\ i \in 1..Len(g \o r \o o)
  <2>1. g \o r \in Seq(Nat) /\ Len(g \o r) = Len(g) + Len(r)
    OBVIOUS
  <2>2. \A i \in 1..Len(g) : (g \o r)[i] = g[i] /\ i \in 1..Len(g \o r)
    BY <1>2, <2>1
  <2> DEFINE h == g \o r
  <2> HIDE DEF h
  <2>3. \A i \in 1..Len(h) : (h \o o)[i] = h[i]
    BY <2>1 DEF h
  <2>4. QED
    BY <1>2, <2>1, <2>2, <2>3 DEF h
<1>4. Len(t) \in Nat
  OBVIOUS
<1>5. Starts(g, t)
  BY <1>2, <1>3, <1>4 DEF Starts
<1>6. QED
  BY <1>1, <1>5

\* An error, a panic or an end gives nothing.
LEMMA ReturnsNothing ==
    ASSUME TypeInv, NEW r, Return(r, <<>>)
    PROVE  got' = got /\ read' = <<>> /\ want' = 0 /\ errs' \in Nat /\ (r # "err" => errs' = errs)
<1>1. got \in Seq(Nat) /\ errs \in Nat
  BY DEF TypeInv
<1>2. got \o <<>> = got
  BY <1>1, ConcatEmptySeq
<1>3. QED
  BY <1>1, <1>2 DEF Return

\* No more is copied than fits into the slice or is there.
LEMMA CopyFits ==
    ASSUME TypeInv, want > 0, NEW l \in Nat, NEW n, n = Min({Space, l})
    PROVE  n \in 0..l /\ n \in Nat /\ Len(read) + n <= want
<1>1. want \in Nat /\ Len(read) \in Nat /\ Len(read) < want
  BY DEF TypeInv
<1>2. PICK k \in Nat : k = Space /\ k = want - Len(read)
  BY <1>1 DEF Space
<1>3. {k, l} \in SUBSET Nat /\ {k, l} # {}
  OBVIOUS
<1>4. n = Min({k, l})
  BY <1>2
<1>5. n \in {k, l} /\ n <= k /\ n <= l
  BY <1>3, <1>4, MinFacts
<1>6. QED
  BY <1>1, <1>2, <1>5

\* What a decoder read delivers to the caller's slice; nothing of it is lost.
LEMMA DeliverKeeps ==
    ASSUME TypeInv, want > 0, NEW a \in Seq(Nat), NEW b \in Seq(Nat), Len(read) + Len(a) <= want,
           Deliver(a), out' = b
    PROVE  /\ got' \in Seq(Nat) /\ read' \in Seq(Nat) /\ out' \in Seq(Nat)
           /\ want' \in Nat /\ (want' = 0 => read' = <<>>) /\ (want' > 0 => Len(read') < want')
           /\ Given' = got \o read \o (a \o b)
           /\ errs' = errs /\ part' = part
<1>1. want \in Nat /\ read \in Seq(Nat) /\ got \in Seq(Nat) /\ Len(read) \in Nat /\ Len(read) < want /\ Len(a) \in Nat
  BY DEF TypeInv
<1> DEFINE c == read \o a
           g == got \o c
           all == got \o read \o (a \o b)
<1>2. g \o b = all /\ g \o <<>> \o b = all /\ c \in Seq(Nat) /\ g \in Seq(Nat) /\ Len(c) = Len(read) + Len(a)
  <2>1. read \in Seq(Nat) /\ got \in Seq(Nat)
    BY <1>1
  <2>2. /\ got \o (read \o a) \o b = got \o read \o (a \o b)
        /\ got \o (read \o a) \o <<>> \o b = got \o read \o (a \o b)
        /\ read \o a \in Seq(Nat) /\ got \o (read \o a) \in Seq(Nat)
        /\ Len(read \o a) = Len(read) + Len(a)
    BY <2>1, Moved, Zenon
  <2>3. QED
    BY <2>2
<1>3. Given' = got' \o read' \o b
  BY DEF Given
<1> HIDE DEF all
<1>4. CASE Len(c) = want \/ ~wrapped
  <2>1. got' = g /\ read' = <<>> /\ want' = 0 /\ errs' = errs /\ part' = part
    BY <1>4 DEF Deliver, Return
  <2> HIDE DEF g, c
  <2>2. Given' = all
    BY <1>2, <1>3, <2>1
  <2>3. <<>> \in Seq(Nat)
    OBVIOUS
  <2>4. QED
    BY <1>2, <2>1, <2>2, <2>3 DEF all
<1>5. CASE ~(Len(c) = want \/ ~wrapped)
  <2>1. got' = got /\ read' = c /\ want' = want /\ errs' = errs /\ part' = part
    BY <1>5 DEF Deliver
  <2>2. Given' = all
    BY <1>2, <1>3, <2>1
  <2> HIDE DEF g, c
  <2>3. Len(read') < want' /\ want' # 0
    BY <1>1, <1>2, <1>5, <2>1
  <2>4. QED
    BY <1>1, <1>2, <2>1, <2>2, <2>3 DEF all
<1>6. QED
  BY <1>4, <1>5

-----------------------------------------------------------------------------
(* The steps.                                                              *)

\* What a step leaves alone of the text and its header.
LEMMA SourceSame ==
    ASSUME src' = src, first' = first
    PROVE  Cells' = Cells /\ (HeaderWhole' <=> HeaderWhole)
BY DEF Cells, HeaderWhole, NoForeignPair

\* A step that does not read or decode stays behind the same quad.
LEMMA AtQuadSame ==
    ASSUME src' = src, pos' = pos, dec' = dec, Given' = Given, NEW k, AtQuad(k)
    PROVE  AtQuad(k)'
BY DEF AtQuad, Tokens, Cells

\* A call that ends with nothing given keeps what was given.
LEMMA NothingGiven ==
    ASSUME DInv, src' = src, first' = first, wrapped' = wrapped, dec' = dec, out' = out, out = <<>>,
           got' = got, read' = <<>>, want' = 0, errs' \in Nat,
           pos' \in 0..Len(Cells), Failing' => pos' <= src.fail,
           faulted' \in BOOLEAN, err' \in BOOLEAN, filled' \in BOOLEAN, part' \in Parts
    PROVE  /\ TypeInv'
           /\ HeaderWhole => Starts(Given', src'.body)
<1>1. Cells' = Cells
  BY SourceSame
<1>2. TypeInv'
  <2>1. <<>> \in Seq(Nat)
    OBVIOUS
  <2>2. QED
    BY <1>1, <2>1 DEF DInv, TypeInv
<1>3. ASSUME HeaderWhole PROVE Starts(Given', src'.body)
  <2>1. Starts(got \o read \o out, src.body)
    BY <1>3 DEF DInv, Exact, Given
  <2>2. got \in Seq(Nat) /\ read \in Seq(Nat) /\ out \in Seq(Nat) /\ src \in Texts
    BY DEF DInv, TypeInv
  <2>3. src.body \in Seq(Nat)
    BY <2>2, TextFacts
  <2>4. Starts(got \o <<>> \o <<>>, src.body)
    BY <2>1, <2>2, <2>3, ShorterStarts
  <2>5. Given' = got \o <<>> \o <<>>
    BY DEF Given
  <2>6. QED
    BY <2>4, <2>5
<1>4. QED
  BY <1>2, <1>3

\* Beginning a call.
LEMMA CallKeeps ==
    ASSUME DInv, NEW n \in ReadSizes, Call(n)
    PROVE  DInv'
<1>1. /\ src' = src /\ first' = first /\ wrapped' = wrapped /\ pos' = pos /\ faulted' = faulted /\ part' = part
      /\ dec' = dec /\ out' = out /\ err' = err /\ filled' = filled /\ read' = read /\ got' = got /\ errs' = errs
      /\ want' = n /\ want = 0
  BY DEF Call, source
<1>2. n \in Nat /\ n > 0
  BY SizesAssumption
<1>3. Cells' = Cells /\ (HeaderWhole' <=> HeaderWhole)
  BY <1>1, SourceSame
<1>4. read = <<>> /\ Len(read) = 0
  BY <1>1 DEF DInv, TypeInv
<1>5. Failing' <=> Failing
  BY <1>1 DEF Failing
<1>6. TypeInv'
  BY <1>1, <1>2, <1>3, <1>4, <1>5 DEF DInv, TypeInv
<1>7. Flow'
  BY <1>1 DEF DInv, Flow
<1>8. Given' = Given
  BY <1>1 DEF Given
<1>9. \A k \in Nat : AtQuad(k) => AtQuad(k)'
  BY <1>1, <1>8, AtQuadSame
<1>10. Exact'
  BY <1>1, <1>3, <1>8, <1>9 DEF DInv, Exact, InBodyOf
<1>11. QED
  BY <1>6, <1>7, <1>10 DEF DInv

\* Behind the header nothing is read of the body yet.
LEMMA BodyBegins ==
    ASSUME src \in Texts, first \in 1..Len(Cells), HeaderParses, HeaderWhole
    PROVE  /\ src.hdr <= HeaderEnd /\ InBodyOf(src, HeaderEnd)
           /\ RestOf(<<>>, Tokens(src.hdr, HeaderEnd), 0)
           /\ OctetsIn(0, Len(src.body)) = 0 /\ 0 <= Quads(Len(src.body))
           /\ Starts(<<>> \o <<>> \o <<>>, src.body) /\ Len(<<>> \o <<>> \o <<>>) = 0
<1>1. Cells \in Seq(Cell) /\ Len(Cells) \in Nat /\ src.hdr \in Nat /\ src.body \in Seq(Nat)
  BY TextFacts DEF Cells
<1>2. src.hdr <= HeaderEnd /\ \A i \in (src.hdr + 1)..HeaderEnd : Cells[i].k = "nl"
  BY HeaderExact
<1>3. HeaderEnd \in 0..(first - 1)
  BY HeaderStops
<1>4. InBodyOf(src, HeaderEnd)
  BY <1>2 DEF InBodyOf, Cells
<1>5. HeaderEnd \in src.hdr..Len(Cells) /\ src.hdr \in 0..Len(Cells)
  BY <1>1, <1>2, <1>3
<1>6. Tokens(src.hdr, HeaderEnd) = <<>>
  BY <1>1, <1>2, <1>5, TokensNone DEF Tokens
<1>7. RestOf(<<>>, <<>>, 0)
  BY DEF RestOf
<1>8. Len(src.body) \in Nat
  BY <1>1
<1>9. Quads(Len(src.body)) \in Nat /\ OctetsIn(0, Len(src.body)) = 0
  <2>1. PICK l \in Nat : l = Len(src.body)
    BY <1>8
  <2>2. Quads(l) \in Nat
    BY QuadCount
  <2>3. OctetsIn(0, l) = 0
    BY DEF OctetsIn
  <2>4. QED
    BY <2>1, <2>2, <2>3
<1>10. <<>> \o <<>> \o <<>> = <<>> /\ Len(<<>>) = 0
  OBVIOUS
<1>11. Starts(<<>> \o <<>> \o <<>>, src.body) /\ Len(<<>> \o <<>> \o <<>>) = 0
  BY <1>8, <1>10 DEF Starts
<1>12. QED
  BY <1>2, <1>4, <1>6, <1>7, <1>9, <1>11

\* What is assumed of the first piece.
LEMMA FirstFacts ==
    ASSUME src \in Texts, first \in FirstPieces
    PROVE  first \in 1..Len(Cells) /\ (src.fail > 0 => first <= src.fail)
<1>1. Len(Cells) \in Nat /\ src.fail \in Nat /\ src.fail <= Len(Cells)
  BY TextFacts DEF Cells, Layout
<1>2. QED
  BY <1>1 DEF FirstPieces, Cells


\* Before the first call.
LEMMA InitDInv ==
    ASSUME Init
    PROVE  DInv
<1>1. src \in Texts /\ first \in 1..Len(Cells) /\ (src.fail > 0 => first <= src.fail)
  BY FirstFacts DEF Init
<1>2. /\ wrapped \in BOOLEAN /\ faulted = FALSE /\ err = FALSE /\ filled = FALSE
      /\ dec = <<>> /\ out = <<>> /\ want = 0 /\ read = <<>> /\ got = <<>> /\ errs = 0
      /\ (wrapped => pos = 0 /\ part = "Header")
      /\ (~wrapped => pos = HeaderEnd /\ part = "Body" /\ HeaderParses)
  BY DEF Init
<1>3. Len(Cells) \in Nat /\ src.fail \in Nat /\ src.fail <= Len(Cells)
  BY <1>1, TextFacts DEF Cells, Layout
<1>4. ~wrapped => HeaderEnd \in 0..(first - 1)
  BY <1>1, <1>2, HeaderStops
<1>5. pos \in 0..Len(Cells) /\ (Failing => pos <= src.fail)
  <2>1. CASE wrapped
    BY <1>2, <1>3, <2>1
  <2>2. CASE ~wrapped
    BY <1>1, <1>2, <1>3, <1>4, <2>2 DEF Failing
  <2>3. QED
    BY <2>1, <2>2
<1>6. TypeInv
  <2>1. <<>> \in Seq(Nat) /\ <<>> \in Seq(Cell)
    OBVIOUS
  <2>2. part \in Parts
    BY <1>2 DEF Parts
  <2>3. QED
    BY <1>1, <1>2, <1>5, <2>1, <2>2 DEF TypeInv
<1>7. Flow
  BY <1>2 DEF Flow
<1>8. Given = <<>> \o <<>> \o <<>>
  BY <1>2 DEF Given
<1>9. ASSUME HeaderWhole PROVE Starts(Given, src.body)
  <2>1. <<>> \o <<>> \o <<>> = <<>> /\ Len(<<>>) = 0
    OBVIOUS
  <2>2. src.body \in Seq(Nat)
    BY <1>1, TextFacts
  <2>3. Len(src.body) \in Nat
    BY <2>2
  <2>4. QED
    BY <1>8, <2>1, <2>3 DEF Starts
<1>10. ASSUME HeaderWhole, part = "Body" PROVE src.hdr <= pos /\ InBodyOf(src, pos) /\ \E k \in Nat : AtQuad(k)
  <2>1. ~wrapped /\ pos = HeaderEnd /\ HeaderParses
    BY <1>2, <1>10
  <2>2. /\ src.hdr <= HeaderEnd /\ InBodyOf(src, HeaderEnd)
        /\ RestOf(<<>>, Tokens(src.hdr, HeaderEnd), 0)
        /\ OctetsIn(0, Len(src.body)) = 0 /\ 0 <= Quads(Len(src.body)) /\ Len(<<>> \o <<>> \o <<>>) = 0
    BY <1>1, <1>10, <2>1, BodyBegins
  <2>3. AtQuad(0)
    BY <1>2, <1>8, <2>1, <2>2 DEF AtQuad
  <2>4. QED
    BY <2>1, <2>2, <2>3
<1>11. QED
  BY <1>6, <1>7, <1>9, <1>10 DEF DInv, Exact

\* read_header().
LEMMA ReadHeaderKeeps ==
    ASSUME DInv, ReadHeader
    PROVE  DInv'
<1>1. /\ src' = src /\ first' = first /\ wrapped' = wrapped /\ faulted' = faulted
      /\ dec' = dec /\ out' = out /\ err' = err /\ filled' = filled /\ read' = read /\ got' = got /\ errs' = errs
      /\ want' = want /\ part = "Header" /\ part' = "Body" /\ HeaderParses /\ pos' = HeaderEnd
  BY DEF ReadHeader, source
<1>2. Cells' = Cells /\ (HeaderWhole' <=> HeaderWhole)
  BY <1>1, SourceSame
<1>3. src \in Texts /\ first \in 1..Len(Cells) /\ (src.fail > 0 => first <= src.fail)
  BY DEF DInv, TypeInv
<1>4. Len(Cells) \in Nat /\ src.fail \in Nat /\ src.fail <= Len(Cells)
  BY <1>3, TextFacts DEF Cells, Layout
<1>5. HeaderEnd \in 0..(first - 1)
  BY <1>1, <1>3, HeaderStops
<1>6. pos' \in 0..Len(Cells) /\ (Failing' => pos' <= src.fail)
  BY <1>1, <1>3, <1>4, <1>5 DEF Failing
<1>7. TypeInv'
  <2>1. part' \in Parts
    BY <1>1 DEF Parts
  <2>2. QED
    BY <1>1, <1>2, <1>6, <2>1 DEF DInv, TypeInv
<1>8. got = <<>> /\ read = <<>> /\ dec = <<>> /\ out = <<>> /\ ~err /\ errs = 0 /\ wrapped
  BY <1>1 DEF DInv, Flow
<1>9. Flow'
  BY <1>1, <1>8 DEF DInv, Flow
<1>10. Given' = <<>> \o <<>> \o <<>>
  BY <1>1, <1>8 DEF Given
<1>11. ASSUME HeaderWhole
       PROVE  Starts(Given', src'.body) /\ src'.hdr <= pos' /\ InBodyOf(src', pos') /\ \E k \in Nat : AtQuad(k)'
  <2>1. /\ src.hdr <= HeaderEnd /\ InBodyOf(src, HeaderEnd)
        /\ RestOf(<<>>, Tokens(src.hdr, HeaderEnd), 0)
        /\ OctetsIn(0, Len(src.body)) = 0 /\ 0 <= Quads(Len(src.body))
        /\ Starts(<<>> \o <<>> \o <<>>, src.body) /\ Len(<<>> \o <<>> \o <<>>) = 0
    BY <1>1, <1>3, <1>11, BodyBegins
  <2>2. Tokens(src.hdr, HeaderEnd) = TokensOf(src.cells, src.hdr, HeaderEnd)
    BY DEF Tokens, Cells
  <2>3. AtQuad(0)'
    BY <1>1, <1>8, <1>10, <2>1, <2>2 DEF AtQuad, Tokens, Cells
  <2>4. QED
    BY <1>1, <1>10, <2>1, <2>3
<1>12. Exact'
  BY <1>2, <1>11 DEF Exact
<1>13. QED
  BY <1>7, <1>9, <1>12 DEF DInv

\* Errors, whatever part they come from.
LEMMA ErrorKeeps ==
    ASSUME DInv, ReadHeaderFails \/ BodyErrorAgain \/ BodyFillFails \/ FooterReadFails \/ FooterMalformed \/ FooterMismatch
    PROVE  DInv'
<1>1. /\ src' = src /\ first' = first /\ wrapped' = wrapped /\ dec' = dec /\ out' = out /\ filled' = filled
      /\ Return("err", <<>>)
  BY DEF ReadHeaderFails, BodyErrorAgain, BodyFillFails, FooterReadFails, FooterMalformed, FooterMismatch, source, Fail
<1>2. got' = got /\ read' = <<>> /\ want' = 0 /\ errs' \in Nat
  BY <1>1, ReturnsNothing DEF DInv
<1>3. out = <<>> /\ ~filled
  <2>1. CASE part # "Body"
    BY <2>1 DEF DInv, Flow
  <2>2. CASE part = "Body"
    BY <2>2 DEF DInv, Flow, ReadHeaderFails, BodyErrorAgain, BodyFillFails, FooterReadFails,
                FooterMalformed, FooterMismatch, Memorised
  <2>3. QED
    BY <2>1, <2>2
<1>4. Len(Cells) \in Nat /\ src.fail \in Nat /\ src.fail <= Len(Cells)
  BY TextFacts DEF DInv, TypeInv, Cells, Layout
<1>5. pos' \in 0..Len(Cells) /\ (Failing' => pos' <= src.fail) /\ faulted' \in BOOLEAN
  <2>1. CASE pos' = pos /\ faulted' = faulted
    BY <1>1, <2>1 DEF DInv, TypeInv, Failing
  <2>2. CASE pos' = src.fail /\ faulted' = TRUE
    BY <1>4, <2>2 DEF Failing
  <2>3. QED
    BY <2>1, <2>2 DEF ReadHeaderFails, BodyErrorAgain, BodyFillFails, FooterReadFails, FooterMalformed, FooterMismatch
<1>6. IF wrapped THEN part' \in {"Temp", "Done"} ELSE part' = "Body" /\ err'
  <2>1. wrapped \in BOOLEAN /\ (~wrapped => part = "Body")
    BY DEF DInv, TypeInv, Flow
  <2>2. CASE ReadHeaderFails \/ FooterReadFails \/ FooterMalformed \/ FooterMismatch
    BY <2>1, <2>2 DEF ReadHeaderFails, FooterReadFails, FooterMalformed, FooterMismatch, Fail
  <2>3. CASE BodyErrorAgain \/ BodyFillFails
    BY <2>1, <2>3 DEF BodyErrorAgain, BodyFillFails, Fail, Memorised, InBody
  <2>4. QED
    BY <2>2, <2>3
<1>7. err' \in BOOLEAN /\ filled' \in BOOLEAN /\ part' \in Parts
  <2>1. err \in BOOLEAN /\ filled \in BOOLEAN
    BY DEF DInv, TypeInv
  <2>2. err' = err \/ err' = TRUE
    BY DEF ReadHeaderFails, BodyErrorAgain, BodyFillFails, FooterReadFails, FooterMalformed, FooterMismatch
  <2>3. QED
    BY <1>1, <1>6, <2>1, <2>2 DEF Parts
<1>8. TypeInv' /\ (HeaderWhole => Starts(Given', src'.body))
  BY <1>1, <1>2, <1>3, <1>5, <1>7, NothingGiven
<1>9. Flow'
  BY <1>1, <1>2, <1>3, <1>6 DEF Flow
<1>10. HeaderWhole' <=> HeaderWhole
  BY <1>1, SourceSame
<1>11. Exact'
  BY <1>1, <1>6, <1>8, <1>10 DEF Exact
<1>12. QED
  BY <1>8, <1>9, <1>11 DEF DInv

\* The end of the body, the footer, the end and the panic.
LEMMA QuietKeeps ==
    ASSUME DInv, BodyEnd \/ ReadFooter \/ ReadTemp
    PROVE  DInv'
<1>1. /\ src' = src /\ first' = first /\ wrapped' = wrapped /\ dec' = dec /\ out' = out /\ pos' = pos
      /\ faulted' = faulted /\ err' = err
  BY DEF BodyEnd, ReadFooter, ReadTemp, source
<1>2. out = <<>>
  BY DEF DInv, Flow, BodyEnd, ReadFooter, ReadTemp
<1>3. Cells' = Cells /\ (HeaderWhole' <=> HeaderWhole) /\ (Failing' <=> Failing)
  BY <1>1, SourceSame DEF Failing
<1>4. CASE UNCHANGED <<want, read, ret, got, errs>>
  <2>1. want' = want /\ read' = read /\ got' = got /\ errs' = errs
    BY <1>4
  <2>2. part' \in {"Footer", "Done"} /\ wrapped /\ ~filled' /\ part \in {"Body", "Footer"}
    <3>1. CASE BodyEnd
      <4>1. ~(Return("eof", <<>>) /\ UNCHANGED <<want, read, ret, got, errs>>)
        BY <3>1 DEF BodyEnd, InBody, Return
      <4>2. QED
        BY <1>4, <3>1, <4>1 DEF BodyEnd, AfterBody, InBody
    <3>2. CASE ReadFooter
      BY <3>2 DEF DInv, Flow, TypeInv, ReadFooter
    <3>3. CASE ReadTemp
      BY <1>4, <3>3 DEF ReadTemp, Return
    <3>4. QED
      BY <3>1, <3>2, <3>3
  <2>3. errs = 0
    BY <2>2 DEF DInv, Flow, TypeInv
  <2>4. TypeInv'
    <3>1. filled' \in BOOLEAN /\ part' \in Parts
      BY <2>2 DEF DInv, TypeInv, BodyEnd, ReadFooter, ReadTemp, Parts
    <3>2. QED
      BY <1>1, <1>3, <2>1, <3>1 DEF DInv, TypeInv
  <2>5. Flow'
    BY <1>1, <1>2, <2>1, <2>2, <2>3 DEF Flow
  <2>6. Given' = Given
    BY <1>1, <2>1 DEF Given
  <2>7. Exact'
    BY <1>1, <1>3, <2>2, <2>6 DEF DInv, Exact
  <2>8. QED
    BY <2>4, <2>5, <2>7 DEF DInv
<1>5. CASE \E r \in {"eof", "panic"} : Return(r, <<>>)
  <2>1. got' = got /\ read' = <<>> /\ want' = 0 /\ errs' = errs /\ errs \in Nat
    BY <1>5, ReturnsNothing DEF DInv, TypeInv
  <2>2. filled' \in BOOLEAN /\ part' \in Parts
    BY <1>5 DEF DInv, TypeInv, BodyEnd, ReadFooter, ReadTemp, AfterBody, Parts
  <2>3. pos' \in 0..Len(Cells) /\ (Failing' => pos' <= src.fail) /\ faulted' \in BOOLEAN /\ err' \in BOOLEAN
    BY <1>1, <1>3 DEF DInv, TypeInv
  <2>4. TypeInv' /\ (HeaderWhole => Starts(Given', src'.body))
    BY <1>1, <1>2, <2>1, <2>2, <2>3, NothingGiven
  <2>5. part' = part /\ ~filled'
    <3>1. CASE BodyEnd
      <4>1. ~wrapped
        BY <1>5, <3>1 DEF BodyEnd, InBody, Return
      <4>2. QED
        BY <3>1, <4>1 DEF BodyEnd
    <3>2. CASE ReadFooter
      BY <1>5, <3>2 DEF ReadFooter, Return
    <3>3. CASE ReadTemp
      BY <3>3 DEF ReadTemp, DInv, Flow
    <3>4. QED
      BY <3>1, <3>2, <3>3
  <2>6. Flow'
    BY <1>1, <1>2, <2>1, <2>5 DEF DInv, Flow
  <2>7. Exact'
    <3>1. CASE part # "Body"
      BY <1>3, <2>4, <2>5, <3>1 DEF Exact
    <3>2. CASE part = "Body"
      <4>1. ~wrapped
        BY <1>5, <3>2 DEF BodyEnd, ReadFooter, ReadTemp, InBody, Return
      <4>2. Given' = Given
        BY <1>1, <2>1, <4>1 DEF Given, DInv, Flow
      <4>3. \A k \in Nat : AtQuad(k) => AtQuad(k)'
        BY <1>1, <4>2, AtQuadSame
      <4>4. QED
        BY <1>1, <1>3, <2>5, <4>2, <4>3 DEF DInv, Exact, InBodyOf
    <3>3. QED
      BY <3>1, <3>2
  <2>8. QED
    BY <2>4, <2>6, <2>7 DEF DInv
<1>6. QED
  <2>1. CASE BodyEnd
    BY <1>4, <1>5, <2>1 DEF BodyEnd
  <2>2. CASE ReadFooter
    BY <1>4, <2>2 DEF ReadFooter
  <2>3. CASE ReadTemp
    BY <1>5, <2>3 DEF ReadTemp
  <2>4. QED
    BY <2>1, <2>2, <2>3

\* Nothing more: what the slice holds is returned.
LEMMA ReadDoneKeeps ==
    ASSUME DInv, ReadDone
    PROVE  DInv'
<1>1. /\ src' = src /\ first' = first /\ wrapped' = wrapped /\ dec' = dec /\ out' = out /\ pos' = pos
      /\ faulted' = faulted /\ err' = err /\ filled' = filled /\ part' = part /\ part = "Done"
      /\ got' = got \o read /\ read' = <<>> /\ want' = 0 /\ errs' = errs
  BY DEF ReadDone, source, Return
<1>2. Cells' = Cells /\ (HeaderWhole' <=> HeaderWhole) /\ (Failing' <=> Failing)
  BY <1>1, SourceSame DEF Failing
<1>3. got \in Seq(Nat) /\ read \in Seq(Nat) /\ out = <<>>
  BY <1>1 DEF DInv, TypeInv, Flow
<1>4. got \o read \in Seq(Nat) /\ <<>> \in Seq(Nat)
  BY <1>3
<1>5. TypeInv'
  BY <1>1, <1>2, <1>4 DEF DInv, TypeInv
<1>6. Flow'
  BY <1>1 DEF DInv, Flow
<1>7. Given' = Given
  <2>1. (got \o read) \o <<>> = got \o read
    BY <1>4, ConcatEmptySeq
  <2>2. Given' = ((got \o read) \o <<>>) \o <<>> /\ Given = (got \o read) \o <<>>
    BY <1>1, <1>3 DEF Given
  <2>3. QED
    BY <2>1, <2>2
<1>8. Exact'
  BY <1>1, <1>2, <1>7 DEF DInv, Exact
<1>9. QED
  BY <1>5, <1>6, <1>8 DEF DInv

\* Leftovers of an earlier read.
LEMMA BodyLeftoverKeeps ==
    ASSUME DInv, BodyLeftover
    PROVE  DInv'
<1>1. /\ src' = src /\ first' = first /\ wrapped' = wrapped /\ dec' = dec /\ pos' = pos
      /\ faulted' = faulted /\ err' = err /\ filled' = filled /\ want > 0 /\ part = "Body" /\ out # <<>>
  BY DEF BodyLeftover, source, InBody
<1>2. PICK n : n = Min({Space, Len(out)}) /\ Deliver(SubSeq(out, 1, n)) /\ out' = LeftAfter(out, n)
  BY DEF BodyLeftover
<1>3. TypeInv /\ out \in Seq(Nat)
  BY DEF DInv, TypeInv
<1>4. Len(out) \in Nat
  BY <1>3
<1>5. n \in 0..Len(out) /\ n \in Nat /\ Len(read) + n <= want
  BY <1>1, <1>2, <1>3, <1>4, CopyFits
<1> DEFINE a == SubSeq(out, 1, n)
           b == LeftAfter(out, n)
<1>6. a \in Seq(Nat) /\ Len(a) = n /\ b \in Seq(Nat) /\ a \o b = out
  BY <1>3, <1>5, CutInTwo
<1>7. Deliver(a) /\ out' = b
  BY <1>2
<1> HIDE DEF a, b
<1>8. /\ got' \in Seq(Nat) /\ read' \in Seq(Nat) /\ out' \in Seq(Nat)
      /\ want' \in Nat /\ (want' = 0 => read' = <<>>) /\ (want' > 0 => Len(read') < want')
      /\ Given' = got \o read \o (a \o b)
      /\ errs' = errs /\ part' = part
  BY <1>1, <1>3, <1>5, <1>6, <1>7, DeliverKeeps
<1>9. Given' = Given
  BY <1>6, <1>8 DEF Given
<1>10. Cells' = Cells /\ (HeaderWhole' <=> HeaderWhole) /\ (Failing' <=> Failing)
  BY <1>1, SourceSame DEF Failing
<1>11. TypeInv'
  BY <1>1, <1>3, <1>8, <1>10 DEF TypeInv
<1>12. Flow'
  <2>1. errs = 0 /\ ~filled
    BY <1>1 DEF DInv, Flow, TypeInv
  <2>2. ~wrapped => read' = <<>>
    BY <1>7 DEF Deliver, Return
  <2>3. QED
    BY <1>1, <1>8, <2>1, <2>2 DEF DInv, Flow
<1>13. \A k \in Nat : AtQuad(k) => AtQuad(k)'
  BY <1>1, <1>9, AtQuadSame
<1>14. Exact'
  BY <1>1, <1>8, <1>9, <1>10, <1>13 DEF DInv, Exact, InBodyOf
<1>15. QED
  BY <1>11, <1>12, <1>14 DEF DInv

\* More characters behind the same quad.
LEMMA RestGrows ==
    ASSUME NEW chars \in Seq(Cell), NEW s, NEW k \in Nat, RestOf(s, chars, k), NEW t \in Seq(Cell)
    PROVE  RestOf(s \o t, chars \o t, k)
<1>1. s \in Seq(Cell) /\ Len(s) = Len(chars) - 4 * k /\ \A i \in 1..Len(s) : s[i] = chars[4 * k + i]
  BY DEF RestOf
<1>2. Len(s) \in Nat /\ Len(chars) \in Nat /\ Len(t) \in Nat
  BY <1>1
<1>3. /\ s \o t \in Seq(Cell) /\ Len(s \o t) = Len(s) + Len(t)
      /\ \A i \in 1..(Len(s) + Len(t)) : (s \o t)[i] = IF i <= Len(s) THEN s[i] ELSE t[i - Len(s)]
  BY <1>1, ConcatProperties
<1>4. /\ Len(chars \o t) = Len(chars) + Len(t)
      /\ \A i \in 1..(Len(chars) + Len(t)) : (chars \o t)[i] = IF i <= Len(chars) THEN chars[i] ELSE t[i - Len(chars)]
  BY ConcatProperties
<1>5. ASSUME NEW i \in 1..(Len(s) + Len(t)) PROVE (s \o t)[i] = (chars \o t)[4 * k + i]
  <2>1. PICK m \in 1..(Len(chars) + Len(t)) : m = 4 * k + i
    BY <1>1, <1>2
  <2>2. CASE i <= Len(s)
    BY <1>1, <1>2, <1>3, <1>4, <2>1, <2>2
  <2>3. CASE i > Len(s)
    <3>1. m > Len(chars) /\ m - Len(chars) = i - Len(s)
      BY <1>1, <1>2, <2>1, <2>3
    <3>2. (s \o t)[i] = t[i - Len(s)]
      BY <1>2, <1>3, <2>3
    <3>3. (chars \o t)[m] = t[m - Len(chars)]
      BY <1>2, <1>4, <3>1
    <3>4. QED
      BY <2>1, <3>1, <3>2, <3>3
  <2>4. i <= Len(s) \/ i > Len(s)
    BY <1>2
  <2>5. QED
    BY <2>2, <2>3, <2>4
<1>6. Len(s \o t) = Len(chars \o t) - 4 * k
  BY <1>1, <1>2, <1>3, <1>4
<1>7. QED
  BY <1>3, <1>5, <1>6 DEF RestOf

\* Filling the decoder's buffer.
LEMMA BodyFillKeeps ==
    ASSUME DInv, BodyFill
    PROVE  DInv'
<1>1. /\ src' = src /\ first' = first /\ wrapped' = wrapped /\ faulted' = faulted /\ part' = part /\ out' = out
      /\ err' = err /\ want' = want /\ read' = read /\ got' = got /\ errs' = errs /\ filled' = TRUE
      /\ part = "Body" /\ out = <<>> /\ ~err /\ ~filled
  BY DEF BodyFill, source, InBody, Memorised, DInv, TypeInv
<1>2. PICK to : /\ to = IF NeedsFill THEN TakenTo(BufSize - Len(dec)) ELSE pos
                /\ dec' = dec \o Tokens(pos, to) /\ pos' = to
  BY DEF BodyFill
<1>3. /\ Cells \in Seq(Cell) /\ Len(Cells) \in Nat /\ src.hdr \in Nat /\ pos \in 0..Len(Cells) /\ pos \in Nat
      /\ (Failing => pos <= src.fail) /\ dec \in Seq(Cell) /\ src.body \in Seq(Nat)
  BY TextFacts DEF DInv, TypeInv, Cells
<1>4. /\ to \in pos..Len(Cells) /\ (Failing => to <= src.fail)
      /\ \A i \in (pos + 1)..to : Cells[i].k \in TokenKinds \cup {"nl"}
  <2>1. CASE NeedsFill
    BY <1>2, <2>1, TakenToFacts DEF DInv
  <2>2. CASE ~NeedsFill
    BY <1>2, <1>3, <2>2
  <2>3. QED
    BY <2>1, <2>2
<1>5. to \in Nat /\ pos <= to /\ to <= Len(Cells)
  BY <1>3, <1>4
<1> DEFINE t == Tokens(pos, to)
<1>6. t \in Seq(Cell)
  <2>1. pos \in pos..Len(Cells)
    BY <1>3
  <2>2. TokensOf(Cells, pos, to) \in Seq(Cell)
    BY <1>3, <1>4, <2>1, TokensJoin
  <2>3. QED
    BY <2>2 DEF Tokens
<1>7. dec' \in Seq(Cell)
  <2> HIDE DEF t
  <2>1. dec \o t \in Seq(Cell)
    BY <1>3, <1>6
  <2>2. QED
    BY <1>2, <2>1 DEF t
<1>8. Cells' = Cells /\ (HeaderWhole' <=> HeaderWhole) /\ (Failing' <=> Failing)
  BY <1>1, SourceSame DEF Failing
<1>9. TypeInv'
  <2>1. pos' \in 0..Len(Cells) /\ (Failing' => pos' <= src.fail)
    BY <1>2, <1>3, <1>4, <1>5, <1>8
  <2>2. QED
    BY <1>1, <1>7, <1>8, <2>1 DEF DInv, TypeInv
<1>10. Flow'
  BY <1>1 DEF DInv, Flow
<1>11. Given' = Given
  BY <1>1 DEF Given
<1>12. ASSUME HeaderWhole
       PROVE  src'.hdr <= pos' /\ InBodyOf(src', pos') /\ \E k \in Nat : AtQuad(k)'
  <2>1. src.hdr <= pos /\ InBodyOf(src, pos)
    BY <1>1, <1>12 DEF DInv, Exact
  <2>2. PICK k \in Nat : AtQuad(k)
    BY <1>1, <1>12 DEF DInv, Exact
  <2>3. src.hdr <= to
    BY <1>3, <1>5, <2>1
  <2>4. InBodyOf(src, to)
    <3>1. ASSUME NEW i \in (src.hdr + 1)..to PROVE Cells[i].k \in TokenKinds \cup {"nl"}
      <4>1. i \in (src.hdr + 1)..pos \/ i \in (pos + 1)..to
        BY <1>3, <1>5
      <4>2. QED
        BY <1>4, <2>1, <4>1 DEF InBodyOf, Cells
    <3>2. QED
      BY <3>1 DEF InBodyOf, Cells
  <2>5. src.hdr \in 0..Len(Cells) /\ pos \in src.hdr..Len(Cells)
    BY <1>3, <2>1
  <2> DEFINE chars == Tokens(src.hdr, pos)
  <2>6. Tokens(src.hdr, to) = chars \o t
    BY <1>3, <1>4, <2>5, TokensJoin DEF Tokens
  <2>7. chars \in Seq(Cell)
    <3>1. src.hdr \in src.hdr..Len(Cells)
      BY <1>3, <2>5
    <3>2. TokensOf(Cells, src.hdr, pos) \in Seq(Cell)
      BY <1>3, <2>5, <3>1, TokensJoin
    <3>3. QED
      BY <3>2 DEF Tokens
  <2>8. RestOf(dec, chars, k) /\ k <= Quads(Len(src.body)) /\ Len(Given) = OctetsIn(k, Len(src.body))
    BY <2>2 DEF AtQuad
  <2> HIDE DEF chars, t
  <2>9. RestOf(dec \o t, chars \o t, k)
    BY <1>6, <2>7, <2>8, RestGrows
  <2>10. dec' = dec \o t /\ Tokens(src.hdr, pos)' = chars \o t
    <3>1. Tokens(src.hdr, pos)' = Tokens(src.hdr, to)
      BY <1>1, <1>2 DEF Tokens, Cells
    <3>2. QED
      BY <1>2, <2>6, <3>1 DEF t
  <2>11. AtQuad(k)'
    BY <1>1, <1>11, <2>8, <2>9, <2>10 DEF AtQuad
  <2>12. QED
    BY <1>1, <1>2, <2>3, <2>4, <2>11
<1>13. Exact'
  BY <1>1, <1>8, <1>11, <1>12 DEF DInv, Exact
<1>14. QED
  BY <1>9, <1>10, <1>13 DEF DInv

\* Octets that go on where a sequence's beginning ends make a longer beginning.
LEMMA LongerStarts ==
    ASSUME NEW s \in Seq(Nat), NEW o \in Seq(Nat), NEW t \in Seq(Nat), Starts(s, t),
           Len(s) + Len(o) <= Len(t), \A p \in 1..Len(o) : o[p] = t[Len(s) + p]
    PROVE  Starts(s \o o, t) /\ Len(s \o o) = Len(s) + Len(o)
<1>1. Len(s) \in Nat /\ Len(o) \in Nat /\ Len(t) \in Nat
  OBVIOUS
<1>2. /\ Len(s \o o) = Len(s) + Len(o)
      /\ \A i \in 1..(Len(s) + Len(o)) : (s \o o)[i] = IF i <= Len(s) THEN s[i] ELSE o[i - Len(s)]
  BY ConcatProperties
<1>3. ASSUME NEW i \in 1..(Len(s) + Len(o)) PROVE (s \o o)[i] = t[i]
  <2>1. CASE i <= Len(s)
    BY <1>1, <1>2, <2>1 DEF Starts
  <2>2. CASE i > Len(s)
    <3>1. PICK p \in 1..Len(o) : p = i - Len(s) /\ i = Len(s) + p
      <4>1. PICK l \in Nat, m \in Nat : l = Len(s) /\ m = Len(o)
        BY <1>1
      <4>2. i \in 1..(l + m) /\ i > l
        BY <2>2, <4>1
      <4>3. i - l \in 1..m /\ i = l + (i - l)
        BY <4>2
      <4>4. QED
        BY <4>1, <4>3
    <3>2. (s \o o)[i] = o[p]
      BY <1>1, <1>2, <2>2, <3>1
    <3>3. QED
      BY <3>1, <3>2
  <2>3. i <= Len(s) \/ i > Len(s)
    BY <1>1
  <2>4. QED
    BY <2>1, <2>2, <2>3
<1>4. QED
  BY <1>1, <1>2, <1>3 DEF Starts

\* Fewer characters behind a later quad.
LEMMA RestShrinks ==
    ASSUME NEW chars \in Seq(Cell), NEW s, NEW k \in Nat, RestOf(s, chars, k), NEW N \in Nat, 4 * N <= Len(s)
    PROVE  RestOf(SubSeq(s, 4 * N + 1, Len(s)), chars, k + N)
<1>1. s \in Seq(Cell) /\ Len(s) = Len(chars) - 4 * k /\ \A i \in 1..Len(s) : s[i] = chars[4 * k + i]
  BY DEF RestOf
<1>2. Len(s) \in Nat /\ Len(chars) \in Nat
  BY <1>1
<1>3. PICK m \in Nat : m = 4 * N + 1
  OBVIOUS
<1> DEFINE r == SubSeq(s, m, Len(s))
<1>4. /\ r \in Seq(Cell) /\ Len(r) = Len(s) - 4 * N
      /\ \A i \in 1..(Len(s) - 4 * N) : r[i] = s[m + i - 1]
  <2>1. m \in 1..(Len(s) + 1) /\ Len(s) - m + 1 = Len(s) - 4 * N
    BY <1>2, <1>3
  <2>2. \A i \in m..Len(s) : s[i] \in Cell
    <3>1. \A i \in 1..Len(s) : s[i] \in Cell
      BY <1>1, ElementsOf
    <3>2. QED
      BY <1>2, <2>1, <3>1
  <2>3. m \in Int /\ Len(s) \in Int
    BY <1>2
  <2>4. /\ r \in Seq(Cell) /\ Len(r) = IF m <= Len(s) THEN Len(s) - m + 1 ELSE 0
        /\ \A i \in 1..(Len(s) - m + 1) : r[i] = s[m + i - 1]
    BY <2>2, <2>3, SubSeqProperties
  <2>5. (IF m <= Len(s) THEN Len(s) - m + 1 ELSE 0) = Len(s) - 4 * N
    <3>1. PICK l \in Nat : l = Len(s)
      BY <1>2
    <3>2. m = 4 * N + 1 /\ 4 * N <= l
      BY <1>3, <3>1
    <3>3. CASE m <= l
      BY <3>1, <3>2, <3>3
    <3>4. CASE ~(m <= l)
      <4>1. l - 4 * N = 0
        BY <3>2, <3>4
      <4>2. QED
        BY <3>1, <3>4, <4>1
    <3>5. QED
      BY <3>3, <3>4
  <2> HIDE DEF r
  <2>6. QED
    BY <2>1, <2>4, <2>5
<1> HIDE DEF r
<1>5. ASSUME NEW i \in 1..Len(r) PROVE r[i] = chars[4 * (k + N) + i]
  <2>1. PICK j \in 1..Len(s) : j = m + i - 1 /\ 4 * k + j = 4 * (k + N) + i
    BY <1>2, <1>3, <1>4
  <2>2. r[i] = s[j] /\ s[j] = chars[4 * k + j]
    BY <1>1, <1>2, <1>4, <2>1
  <2>3. QED
    BY <2>1, <2>2
<1>6. Len(r) = Len(chars) - 4 * (k + N)
  BY <1>1, <1>2, <1>4
<1>7. RestOf(r, chars, k + N)
  BY <1>4, <1>5, <1>6 DEF RestOf
<1>8. QED
  BY <1>3, <1>7 DEF r

\* A decoded prefix of the buffer is the body's next octets.
LEMMA BodyDecodeKeeps ==
    ASSUME DInv, BodyDecode
    PROVE  DInv'
<1>1. PICK N : N = Decodable(dec)
  OBVIOUS
<1>2. PICK octets : octets = DecodedPrefix(dec)
  OBVIOUS
<1>3. PICK n : n = Min({Space, Len(octets)})
  OBVIOUS
<1>4. /\ src' = src /\ first' = first /\ wrapped' = wrapped /\ faulted' = faulted /\ pos' = pos /\ err' = err
      /\ want > 0 /\ part = "Body" /\ filled /\ filled' = FALSE
      /\ Deliver(SubSeq(octets, 1, n)) /\ out' = LeftAfter(octets, n)
      /\ dec' = SubSeq(dec, 4 * N + 1, Len(dec)) /\ N > 0
  BY <1>1, <1>2, <1>3 DEF BodyDecode, source, InBody, ConsumedChars
<1>5. /\ TypeInv /\ Flow /\ Exact /\ dec \in Seq(Cell) /\ Len(dec) \in Nat
      /\ got \in Seq(Nat) /\ read \in Seq(Nat) /\ out = <<>> /\ ~err /\ errs = 0
      /\ Cells \in Seq(Cell) /\ Len(Cells) \in Nat /\ src.hdr \in Nat /\ src.body \in Seq(Nat) /\ Layout(src)
      /\ pos \in 0..Len(Cells) /\ first \in 1..Len(Cells)
  <2>1. TypeInv /\ Flow /\ Exact
    BY DEF DInv
  <2>2. dec \in Seq(Cell) /\ got \in Seq(Nat) /\ read \in Seq(Nat) /\ errs \in Nat /\ src \in Texts
        /\ pos \in 0..Len(Cells) /\ first \in 1..Len(Cells)
    BY <2>1 DEF TypeInv
  <2>3. out = <<>> /\ ~err
    BY <1>4, <2>1 DEF Flow
  <2>4. errs = 0
    BY <1>4, <2>1, <2>2, <2>3 DEF Flow
  <2>5. QED
    BY <2>1, <2>2, <2>3, <2>4, TextFacts DEF Cells
<1>6. N \in Nat /\ N >= 1 /\ 4 * N <= Len(dec)
  BY <1>1, <1>4, <1>5, DecodableFacts
<1>7. octets \in Seq(Nat) /\ Len(octets) \in Nat
  BY <1>1, <1>2, <1>5, <1>6, PrefixFacts
<1>8. n \in 0..Len(octets) /\ n \in Nat /\ Len(read) + n <= want
  BY <1>3, <1>4, <1>5, <1>7, CopyFits
<1> DEFINE a == SubSeq(octets, 1, n)
           b == LeftAfter(octets, n)
<1>9. a \in Seq(Nat) /\ Len(a) = n /\ b \in Seq(Nat) /\ a \o b = octets
  BY <1>7, <1>8, CutInTwo
<1>10. Deliver(a) /\ out' = b
  BY <1>4
<1> HIDE DEF a, b
<1>11. /\ got' \in Seq(Nat) /\ read' \in Seq(Nat) /\ out' \in Seq(Nat)
       /\ want' \in Nat /\ (want' = 0 => read' = <<>>) /\ (want' > 0 => Len(read') < want')
       /\ Given' = got \o read \o (a \o b)
       /\ errs' = errs /\ part' = part
  BY <1>4, <1>5, <1>8, <1>9, <1>10, DeliverKeeps
<1>12. Given' = Given \o octets /\ Given \in Seq(Nat) /\ Len(Given) \in Nat
  <2>1. got \o read \in Seq(Nat)
    BY <1>5
  <2>2. got \o read \o <<>> = got \o read
    BY <2>1
  <2>3. Given = got \o read
    BY <1>5, <2>2 DEF Given
  <2>4. QED
    BY <1>9, <1>11, <2>1, <2>3
<1>13. Cells' = Cells /\ (HeaderWhole' <=> HeaderWhole) /\ (Failing' <=> Failing)
  BY <1>4, SourceSame DEF Failing
<1>14. dec' \in Seq(Cell)
  <2>1. \A i \in 1..Len(dec) : dec[i] \in Cell
    BY <1>5, ElementsOf
  <2>2. PICK m \in Nat : m = 4 * N + 1 /\ m >= 1
    BY <1>6
  <2>3. \A i \in m..Len(dec) : dec[i] \in Cell
    BY <1>5, <2>1, <2>2
  <2>4. QED
    BY <1>4, <1>5, <2>2, <2>3, SubSeqProperties
<1>15. TypeInv'
  BY <1>4, <1>5, <1>11, <1>13, <1>14 DEF TypeInv
<1>16. Flow'
  <2>1. ~wrapped => read' = <<>>
    BY <1>10 DEF Deliver, Return
  <2>2. QED
    BY <1>4, <1>5, <1>11, <2>1 DEF Flow
<1>17. ASSUME HeaderWhole
       PROVE  /\ Starts(Given', src.body)
              /\ src.hdr <= pos /\ InBodyOf(src, pos) /\ \E k \in Nat : AtQuad(k)'
  <2>1. Starts(Given, src.body) /\ src.hdr <= pos /\ InBodyOf(src, pos)
    BY <1>4, <1>5, <1>17 DEF Exact
  <2>2. PICK k \in Nat : AtQuad(k)
    BY <1>4, <1>5, <1>17 DEF Exact
  <2>3. PICK chars : chars = Tokens(src.hdr, pos)
    OBVIOUS
  <2>4. chars \in Seq(Cell)
    <3>1. src.hdr \in 0..Len(Cells) /\ src.hdr \in src.hdr..Len(Cells) /\ pos \in src.hdr..Len(Cells)
      BY <1>5, <2>1
    <3>2. TokensOf(Cells, src.hdr, pos) \in Seq(Cell)
      BY <1>5, <3>1, TokensJoin
    <3>3. QED
      BY <2>3, <3>2 DEF Tokens
  <2>5. Encodes(chars, src.body)
    <3>1. src.hdr < Len(src.cells) /\ pos \in src.hdr..Len(src.cells)
      BY <1>5, <1>17, <2>1 DEF HeaderWhole, Cells
    <3>2. QED
      BY <1>5, <2>1, <2>3, <3>1 DEF Layout, Tokens, Cells
  <2>6. /\ k <= Quads(Len(src.body)) /\ RestOf(dec, chars, k)
        /\ Len(Given) = OctetsIn(k, Len(src.body))
    BY <2>2, <2>3 DEF AtQuad
  <2>7. Decoding(src.body, chars, k, dec, N)
    BY <1>1, <1>6, <2>5, <2>6 DEF Decoding
  <2>8. k + N <= Quads(Len(src.body))
    BY <1>5, <2>4, <2>7, NotTheChecksum
  <2>9. /\ Len(octets) = OctetsIn(k + N, Len(src.body)) - OctetsIn(k, Len(src.body))
        /\ \A p \in 1..Len(octets) : octets[p] = src.body[OctetsIn(k, Len(src.body)) + p]
    <3>1. PICK body \in Seq(Nat) : body = src.body
      BY <1>5
    <3>2. Decoding(body, chars, k, dec, N)
      BY <2>7, <3>1
    <3>3. /\ Len(DecodedPrefix(dec)) = OctetsIn(k + N, Len(body)) - OctetsIn(k, Len(body))
          /\ \A p \in 1..Len(DecodedPrefix(dec)) : DecodedPrefix(dec)[p] = body[OctetsIn(k, Len(body)) + p]
      BY <2>4, <3>2, DecodeExact
    <3>4. QED
      BY <1>2, <3>1, <3>3
  <2>10. PICK l \in Nat : l = OctetsIn(k + N, Len(src.body)) /\ l <= Len(src.body)
    <3>1. PICK len \in Nat : len = Len(src.body)
      BY <1>5
    <3>2. OctetsIn(k + N, len) \in Nat /\ OctetsIn(k + N, len) <= len
      BY <1>6, <3>1 DEF OctetsIn
    <3>3. QED
      BY <3>1, <3>2
  <2>11. Len(Given) + Len(octets) = l
    BY <1>7, <1>12, <2>6, <2>9, <2>10
  <2>12. Starts(Given \o octets, src.body) /\ Len(Given \o octets) = Len(Given) + Len(octets)
    <3>1. \A p \in 1..Len(octets) : octets[p] = src.body[Len(Given) + p]
      BY <2>6, <2>9
    <3>2. QED
      BY <1>5, <1>7, <1>12, <2>1, <2>10, <2>11, <3>1, LongerStarts
  <2>13. RestOf(dec', chars, k + N)
    BY <1>4, <1>6, <2>4, <2>6, RestShrinks
  <2>14. AtQuad(k + N)'
    <3>1. Tokens(src.hdr, pos)' = chars
      BY <1>4, <2>3 DEF Tokens, Cells
    <3>2. Len(Given') = OctetsIn(k + N, Len(src.body))
      BY <1>12, <2>10, <2>11, <2>12
    <3>3. QED
      BY <1>4, <2>8, <2>13, <3>1, <3>2 DEF AtQuad
  <2>15. k + N \in Nat
    BY <1>6
  <2>16. QED
    BY <1>12, <2>1, <2>12, <2>14, <2>15
<1>18. Exact'
  BY <1>4, <1>13, <1>17 DEF Exact
<1>19. QED
  BY <1>15, <1>16, <1>18 DEF DInv

-----------------------------------------------------------------------------
(* The theorems.                                                           *)

\* Every step of read(), and a step of nothing, keeps the invariant.
LEMMA NextKeeps == DInv /\ [Next]_vars => DInv'
<1> SUFFICES ASSUME DInv, [Next]_vars
             PROVE  DInv'
  OBVIOUS
<1>1. CASE \E n \in ReadSizes : Call(n)
  BY <1>1, CallKeeps
<1>2. CASE ReadHeader
  BY <1>2, ReadHeaderKeeps
<1>3. CASE ReadHeaderFails \/ BodyErrorAgain \/ BodyFillFails \/ FooterReadFails \/ FooterMalformed \/ FooterMismatch
  BY <1>3, ErrorKeeps
<1>4. CASE BodyEnd \/ ReadFooter \/ ReadTemp
  BY <1>4, QuietKeeps
<1>5. CASE BodyLeftover
  BY <1>5, BodyLeftoverKeeps
<1>6. CASE BodyFill
  BY <1>6, BodyFillKeeps
<1>7. CASE BodyDecode
  BY <1>7, BodyDecodeKeeps
<1>8. CASE ReadDone
  BY <1>8, ReadDoneKeeps
<1>9. CASE UNCHANGED vars
  <2>1. /\ src' = src /\ first' = first /\ wrapped' = wrapped /\ pos' = pos /\ faulted' = faulted /\ part' = part
        /\ dec' = dec /\ out' = out /\ err' = err /\ filled' = filled /\ want' = want /\ read' = read
        /\ got' = got /\ errs' = errs
    BY <1>9 DEF vars
  <2>2. Cells' = Cells /\ (HeaderWhole' <=> HeaderWhole) /\ (Failing' <=> Failing)
    BY <2>1, SourceSame DEF Failing
  <2>3. Given' = Given
    BY <2>1 DEF Given
  <2>4. TypeInv'
    BY <2>1, <2>2 DEF DInv, TypeInv
  <2>5. Flow'
    BY <2>1 DEF DInv, Flow
  <2>6. \A k \in Nat : AtQuad(k) => AtQuad(k)'
    BY <2>1, <2>3, AtQuadSame
  <2>7. Exact'
    BY <2>1, <2>2, <2>3, <2>6 DEF DInv, Exact
  <2>8. QED
    BY <2>4, <2>5, <2>7 DEF DInv
<1>10. QED
  BY <1>1, <1>2, <1>3, <1>4, <1>5, <1>6, <1>7, <1>8, <1>9 DEF Next

\* The decoder is always at a quad of the body, whose octets before it have
\* been given out or are left over.
THEOREM DInvHolds == Spec => []DInv
<1>1. Init => DInv
  BY InitDInv
<1>2. QED
  BY <1>1, NextKeeps, PTL DEF Spec

\* What begins like the octets in the text begins like those that were armored.
LEMMA ExactFromDInv == DInv => DecodedExactly
<1> SUFFICES ASSUME DInv, HeaderWhole
             PROVE  IsPrefix(got \o read \o out, src.payload)
  BY DEF DecodedExactly
<1> DEFINE g == Given
           b == src.body
           p == src.payload
<1>1. /\ got \in Seq(Nat) /\ read \in Seq(Nat) /\ out \in Seq(Nat)
      /\ b \in Seq(Nat) /\ p \in Seq(Nat) /\ IsPrefix(b, p)
  BY TextFacts DEF DInv, TypeInv, Layout
<1>2. g \in Seq(Nat)
  <2>1. got \o read \in Seq(Nat)
    BY <1>1
  <2>2. QED
    BY <1>1, <2>1 DEF Given
<1>3. Starts(g, b)
  BY DEF DInv, Exact
<1>4. QED
  <2> HIDE DEF g, b, p
  <2>1. Len(g) \in Nat /\ Len(b) \in Nat /\ Len(p) \in Nat /\ Len(g) <= Len(b) /\ Len(b) <= Len(p)
    BY <1>1, <1>2, <1>3 DEF Starts, IsPrefix
  <2>2. SubSeq(b, 1, Len(b)) = SubSeq(p, 1, Len(b)) /\ 1 \in Int
    BY <1>1 DEF IsPrefix
  <2>3. ASSUME NEW i \in 1..Len(b) PROVE b[i] = p[i]
    <3>1. SubSeq(b, 1, Len(b))[i] = b[i]
      BY <1>1, <2>1
    <3>2. SubSeq(p, 1, Len(b))[i] = p[i]
      BY <1>1, <2>1
    <3>3. QED
      BY <2>2, <3>1, <3>2
  <2>4. ASSUME NEW i \in 1..Len(g) PROVE g[i] = p[i]
    BY <1>3, <2>1, <2>3 DEF Starts
  <2>5. SubSeq(g, 1, Len(g)) = SubSeq(p, 1, Len(g))
    <3>1. SubSeq(g, 1, Len(g)) = [i \in 1..Len(g) |-> g[i]]
      BY <1>2, <2>1
    <3>2. SubSeq(p, 1, Len(g)) = [i \in 1..Len(g) |-> p[i]]
      BY <1>1, <2>1
    <3>3. QED
      BY <2>4, <3>1, <3>2
  <2>6. IsPrefix(g, p)
    BY <2>1, <2>5 DEF IsPrefix
  <2>7. QED
    BY <2>6 DEF g, p, Given

\* The octets read() gives out, has in the slice or has left over are those
\* that were armored, in order and from the first on: whatever the text, the
\* pieces it comes in, the slices and buffers, and wherever the source fails.
THEOREM DecodedExactlyHolds == Spec => []DecodedExactly
BY DInvHolds, ExactFromDInv, PTL

\* No step after an error gives out octets.
LEMMA ErrorIsFinal == DInv /\ [Next]_vars /\ errs > 0 => got' = got
<1> SUFFICES ASSUME DInv, [Next]_vars, errs > 0
             PROVE  got' = got
  OBVIOUS
<1>1. TypeInv /\ Flow
  BY DEF DInv
<1>2. /\ read = <<>> /\ got \in Seq(Nat) /\ got \o <<>> = got
      /\ part = "Body" => ~wrapped /\ err /\ out = <<>> /\ ~filled
  BY <1>1 DEF Flow, TypeInv
<1>3. ASSUME NEW r, Return(r, <<>>) \/ Return(r, read)
      PROVE  got' = got
  BY <1>2, <1>3 DEF Return
<1>4. CASE (\E n \in ReadSizes : Call(n)) \/ ReadHeader \/ BodyFill \/ ReadFooter \/ UNCHANGED vars
  BY <1>4 DEF Call, ReadHeader, BodyFill, ReadFooter, vars
<1>5. CASE ReadHeaderFails \/ BodyErrorAgain \/ BodyFillFails \/ FooterReadFails \/ FooterMalformed
  BY <1>3, <1>5 DEF ReadHeaderFails, BodyErrorAgain, BodyFillFails, FooterReadFails, FooterMalformed, Fail
<1>6. CASE FooterMismatch \/ ReadDone \/ ReadTemp
  BY <1>3, <1>6 DEF FooterMismatch, ReadDone, ReadTemp
<1>7. CASE BodyLeftover \/ BodyDecode
  BY <1>2, <1>7 DEF BodyLeftover, BodyDecode, InBody
<1>8. CASE BodyEnd
  BY <1>2, <1>8 DEF BodyEnd, InBody
<1>9. QED
  BY <1>4, <1>5, <1>6, <1>7, <1>8 DEF Next

\* Behind an error read() gives out nothing: the decoder keeps err, and
\* Dearmor is left in Part::Temp or Part::Done.
THEOREM NothingAfterErrorHolds == Spec => NothingAfterError
<1>1. DInv /\ [Next]_vars => [errs > 0 => got' = got]_vars
  BY ErrorIsFinal
<1>2. QED
  BY <1>1, DInvHolds, PTL DEF Spec, NothingAfterError

=============================================================================
