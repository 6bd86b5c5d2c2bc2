-------------------------- MODULE NormalizedProofs --------------------------
(***************************************************************************)
(* Proofs about the line ending iterator, for every text: normalising to   *)
(* \r\n or \r gives every line ending the one style and changes nothing    *)
(* else, and doing it twice is doing it once.                              *)
(***************************************************************************)
EXTENDS Normalized, SelectionProofs, SequenceTheorems

-----------------------------------------------------------------------------
(* The reference, octet by octet.                                          *)

Joins(f, text, style, k) ==
    f = [n \in 0..k |-> IF n = 0 THEN <<>> ELSE f[n - 1] \o Piece(text, style, n)]

\* The pieces of a text can be joined up to any octet.
LEMMA JoinsExist ==
    ASSUME NEW text, NEW style
    PROVE  \A k \in Nat : \E f : Joins(f, text, style, k)
<1> DEFINE T == { k \in Nat : \E f : Joins(f, text, style, k) }
<1>1. 0 \in T
  <2> DEFINE f == [n \in 0..0 |-> <<>>]
  <2>1. Joins(f, text, style, 0)
    BY DEF Joins
  <2>2. QED
    BY <2>1
<1>2. ASSUME NEW k \in Nat, k \in T PROVE k + 1 \in T
  <2>1. PICK f : Joins(f, text, style, k)
    BY <1>2
  <2> DEFINE g == [n \in 0..(k + 1) |-> IF n <= k THEN f[n] ELSE f[k] \o Piece(text, style, k + 1)]
  <2>2. Joins(g, text, style, k + 1)
    <3>1. ASSUME NEW n \in 0..(k + 1)
          PROVE  g[n] = IF n = 0 THEN <<>> ELSE g[n - 1] \o Piece(text, style, n)
      <4>1. CASE n = 0
        BY <2>1, <4>1 DEF Joins
      <4>2. CASE n # 0 /\ n <= k
        <5>1. n \in 0..k /\ n - 1 \in 0..(k + 1) /\ n - 1 <= k
          BY <4>2
        <5>2. f[n] = f[n - 1] \o Piece(text, style, n)
          BY <2>1, <4>2, <5>1 DEF Joins
        <5>3. g[n] = f[n] /\ g[n - 1] = f[n - 1]
          BY <4>2, <5>1
        <5>4. QED
          BY <4>2, <5>2, <5>3
      <4>3. CASE n = k + 1
        <5>1. k \in 0..(k + 1) /\ ~(k + 1 <= k) /\ (k + 1) - 1 = k /\ k + 1 # 0
          OBVIOUS
        <5>2. g[k] = f[k] /\ g[k + 1] = f[k] \o Piece(text, style, k + 1)
          BY <5>1
        <5>3. QED
          BY <4>3, <5>1, <5>2
      <4>4. QED
        BY <4>1, <4>2, <4>3
    <3>2. QED
      BY <3>1 DEF Joins
  <2>3. QED
    BY <2>2
<1> HIDE DEF T
<1>3. \A k \in Nat : k \in T
  BY <1>1, <1>2, Rounds
<1>4. QED
  BY <1>3 DEF T

\* The reference starts with nothing and grows by a piece with every octet.
LEMMA ReferenceSteps ==
    ASSUME NEW text \in Seq(Octet), NEW style
    PROVE  /\ Reference(text, style, 0) = <<>>
           /\ \A n \in Nat : n < Len(text) =>
                 Reference(text, style, n + 1) = Reference(text, style, n) \o Piece(text, style, n + 1)
<1> DEFINE g == CHOOSE f : Joins(f, text, style, Len(text))
<1>1. Len(text) \in Nat
  OBVIOUS
<1>2. \E f : Joins(f, text, style, Len(text))
  BY <1>1, JoinsExist
<1>3. Joins(g, text, style, Len(text))
  BY <1>2
<1>4. \A n : Reference(text, style, n) = g[n]
  BY DEF Reference, Joins
<1> HIDE DEF g
<1>5. g[0] = <<>>
  BY <1>1, <1>3 DEF Joins
<1>6. ASSUME NEW n \in Nat, n < Len(text) PROVE g[n + 1] = g[n] \o Piece(text, style, n + 1)
  <2>1. n + 1 \in 0..Len(text) /\ n + 1 # 0 /\ (n + 1) - 1 = n
    BY <1>1, <1>6
  <2>2. QED
    BY <1>3, <2>1 DEF Joins
<1>7. QED
  BY <1>4, <1>5, <1>6

\* A piece is a line ending of the style, the octet, or nothing.
LEMMA PieceOctets ==
    ASSUME NEW text \in Seq(Octet), NEW style, NEW n \in 1..Len(text)
    PROVE  Piece(text, style, n) \in Seq(Octet)
<1>1. text[n] \in Octet
  OBVIOUS
<1>2. <<>> \in Seq(Octet) /\ <<text[n]>> \in Seq(Octet)
  BY <1>1
<1>3. Break(style) \in Seq(Octet)
  <2>1. CR \in Octet /\ LF \in Octet
    BY DEF Octet
  <2>2. <<CR>> \in Seq(Octet) /\ <<LF>> \in Seq(Octet) /\ <<CR, LF>> \in Seq(Octet)
    BY <2>1
  <2>3. QED
    BY <2>2 DEF Break
<1>4. QED
  BY <1>2, <1>3 DEF Piece

\* The reference is a text.
LEMMA ReferenceOctets ==
    ASSUME NEW text \in Seq(Octet), NEW style
    PROVE  \A n \in 0..Len(text) : Reference(text, style, n) \in Seq(Octet)
<1> DEFINE T == { n \in Nat : n <= Len(text) => Reference(text, style, n) \in Seq(Octet) }
<1>0. Len(text) \in Nat
  OBVIOUS
<1>1. 0 \in T
  <2>1. Reference(text, style, 0) = <<>> /\ <<>> \in Seq(Octet)
    BY ReferenceSteps
  <2>2. QED
    BY <2>1
<1>2. ASSUME NEW n \in Nat, n \in T PROVE n + 1 \in T
  <2> SUFFICES ASSUME n + 1 <= Len(text) PROVE Reference(text, style, n + 1) \in Seq(Octet)
    OBVIOUS
  <2>1. n < Len(text) /\ n <= Len(text) /\ n + 1 \in 1..Len(text)
    BY <1>0
  <2>2. Reference(text, style, n) \in Seq(Octet) /\ Piece(text, style, n + 1) \in Seq(Octet)
    BY <1>2, <2>1, PieceOctets
  <2>3. Reference(text, style, n + 1) = Reference(text, style, n) \o Piece(text, style, n + 1)
    BY <2>1, ReferenceSteps
  <2>4. \A a, b \in Seq(Octet) : a \o b \in Seq(Octet)
    OBVIOUS
  <2>5. QED
    BY <2>2, <2>3, <2>4
<1> HIDE DEF T
<1>3. \A n \in Nat : n \in T
  BY <1>1, <1>2, Rounds
<1>4. QED
  BY <1>0, <1>3 DEF T

-----------------------------------------------------------------------------
(* The inductive invariant.                                                *)

TypeInv ==
    /\ iter \in Seq(Octet) /\ out \in Seq(Octet) /\ once \in Seq(Octet)
    /\ pos \in 0..Len(iter)
    /\ line_break \in LineBreak
    /\ prev_was_cr \in BOOLEAN /\ done \in BOOLEAN /\ round \in {1, 2}
    /\ done => pos = Len(iter)

Ref(n) == Reference(iter, line_break, n)
BehindCr == pos > 0 /\ iter[pos] = CR

\* To \r: everything taken is out, and prev_was_cr looks one octet back.
CrExact == line_break = "Cr" => out = Ref(pos) /\ (~done => (prev_was_cr <=> BehindCr))

\* To \r\n: a \n is owed when prev_was_cr, for the \r just taken or for the
\* \n that is next; otherwise everything taken is out.
CrlfExact ==
    line_break = "Crlf" =>
        IF prev_was_cr
        THEN /\ ~done
             /\ \/ BehindCr /\ Append(out, LF) = Ref(pos)
                \/ Peek(LF) /\ ~BehindCr /\ Append(out, LF) = Ref(pos + 1)
        ELSE out = Ref(pos) /\ ~(BehindCr /\ Peek(LF))

\* A text in one style, but for a \n that is still owed.
Clean(text, style, owed) ==
    /\ style = "Cr" => \A i \in 1..Len(text) : text[i] # LF
    /\ style = "Crlf" =>
         \A i \in 1..Len(text) :
            /\ text[i] = LF => i > 1 /\ text[i - 1] = CR
            /\ text[i] = CR => IF i = Len(text) THEN owed ELSE text[i + 1] = LF

Styled ==
    /\ Clean(out, line_break, prev_was_cr)
    /\ line_break = "Crlf" /\ prev_was_cr => out # <<>> /\ out[Len(out)] = CR

\* The second time, what has been taken is out as it was.
Untouched ==
    round = 2 /\ line_break # "Lf" =>
        /\ iter = once /\ Clean(iter, line_break, FALSE)
        /\ Len(out) = pos /\ \A i \in 1..pos : out[i] = iter[i]
        /\ ~done => (prev_was_cr <=> BehindCr)

NInv == TypeInv /\ CrExact /\ CrlfExact /\ Styled /\ Untouched

-----------------------------------------------------------------------------
(* What a step does to a text.                                             *)

\* push() of what next() yielded.
LEMMA Yielded ==
    ASSUME NEW s \in Seq(Octet), NEW o \in Octet
    PROVE  /\ Append(s, o) \in Seq(Octet) /\ Len(Append(s, o)) = Len(s) + 1 /\ Append(s, o) # <<>>
           /\ Append(s, o)[Len(s) + 1] = o /\ \A i \in 1..Len(s) : Append(s, o)[i] = s[i]
           /\ s \o <<o>> = Append(s, o) /\ s \o <<>> = s
<1>1. Append(s, o) \in Seq(Octet) /\ Len(Append(s, o)) = Len(s) + 1
  OBVIOUS
<1>2. Append(s, o)[Len(s) + 1] = o /\ \A i \in 1..Len(s) : Append(s, o)[i] = s[i]
  OBVIOUS
<1>3. s \o <<o>> = Append(s, o) /\ s \o <<>> = s
  OBVIOUS
<1>4. Append(s, o) # <<>>
  <2>1. Len(s) + 1 # 0 /\ Len(<<>>) = 0
    OBVIOUS
  <2>2. QED
    BY <1>1, <2>1
<1>5. QED
  BY <1>1, <1>2, <1>3, <1>4

\* A line ending of two octets is yielded in two calls.
LEMMA YieldedTwice ==
    \A s \in Seq(Octet) : s \o <<CR, LF>> = Append(Append(s, CR), LF)
<1> SUFFICES ASSUME NEW s \in Seq(Octet) PROVE s \o <<CR, LF>> = Append(Append(s, CR), LF)
  OBVIOUS
<1>1. CR \in Octet /\ LF \in Octet
  BY DEF Octet
<1>2. s \o <<CR, LF>> \in Seq(Octet) /\ Append(Append(s, CR), LF) \in Seq(Octet)
  BY <1>1
<1>3. Len(s \o <<CR, LF>>) = Len(s) + 2 /\ Len(Append(Append(s, CR), LF)) = Len(s) + 2
  BY <1>1
<1>4. ASSUME NEW i \in 1..(Len(s) + 2) PROVE (s \o <<CR, LF>>)[i] = Append(Append(s, CR), LF)[i]
  BY <1>1
<1>5. QED
  BY <1>2, <1>3, <1>4

\* A text stays in its style when a \n comes behind every \r, and only there.
LEMMA CleanGrows ==
    ASSUME NEW s \in Seq(Octet), NEW style, NEW owed \in BOOLEAN, NEW o \in Octet, Clean(s, style, owed),
           style = "Cr" => o # LF,
           style = "Crlf" => (o = LF <=> owed) /\ (owed => s # <<>> /\ s[Len(s)] = CR)
    PROVE  Clean(Append(s, o), style, o = CR)
<1>1. Len(s) \in Nat
  OBVIOUS
<1> DEFINE t == Append(s, o)
<1>2. t \in Seq(Octet) /\ Len(t) = Len(s) + 1 /\ t[Len(s) + 1] = o /\ \A i \in 1..Len(s) : t[i] = s[i]
  BY Yielded
<1> HIDE DEF t
<1>3. ASSUME style = "Cr", NEW i \in 1..Len(t) PROVE t[i] # LF
  <2>1. i \in 1..Len(s) \/ i = Len(s) + 1
    BY <1>1, <1>2
  <2>2. QED
    BY <1>2, <1>3, <2>1 DEF Clean
<1>4. ASSUME style = "Crlf", NEW i \in 1..Len(t)
      PROVE  /\ t[i] = LF => i > 1 /\ t[i - 1] = CR
             /\ t[i] = CR => IF i = Len(t) THEN o = CR ELSE t[i + 1] = LF
  <2>1. CASE i = Len(s) + 1
    <3>1. t[i] = o /\ i = Len(t)
      BY <1>2, <2>1
    <3>2. ASSUME o = LF PROVE i > 1 /\ t[i - 1] = CR
      <4>1. s # <<>> /\ s[Len(s)] = CR
        BY <1>4, <3>2
      <4>2. Len(s) \in 1..Len(s) /\ i - 1 = Len(s) /\ i > 1
        BY <1>1, <2>1, <4>1
      <4>3. QED
        BY <1>2, <4>1, <4>2
    <3>3. QED
      BY <3>1, <3>2
  <2>2. CASE i \in 1..Len(s)
    <3>1. t[i] = s[i] /\ i # Len(t)
      BY <1>1, <1>2, <2>2
    <3>2. ASSUME s[i] = LF PROVE i > 1 /\ t[i - 1] = CR
      <4>1. i > 1 /\ s[i - 1] = CR
        BY <1>4, <2>2, <3>2 DEF Clean
      <4>2. i - 1 \in 1..Len(s)
        BY <1>1, <2>2, <4>1
      <4>3. QED
        BY <1>2, <4>1, <4>2
    <3>3. ASSUME s[i] = CR PROVE t[i + 1] = LF
      <4>1. CASE i = Len(s)
        <5>1. owed
          BY <1>4, <2>2, <3>3, <4>1 DEF Clean
        <5>2. o = LF
          BY <1>4, <5>1
        <5>3. QED
          BY <1>2, <4>1, <5>2
      <4>2. CASE i # Len(s)
        <5>1. s[i + 1] = LF
          BY <1>4, <2>2, <3>3, <4>2 DEF Clean
        <5>2. i + 1 \in 1..Len(s)
          BY <1>1, <2>2, <4>2
        <5>3. QED
          BY <1>2, <5>1, <5>2
      <4>3. QED
        BY <4>1, <4>2
    <3>4. QED
      BY <3>1, <3>2, <3>3
  <2>3. QED
    BY <1>1, <1>2, <2>1, <2>2
<1>5. Clean(t, style, o = CR)
  BY <1>3, <1>4 DEF Clean
<1>6. QED
  BY <1>5 DEF t

-----------------------------------------------------------------------------
(* What a step does to the invariant.                                      *)

\* next() yields an octet.
LEMMA TypeGrows ==
    ASSUME TypeInv, NEW o \in Octet, out' = Append(out, o), pos' \in 0..Len(iter), ~done, done' = done,
           prev_was_cr' \in BOOLEAN, Same
    PROVE  TypeInv'
<1>1. out' \in Seq(Octet)
  BY Yielded DEF TypeInv
<1>2. QED
  BY <1>1 DEF TypeInv, Same

\* It keeps the style.
LEMMA StyledGrows ==
    ASSUME TypeInv, Styled, NEW o \in Octet, out' = Append(out, o), Same,
           line_break = "Cr" => o # LF,
           line_break = "Crlf" => (o = LF <=> prev_was_cr) /\ (prev_was_cr' <=> o = CR)
    PROVE  Styled'
<1>1. Clean(Append(out, o), line_break, o = CR)
  BY CleanGrows DEF TypeInv, Styled
<1>2. Clean(out', line_break', prev_was_cr')
  BY <1>1 DEF Clean, Same
<1>3. out \in Seq(Octet)
  BY DEF TypeInv
<1>4. out' # <<>> /\ Len(out') = Len(out) + 1 /\ out'[Len(out) + 1] = o
  BY <1>3, Yielded
<1>5. QED
  BY <1>2, <1>4 DEF Styled, Same

\* And it leaves a text that had one.
LEMMA UntouchedGrows ==
    ASSUME TypeInv, Untouched, NEW o \in Octet, Same, ~done, done' = done, out' = Append(out, o),
           round = 2 /\ line_break # "Lf" =>
               pos < Len(iter) /\ o = iter[pos + 1] /\ pos' = pos + 1 /\ (prev_was_cr' <=> o = CR)
    PROVE  Untouched'
<1> SUFFICES ASSUME round = 2, line_break # "Lf" PROVE Untouched'
  BY DEF Untouched, Same
<1>1. /\ iter = once /\ Clean(iter, line_break, FALSE)
      /\ Len(out) = pos /\ \A i \in 1..pos : out[i] = iter[i]
  BY DEF Untouched
<1>2. out \in Seq(Octet) /\ pos \in Nat
  BY DEF TypeInv
<1>3. Len(out') = pos + 1 /\ out'[pos + 1] = o /\ \A i \in 1..pos : out'[i] = out[i]
  BY <1>1, <1>2, Yielded
<1>4. ASSUME NEW i \in 1..(pos + 1) PROVE out'[i] = iter[i]
  <2>1. i \in 1..pos \/ i = pos + 1
    BY <1>2
  <2>2. QED
    BY <1>1, <1>3, <2>1
<1>5. prev_was_cr' <=> BehindCr'
  BY <1>2 DEF BehindCr, Same
<1>6. iter' = once' /\ Clean(iter', line_break', FALSE)
  BY <1>1 DEF Same
<1>7. QED
  BY <1>3, <1>4, <1>5, <1>6 DEF Untouched, Same

\* The octet that is peeked at, and the reference behind it.
LEMMA RefNext ==
    ASSUME TypeInv, pos < Len(iter)
    PROVE  /\ Ref(pos) \in Seq(Octet) /\ pos + 1 \in 0..Len(iter) /\ iter[pos + 1] \in Octet
           /\ Peek(LF) /\ BehindCr => Ref(pos + 1) = Ref(pos)
           /\ (Peek(LF) /\ ~BehindCr) \/ Peek(CR) =>
                 /\ line_break = "Cr" => Ref(pos + 1) = Append(Ref(pos), CR)
                 /\ line_break = "Crlf" => Ref(pos + 1) = Append(Append(Ref(pos), CR), LF)
           /\ PeekOther => Ref(pos + 1) = Append(Ref(pos), iter[pos + 1])
<1>1. iter \in Seq(Octet) /\ pos \in Nat /\ pos \in 0..Len(iter) /\ Len(iter) \in Nat /\ line_break \in LineBreak
  BY DEF TypeInv
<1>2. pos + 1 \in 1..Len(iter) /\ pos + 1 \in 0..Len(iter) /\ iter[pos + 1] \in Octet /\ pos # Len(iter)
      /\ (pos + 1) - 1 = pos /\ (pos + 1 > 1 <=> pos > 0)
  BY <1>1
<1>3. PICK r : r = Ref(pos)
  OBVIOUS
<1>4. r \in Seq(Octet)
  BY <1>1, <1>3, ReferenceOctets DEF Ref
<1>5. Ref(pos + 1) = r \o Piece(iter, line_break, pos + 1)
  BY <1>1, <1>3, ReferenceSteps DEF Ref
<1>6. CR \in Octet /\ LF \in Octet /\ CR # LF
  BY DEF Octet, CR, LF
<1>7. r \o <<>> = r /\ r \o <<CR>> = Append(r, CR) /\ r \o <<iter[pos + 1]>> = Append(r, iter[pos + 1])
      /\ r \o <<CR, LF>> = Append(Append(r, CR), LF)
  BY <1>2, <1>4, <1>6, Yielded, YieldedTwice
<1>8. ASSUME Peek(LF), BehindCr PROVE Piece(iter, line_break, pos + 1) = <<>>
  BY <1>2, <1>6, <1>8 DEF Piece, Peek, BehindCr
<1>9. ASSUME (Peek(LF) /\ ~BehindCr) \/ Peek(CR) PROVE Piece(iter, line_break, pos + 1) = Break(line_break)
  BY <1>2, <1>6, <1>9 DEF Piece, Peek, BehindCr
<1>10. ASSUME PeekOther PROVE Piece(iter, line_break, pos + 1) = <<iter[pos + 1]>>
  BY <1>2, <1>10 DEF Piece, PeekOther, Peek, AtEnd
<1>11. /\ line_break = "Cr" => Break(line_break) = <<CR>>
       /\ line_break = "Crlf" => Break(line_break) = <<CR, LF>>
  BY DEF Break
<1>12. QED
  BY <1>2, <1>3, <1>4, <1>5, <1>7, <1>8, <1>9, <1>10, <1>11

\* Nothing more is taken and None is returned.
LEMMA EndKeeps ==
    ASSUME NInv, AtEnd, ~done, pos' = pos, done' = TRUE, out' = out, prev_was_cr' = FALSE, Same,
           line_break = "Crlf" => ~prev_was_cr
    PROVE  NInv'
<1>1. TypeInv'
  BY DEF NInv, TypeInv, Same, AtEnd
<1>2. CrExact'
  BY DEF NInv, CrExact, Ref, Same
<1>3. CrlfExact'
  BY DEF NInv, CrlfExact, Ref, Same, BehindCr, Peek, AtEnd
<1>4. Styled'
  BY DEF NInv, Styled, Same, Clean
<1>5. Untouched'
  BY DEF NInv, Untouched, Same
<1>6. QED
  BY <1>1, <1>2, <1>3, <1>4, <1>5 DEF NInv

\* The octets there are.
LEMMA Kinds == CR \in Octet /\ LF \in Octet /\ CR # LF
BY DEF Octet, CR, LF

\* Normalising to \n: no claim but that it stays within the text.
LEMMA LfKeeps ==
    ASSUME NInv, line_break = "Lf", LfAtLf \/ LfAtCr \/ LfOrCrAtOther
    PROVE  NInv'
<1>1. /\ TypeInv /\ ~done /\ Same /\ pos \in 0..Len(iter) /\ pos \in Nat /\ Len(iter) \in Nat
      /\ iter \in Seq(Octet) /\ out \in Seq(Octet) /\ prev_was_cr' \in BOOLEAN
  <2>1. TypeInv /\ pos \in 0..Len(iter) /\ iter \in Seq(Octet) /\ out \in Seq(Octet) /\ prev_was_cr \in BOOLEAN
    BY DEF NInv, TypeInv
  <2>2. pos \in Nat /\ Len(iter) \in Nat
    BY <2>1
  <2>3. ~done /\ Same
    BY DEF LfAtLf, LfAtCr, LfOrCrAtOther
  <2>4. prev_was_cr' \in BOOLEAN
    BY <2>1, Zenon DEF LfAtLf, LfAtCr, LfOrCrAtOther
  <2>5. QED
    BY <2>1, <2>2, <2>3, <2>4
<1>2. \/ \E o \in Octet : out' = Append(out, o) /\ pos' \in 0..Len(iter) /\ done' = done
      \/ out' = out /\ pos' = Len(iter) /\ done' = TRUE
  <2>1. ASSUME NEW p \in 0..Len(iter), IterNext(p)
        PROVE  \/ \E o \in Octet : out' = Append(out, o) /\ pos' \in 0..Len(iter) /\ done' = done
               \/ out' = out /\ pos' = Len(iter) /\ done' = TRUE
    <3>1. CASE p = Len(iter)
      BY <2>1, <3>1 DEF IterNext
    <3>2. CASE p # Len(iter)
      <4>1. p + 1 \in 1..Len(iter) /\ p + 1 \in 0..Len(iter)
        BY <1>1, <3>2
      <4>2. iter[p + 1] \in Octet
        BY <1>1, <4>1
      <4>3. QED
        BY <2>1, <3>2, <4>1, <4>2 DEF IterNext
    <3>3. QED
      BY <3>1, <3>2
  <2>2. CASE LfAtLf
    <3>1. pos + 1 \in 0..Len(iter)
      BY <1>1, <2>2 DEF LfAtLf, Peek, AtEnd
    <3>2. QED
      BY <1>1, <2>1, <2>2, <3>1 DEF LfAtLf
  <2>3. CASE LfAtCr
    <3>1. pos + 1 \in 0..Len(iter)
      BY <1>1, <2>3 DEF LfAtCr, Peek, AtEnd
    <3>2. QED
      BY <2>3, <3>1, Kinds DEF LfAtCr, Yields
  <2>4. CASE LfOrCrAtOther
    BY <1>1, <2>1, <2>4 DEF LfOrCrAtOther
  <2>5. QED
    BY <2>2, <2>3, <2>4
<1>3. TypeInv'
  <2>1. CASE \E o \in Octet : out' = Append(out, o) /\ pos' \in 0..Len(iter) /\ done' = done
    BY <1>1, <2>1, TypeGrows
  <2>2. CASE out' = out /\ pos' = Len(iter) /\ done' = TRUE
    BY <1>1, <2>2 DEF TypeInv, Same
  <2>3. QED
    BY <1>2, <2>1, <2>2
<1>4. CrExact' /\ CrlfExact' /\ Styled' /\ Untouched'
  BY <1>1 DEF CrExact, CrlfExact, Styled, Clean, Untouched, Same
<1>5. QED
  BY <1>3, <1>4 DEF NInv

\* Where next() is when it peeks at an octet.
LEMMA Peeking ==
    ASSUME NInv, NEW o, Peek(o)
    PROVE  /\ TypeInv /\ pos < Len(iter) /\ pos \in Nat /\ pos + 1 \in Nat /\ pos \in 0..Len(iter)
           /\ pos + 1 \in 0..Len(iter) /\ pos + 1 \in 1..Len(iter) /\ Len(iter) \in Nat
           /\ pos + 1 > 0 /\ iter[pos + 1] = o
           /\ out \in Seq(Octet) /\ iter \in Seq(Octet) /\ ~AtEnd
<1>1. TypeInv /\ pos \in 0..Len(iter) /\ iter \in Seq(Octet) /\ out \in Seq(Octet)
  BY DEF NInv, TypeInv
<1>2. Len(iter) \in Nat /\ pos \in Nat
  BY <1>1
<1>3. pos # Len(iter) /\ iter[pos + 1] = o
  BY DEF Peek, AtEnd
<1>4. QED
  BY <1>1, <1>2, <1>3 DEF AtEnd

\* next() yields what it read, to \r.
LEMMA CrYields ==
    ASSUME NInv, line_break = "Cr", Same, ~done, done' = done, pos < Len(iter), pos' = pos + 1,
           NEW o \in Octet, o # LF, out' = Append(out, o), prev_was_cr' = (iter[pos + 1] = CR),
           Ref(pos + 1) = Append(Ref(pos), o),
           round = 2 => o = iter[pos + 1]
    PROVE  NInv'
<1>1. TypeInv /\ pos + 1 \in 0..Len(iter) /\ pos + 1 > 0
  BY DEF NInv, TypeInv
<1>2. TypeInv'
  BY <1>1, TypeGrows
<1>3. CrExact'
  BY <1>1 DEF NInv, CrExact, Ref, Same, BehindCr
<1>4. CrlfExact'
  BY DEF CrlfExact, Same
<1>5. Styled'
  BY <1>1, StyledGrows DEF NInv
<1>6. Untouched'
  BY <1>1, UntouchedGrows DEF NInv
<1>7. QED
  BY <1>2, <1>3, <1>4, <1>5, <1>6 DEF NInv

\* Normalising to \r.
LEMMA CrKeeps ==
    ASSUME NInv, line_break = "Cr", CrAtLf \/ CrAtCr \/ LfOrCrAtOther
    PROVE  NInv'
<1>1. TypeInv /\ CrExact /\ CrlfExact /\ Styled /\ Untouched
  BY DEF NInv
<1>2. CASE CrAtLf
  <2>1. ~done /\ Peek(LF) /\ Same
    BY <1>2 DEF CrAtLf
  <2>2. /\ pos < Len(iter) /\ pos \in Nat /\ pos + 1 \in Nat /\ pos + 1 \in 0..Len(iter) /\ pos + 1 \in 1..Len(iter)
        /\ pos + 1 > 0 /\ iter[pos + 1] = LF /\ iter[pos + 1] # CR
    BY <2>1, Peeking, Kinds
  <2>3. round # 2
    BY <1>1, <2>2 DEF Untouched, Clean
  <2>4. CASE prev_was_cr
    <3>1. pos' = pos + 1 /\ prev_was_cr' = FALSE /\ out' = out /\ done' = done
      BY <1>2, <2>4 DEF CrAtLf
    <3>2. out = Ref(pos) /\ BehindCr
      BY <1>1, <2>1, <2>4 DEF CrExact
    <3>3. Ref(pos + 1) = Ref(pos)
      BY <1>1, <2>1, <2>2, <3>2, RefNext
    <3>4. TypeInv'
      BY <1>1, <2>1, <2>2, <3>1 DEF TypeInv, Same
    <3>5. CrExact'
      BY <2>1, <2>2, <3>1, <3>2, <3>3 DEF CrExact, Ref, Same, BehindCr
    <3>6. CrlfExact' /\ Untouched'
      BY <2>1, <2>3 DEF CrlfExact, Untouched, Same
    <3>7. Styled'
      BY <1>1, <2>1, <3>1 DEF Styled, Clean, Same
    <3>8. QED
      BY <3>4, <3>5, <3>6, <3>7 DEF NInv
  <2>5. CASE ~prev_was_cr
    <3>1. pos' = pos + 1 /\ prev_was_cr' = FALSE /\ out' = Append(out, CR) /\ done' = done
      BY <1>1, <1>2, <2>5 DEF CrAtLf, Yields, TypeInv
    <3>2. ~BehindCr
      BY <1>1, <2>1, <2>5 DEF CrExact
    <3>3. Ref(pos + 1) = Append(Ref(pos), CR)
      BY <1>1, <2>1, <2>2, <3>2, RefNext
    <3>4. prev_was_cr' = (iter[pos + 1] = CR)
      BY <2>2, <3>1
    <3>5. QED
      BY <2>1, <2>2, <2>3, <3>1, <3>3, <3>4, CrYields, Kinds
  <2>6. QED
    BY <2>4, <2>5
<1>3. CASE CrAtCr
  <2>1. ~done /\ Peek(CR) /\ Same /\ IterNext(pos) /\ prev_was_cr' = TRUE
    BY <1>3 DEF CrAtCr
  <2>2. pos < Len(iter) /\ pos # Len(iter) /\ pos \in Nat /\ iter[pos + 1] = CR
    BY <2>1, Peeking
  <2>3. pos' = pos + 1 /\ out' = Append(out, CR) /\ done' = done
    BY <2>1, <2>2 DEF IterNext
  <2>4. Ref(pos + 1) = Append(Ref(pos), CR)
    BY <1>1, <2>1, <2>2, RefNext
  <2>5. prev_was_cr' = (iter[pos + 1] = CR)
    BY <2>1, <2>2
  <2>6. QED
    BY <2>1, <2>2, <2>3, <2>4, <2>5, CrYields, Kinds
<1>4. CASE LfOrCrAtOther
  <2>1. ~done /\ PeekOther /\ Same /\ IterNext(pos) /\ prev_was_cr' = FALSE
    BY <1>4 DEF LfOrCrAtOther
  <2>2. CASE AtEnd
    BY <2>1, <2>2, EndKeeps DEF IterNext, AtEnd
  <2>3. CASE ~AtEnd
    <3>1. pos < Len(iter) /\ pos # Len(iter)
      BY <1>1, <2>3 DEF TypeInv, AtEnd
    <3>2. pos' = pos + 1 /\ out' = Append(out, iter[pos + 1]) /\ done' = done
      BY <2>1, <3>1 DEF IterNext
    <3>3. Ref(pos + 1) = Append(Ref(pos), iter[pos + 1]) /\ iter[pos + 1] \in Octet
      BY <1>1, <2>1, <3>1, RefNext
    <3>4. iter[pos + 1] # LF /\ iter[pos + 1] # CR
      BY <2>1, <2>3 DEF PeekOther, Peek
    <3>5. prev_was_cr' = (iter[pos + 1] = CR)
      BY <2>1, <3>4
    <3>6. QED
      BY <2>1, <3>1, <3>2, <3>3, <3>4, <3>5, CrYields
  <2>4. QED
    BY <2>2, <2>3
<1>5. QED
  BY <1>2, <1>3, <1>4

\* next() yields an octet, to \r\n: a \n exactly when it is owed.
LEMMA CrlfYields ==
    ASSUME NInv, line_break = "Crlf", Same, ~done, done' = done, pos' \in 0..Len(iter),
           NEW o \in Octet, out' = Append(out, o), o = LF <=> prev_was_cr, prev_was_cr' = (o = CR), CrlfExact',
           round = 2 => pos < Len(iter) /\ o = iter[pos + 1] /\ pos' = pos + 1
    PROVE  NInv'
<1>1. TypeInv
  BY DEF NInv
<1>2. TypeInv'
  BY <1>1, TypeGrows
<1>3. CrExact'
  BY DEF CrExact, Same
<1>4. Styled'
  BY <1>1, StyledGrows DEF NInv
<1>5. Untouched'
  BY <1>1, UntouchedGrows DEF NInv
<1>6. QED
  BY <1>2, <1>3, <1>4, <1>5 DEF NInv

\* In a text that is normalised a \n comes behind every \r, and only there.
LEMMA SecondTime ==
    ASSUME NInv, line_break = "Crlf", round = 2, ~done
    PROVE  prev_was_cr <=> Peek(LF)
<1>1. /\ Clean(iter, line_break, FALSE) /\ (prev_was_cr <=> BehindCr)
      /\ pos \in Nat /\ Len(iter) \in Nat /\ pos <= Len(iter)
  <2>1. Clean(iter, line_break, FALSE) /\ (prev_was_cr <=> BehindCr)
    <3>1. line_break # "Lf"
      OBVIOUS
    <3>2. QED
      BY <3>1, Zenon DEF NInv, Untouched
  <2>2. pos \in 0..Len(iter) /\ iter \in Seq(Octet)
    BY DEF NInv, TypeInv
  <2>3. pos \in Nat /\ Len(iter) \in Nat /\ pos <= Len(iter)
    BY <2>2
  <2>4. QED
    BY <2>1, <2>3
<1>2. ASSUME BehindCr PROVE Peek(LF)
  <2>1. pos \in 1..Len(iter) /\ iter[pos] = CR
    BY <1>1, <1>2 DEF BehindCr
  <2>2. pos # Len(iter) /\ iter[pos + 1] = LF
    BY <1>1, <2>1 DEF Clean
  <2>3. QED
    BY <2>2 DEF Peek, AtEnd
<1>3. ASSUME Peek(LF) PROVE BehindCr
  <2>1. pos + 1 \in 1..Len(iter) /\ iter[pos + 1] = LF /\ (pos + 1) - 1 = pos
    BY <1>1, <1>3 DEF Peek, AtEnd
  <2>2. pos + 1 > 1 /\ iter[pos] = CR
    BY <1>1, <2>1 DEF Clean
  <2>3. QED
    BY <1>1, <2>2 DEF BehindCr
<1>4. QED
  BY <1>1, <1>2, <1>3

\* Normalising to \r\n, at a \n.
LEMMA CrlfAtLfKeeps ==
    ASSUME NInv, CrlfAtLf
    PROVE  NInv'
<1>1. TypeInv /\ CrlfExact /\ ~done /\ line_break = "Crlf" /\ Peek(LF) /\ Same
  BY DEF NInv, CrlfAtLf
<1>2. /\ pos < Len(iter) /\ pos # Len(iter) /\ pos \in Nat /\ pos \in 0..Len(iter) /\ pos + 1 \in 0..Len(iter)
      /\ pos + 1 > 0 /\ iter[pos + 1] = LF /\ CR # LF /\ LF \in Octet /\ CR \in Octet
  BY <1>1, Peeking, Kinds
<1>3. CASE prev_was_cr
  <2>1. pos' = pos + 1 /\ prev_was_cr' = FALSE /\ out' = Append(out, LF) /\ done' = done
    BY <1>2, <1>3 DEF CrlfAtLf, IterNext
  <2>2. Append(out, LF) = Ref(pos + 1)
    <3>1. CASE BehindCr
      BY <1>1, <1>2, <1>3, <3>1, RefNext DEF CrlfExact
    <3>2. CASE ~BehindCr
      BY <1>1, <1>3, <3>2 DEF CrlfExact
    <3>3. QED
      BY <3>1, <3>2
  <2>3. out' = Ref(pos)' /\ ~BehindCr'
    BY <1>1, <1>2, <2>1, <2>2 DEF Ref, Same, BehindCr
  <2>4. CrlfExact'
    BY <2>1, <2>3 DEF CrlfExact
  <2>5. prev_was_cr' = (LF = CR)
    BY <1>2, <2>1
  <2>6. QED
    BY <1>1, <1>2, <1>3, <2>1, <2>4, <2>5, CrlfYields
<1>4. CASE ~prev_was_cr
  <2>1. pos' = pos /\ prev_was_cr' = TRUE /\ out' = Append(out, CR) /\ done' = done
    BY <1>4 DEF CrlfAtLf, Yields
  <2>2. out = Ref(pos) /\ ~BehindCr
    BY <1>1, <1>4 DEF CrlfExact
  <2>3. Ref(pos + 1) = Append(Append(Ref(pos), CR), LF)
    BY <1>1, <1>2, <2>2, RefNext
  <2>4. Append(out', LF) = Ref(pos + 1)' /\ ~BehindCr' /\ Peek(LF)'
    BY <1>1, <2>1, <2>2, <2>3 DEF Ref, Same, BehindCr, Peek, AtEnd
  <2>5. CrlfExact'
    BY <1>1, <2>1, <2>4 DEF CrlfExact
  <2>6. round # 2
    BY <1>1, <1>4, SecondTime
  <2>7. prev_was_cr' = (CR = CR)
    BY <2>1
  <2>8. CR = LF <=> prev_was_cr
    BY <1>2, <1>4
  <2>9. QED
    BY <1>1, <1>2, <2>1, <2>5, <2>6, <2>7, <2>8, CrlfYields
<1>5. QED
  BY <1>3, <1>4

\* A \r or something else ends what is owed, without being taken.
LEMMA OwedIsPaid ==
    ASSUME NInv, line_break = "Crlf", ~done, Same, ~Peek(LF), prev_was_cr, Yields(LF, pos), prev_was_cr' = FALSE
    PROVE  NInv'
<1>1. TypeInv /\ CrlfExact /\ pos \in 0..Len(iter) /\ CR # LF /\ LF \in Octet
  BY Kinds DEF NInv, TypeInv
<1>2. pos' = pos /\ out' = Append(out, LF) /\ done' = done
  BY DEF Yields
<1>3. Append(out, LF) = Ref(pos)
  BY <1>1 DEF CrlfExact
<1>4. out' = Ref(pos)' /\ ~Peek(LF)'
  BY <1>2, <1>3 DEF Ref, Same, Peek, AtEnd
<1>5. CrlfExact'
  BY <1>4 DEF CrlfExact
<1>6. round # 2
  BY SecondTime
<1>7. prev_was_cr' = (LF = CR)
  BY <1>1
<1>8. QED
  BY <1>1, <1>2, <1>5, <1>6, <1>7, CrlfYields

\* Normalising to \r\n, at a \r.
LEMMA CrlfAtCrKeeps ==
    ASSUME NInv, CrlfAtCr
    PROVE  NInv'
<1>1. TypeInv /\ CrlfExact /\ ~done /\ line_break = "Crlf" /\ Peek(CR) /\ Same
  BY DEF NInv, CrlfAtCr
<1>2. /\ pos < Len(iter) /\ pos # Len(iter) /\ pos \in Nat /\ pos \in 0..Len(iter) /\ pos + 1 \in 0..Len(iter)
      /\ pos + 1 > 0 /\ iter[pos + 1] = CR /\ CR # LF /\ LF \in Octet /\ CR \in Octet
  BY <1>1, Peeking, Kinds
<1>3. CASE prev_was_cr
  <2>1. Yields(LF, pos) /\ prev_was_cr' = FALSE /\ ~Peek(LF)
    BY <1>2, <1>3 DEF CrlfAtCr, Peek
  <2>2. QED
    BY <1>1, <1>3, <2>1, OwedIsPaid
<1>4. CASE ~prev_was_cr
  <2>1. pos' = pos + 1 /\ prev_was_cr' = TRUE /\ out' = Append(out, CR) /\ done' = done
    BY <1>2, <1>4 DEF CrlfAtCr, IterNext
  <2>2. out = Ref(pos)
    BY <1>1, <1>4 DEF CrlfExact
  <2>3. Ref(pos + 1) = Append(Append(Ref(pos), CR), LF)
    BY <1>1, <1>2, RefNext
  <2>4. Append(out', LF) = Ref(pos)' /\ BehindCr'
    BY <1>1, <1>2, <2>1, <2>2, <2>3 DEF Ref, Same, BehindCr
  <2>5. CrlfExact'
    BY <1>1, <2>1, <2>4 DEF CrlfExact
  <2>6. prev_was_cr' = (CR = CR)
    BY <2>1
  <2>7. CR = LF <=> prev_was_cr
    BY <1>2, <1>4
  <2>8. QED
    BY <1>1, <1>2, <2>1, <2>5, <2>6, <2>7, CrlfYields
<1>5. QED
  BY <1>3, <1>4

\* Normalising to \r\n, at something else or at the end.
LEMMA CrlfAtOtherKeeps ==
    ASSUME NInv, CrlfAtOther
    PROVE  NInv'
<1>1. /\ TypeInv /\ CrlfExact /\ ~done /\ line_break = "Crlf" /\ PeekOther /\ Same /\ prev_was_cr' = FALSE
      /\ ~Peek(LF)
  BY DEF NInv, CrlfAtOther, PeekOther
<1>2. CASE prev_was_cr
  BY <1>1, <1>2, OwedIsPaid DEF CrlfAtOther
<1>3. CASE ~prev_was_cr /\ AtEnd
  BY <1>1, <1>3, EndKeeps DEF CrlfAtOther, IterNext, AtEnd
<1>4. CASE ~prev_was_cr /\ ~AtEnd
  <2>1. pos < Len(iter) /\ pos # Len(iter) /\ pos \in Nat
    BY <1>1, <1>4 DEF TypeInv, AtEnd
  <2>2. pos' = pos + 1 /\ out' = Append(out, iter[pos + 1]) /\ done' = done
    BY <1>4, <2>1 DEF CrlfAtOther, IterNext
  <2>3. Ref(pos + 1) = Append(Ref(pos), iter[pos + 1]) /\ iter[pos + 1] \in Octet /\ pos + 1 \in 0..Len(iter)
    BY <1>1, <2>1, RefNext
  <2>4. iter[pos + 1] # LF /\ iter[pos + 1] # CR
    BY <1>1, <1>4 DEF PeekOther, Peek
  <2>5. out = Ref(pos)
    BY <1>1, <1>4 DEF CrlfExact
  <2>6. out' = Ref(pos)' /\ ~BehindCr'
    BY <1>1, <2>1, <2>2, <2>3, <2>4, <2>5 DEF Ref, Same, BehindCr
  <2>7. CrlfExact'
    BY <1>1, <2>6 DEF CrlfExact
  <2>8. prev_was_cr' = (iter[pos + 1] = CR) /\ (iter[pos + 1] = LF <=> prev_was_cr)
    BY <1>1, <1>4, <2>4
  <2>9. QED
    BY <1>1, <2>1, <2>2, <2>3, <2>7, <2>8, CrlfYields
<1>5. QED
  BY <1>2, <1>3, <1>4

\* The text is normalised again.
LEMMA AgainKeeps ==
    ASSUME NInv, Again
    PROVE  NInv'
<1>1. /\ done /\ iter' = out /\ once' = out /\ out' = <<>> /\ pos' = 0 /\ prev_was_cr' = FALSE
      /\ done' = FALSE /\ round' = 2 /\ line_break' = line_break
  BY DEF Again
<1>2. out \in Seq(Octet) /\ line_break \in LineBreak /\ Len(out) \in Nat
  BY DEF NInv, TypeInv
<1>3. <<>> \in Seq(Octet) /\ 0 \in 0..Len(out) /\ Len(<<>>) = 0
  BY <1>2
<1>4. TypeInv'
  BY <1>1, <1>2, <1>3 DEF TypeInv
<1>5. Ref(pos)' = <<>> /\ ~BehindCr'
  BY <1>1, <1>2, ReferenceSteps DEF Ref, BehindCr
<1>6. CrExact' /\ CrlfExact'
  BY <1>1, <1>5 DEF CrExact, CrlfExact
<1>7. Styled'
  BY <1>1, <1>3 DEF Styled, Clean
<1>8. line_break = "Crlf" => ~prev_was_cr
  BY <1>1 DEF NInv, CrlfExact
<1>9. line_break # "Lf" => Clean(out, line_break, FALSE)
  <2>1. Clean(out, line_break, prev_was_cr)
    BY DEF NInv, Styled
  <2>2. QED
    BY <1>8, <2>1 DEF Clean
<1>10. Untouched'
  <2> SUFFICES ASSUME line_break # "Lf" PROVE Untouched'
    BY <1>1 DEF Untouched
  <2>1. iter' = once' /\ Len(out') = pos' /\ (prev_was_cr' <=> BehindCr')
    BY <1>1, <1>3, <1>5
  <2>2. Clean(iter', line_break', FALSE)
    BY <1>1, <1>9
  <2>3. \A i \in 1..pos' : out'[i] = iter'[i]
    BY <1>1
  <2>4. QED
    BY <2>1, <2>2, <2>3, Zenon DEF Untouched
<1>11. QED
  BY <1>4, <1>6, <1>7, <1>10 DEF NInv

\* A new iterator.
LEMMA InitNInv ==
    ASSUME Init
    PROVE  NInv
<1>1. /\ iter \in Seq(Octet) /\ line_break \in LineBreak /\ Len(iter) \in Nat /\ pos = 0 /\ prev_was_cr = FALSE
      /\ out = <<>> /\ done = FALSE /\ round = 1 /\ once = <<>>
  BY TextsAssumption, LineBreaksAssumption DEF Init
<1>2. <<>> \in Seq(Octet) /\ 0 \in 0..Len(iter) /\ Len(<<>>) = 0
  BY <1>1
<1>3. TypeInv
  BY <1>1, <1>2 DEF TypeInv
<1>4. Ref(pos) = <<>> /\ ~BehindCr
  BY <1>1, ReferenceSteps DEF Ref, BehindCr
<1>5. CrExact /\ CrlfExact
  BY <1>1, <1>4 DEF CrExact, CrlfExact
<1>6. Styled /\ Untouched
  BY <1>1, <1>2 DEF Styled, Clean, Untouched
<1>7. QED
  BY <1>3, <1>5, <1>6 DEF NInv

\* Every call of next() keeps the invariant.
LEMMA NextKeeps == NInv /\ [Next]_vars => NInv'
<1> SUFFICES ASSUME NInv, [Next]_vars
             PROVE  NInv'
  OBVIOUS
<1>1. CASE LfAtLf \/ LfAtCr
  BY <1>1, LfKeeps DEF LfAtLf, LfAtCr
<1>2. CASE CrAtLf \/ CrAtCr
  BY <1>2, CrKeeps DEF CrAtLf, CrAtCr
<1>3. CASE LfOrCrAtOther
  BY <1>3, LfKeeps, CrKeeps DEF LfOrCrAtOther
<1>4. CASE CrlfAtLf \/ CrlfAtCr \/ CrlfAtOther
  BY <1>4, CrlfAtLfKeeps, CrlfAtCrKeeps, CrlfAtOtherKeeps
<1>5. CASE Again
  BY <1>5, AgainKeeps
<1>6. CASE UNCHANGED vars
  <2>1. TypeInv'
    BY <1>6 DEF NInv, TypeInv, vars
  <2>2. CrExact' /\ CrlfExact'
    BY <1>6 DEF NInv, CrExact, CrlfExact, vars, Ref, BehindCr, Peek, AtEnd
  <2>3. Styled' /\ Untouched'
    BY <1>6 DEF NInv, Styled, Clean, Untouched, vars, BehindCr
  <2>4. QED
    BY <2>1, <2>2, <2>3 DEF NInv
<1>7. QED
  BY <1>1, <1>2, <1>3, <1>4, <1>5, <1>6 DEF Next

-----------------------------------------------------------------------------
(* The theorems.                                                           *)

\* prev_was_cr always says what is owed, and what is out has the one style.
THEOREM NInvHolds == Spec => []NInv
<1>1. Init => NInv
  BY InitNInv
<1>2. QED
  BY <1>1, NextKeeps, PTL DEF Spec

\* At the end nothing is owed.
LEMMA OneStyleFromNInv == NInv => OneStyle
<1> SUFFICES ASSUME NInv, done, line_break # "Lf" PROVE out = Reference(iter, line_break, Len(iter))
  BY DEF OneStyle
<1>1. pos = Len(iter) /\ line_break \in {"Crlf", "Cr"}
  BY DEF NInv, TypeInv, LineBreak
<1>2. out = Ref(pos)
  BY <1>1 DEF NInv, CrExact, CrlfExact
<1>3. QED
  BY <1>1, <1>2 DEF Ref

\* Normalising to \r\n or to \r gives every line ending of every text the
\* style asked for, however \r and \n follow one another, and changes nothing
\* else.
THEOREM OneStyleHolds == Spec => []OneStyle
BY NInvHolds, OneStyleFromNInv, PTL

\* The second time everything that was taken is out as it was.
LEMMA IdempotentFromNInv == NInv => Idempotent
<1> SUFFICES ASSUME NInv, done, round = 2, line_break # "Lf" PROVE out = once
  BY DEF Idempotent
<1>1. out \in Seq(Octet) /\ iter \in Seq(Octet) /\ pos = Len(iter)
  BY DEF NInv, TypeInv
<1>2. iter = once /\ Len(out) = pos /\ \A i \in 1..pos : out[i] = iter[i]
  BY DEF NInv, Untouched
<1>3. QED
  BY <1>1, <1>2

\* Text that was normalised when it was stored hashes the same when it is
\* normalised again to verify a signature over it.
THEOREM IdempotentHolds == Spec => []Idempotent
BY NInvHolds, IdempotentFromNInv, PTL

=============================================================================
