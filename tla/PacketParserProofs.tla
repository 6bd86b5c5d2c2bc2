------------------------- MODULE PacketParserProofs -------------------------
(***************************************************************************)
(* Proofs about PacketParser, for every set of well-framed sources and     *)
(* every value of the bounds.                                              *)
(*                                                                         *)
(* Framing and BodyExact are not inductive by themselves: that a body read *)
(* in chunks is the body its writer framed needs what was collected so far *)
(* (ChunksExact for partial lengths, the last conjunct of InFlight for     *)
(* indeterminate ones), and that needs the frame.  IInv joins them.        *)
(***************************************************************************)
EXTENDS PacketParser, SequenceTheorems, TLAPS

\* What holds inside the read loops of next().
InFlight ==
    /\ pc = "idle" => body = <<>>
    /\ pc = "partial" => at \in src.hdrs
    /\ pc = "indeterminate" =>
          /\ at \in src.hdrs
          /\ at < pos
          /\ src.cells[at + 1].k = "hdr"
          /\ src.cells[at + 1].kind = "Indeterminate"
          /\ body = SubSeq(src.cells, at + 2, pos)

IInv == TypeOK /\ Framing /\ ChunksExact /\ InFlight /\ BodyExact

-----------------------------------------------------------------------------

\* Octets inside a source are cells.
LEMMA OctetsType ==
    ASSUME NEW s, s.cells \in Seq(Cell), NEW p \in Nat, NEW n \in Nat,
           p + n <= Len(s.cells)
    PROVE  Octets(s, p, n) \in Seq(Cell)
<1>1. \A i \in (p + 1)..(p + n) : s.cells[i] \in Cell
  <2>1. (p + 1)..(p + n) \subseteq 1..Len(s.cells)
    OBVIOUS
  <2> QED BY <2>1, ElementOfSeq
<1>2. QED
  BY <1>1, SubSeqProperties DEF Octets

\* The filter of shared.rs hands on results.
LEMMA FilterType ==
    ASSUME NEW r \in Result
    PROVE  Filter(r) \in Seq(Result)
<1>1. [r EXCEPT !.e = "Message"] \in Result
  BY DEF Result, Outcome
<1>2. QED
  BY <1>1 DEF Filter

\* Returning from next() keeps the lists of results well typed.
LEMMA YieldType ==
    ASSUME raw \in Seq(Result), items \in Seq(Result),
           NEW e \in Outcome, NEW h \in Nat, NEW b \in Seq(Cell),
           Yield(e, h, b)
    PROVE  raw' \in Seq(Result) /\ items' \in Seq(Result)
<1> DEFINE r == [e |-> e, at |-> h, body |-> IF e = "ok" THEN b ELSE <<>>]
<1>1. r \in Result
  BY DEF Result
<1>2. raw' = Append(raw, r) /\ items' = items \o Filter(r)
  BY DEF Yield
<1>3. Filter(r) \in Seq(Result)
  BY <1>1, FilterType
<1> HIDE DEF r
<1>4. QED
  BY <1>1, <1>2, <1>3, ConcatProperties, AppendProperties

\* Returning a packet with the body its writer framed keeps BodyExact.
LEMMA YieldExact ==
    ASSUME raw \in Seq(Result), BodyExact, src' = src,
           NEW e, NEW h \in Nat, NEW b \in Seq(Cell), e \in Outcome,
           Yield(e, h, b), e = "ok" => b = src.body[h]
    PROVE  BodyExact'
<1> DEFINE r == [e |-> e, at |-> h, body |-> IF e = "ok" THEN b ELSE <<>>]
<1>1. raw' = Append(raw, r)
  BY DEF Yield
<1>2. r.e = "ok" => r.body = src.body[r.at]
  OBVIOUS
<1>3. r \in Result
  BY DEF Result
<1> HIDE DEF r
<1>4. /\ Len(raw') = Len(raw) + 1
      /\ DOMAIN raw' = 1..(Len(raw) + 1)
      /\ \A i \in 1..Len(raw) : raw'[i] = raw[i]
      /\ raw'[Len(raw) + 1] = r
      /\ Len(raw) \in Nat
  BY <1>1, <1>3, AppendProperties, LenProperties
<1>5. ASSUME NEW i \in DOMAIN raw', raw'[i].e = "ok"
      PROVE  raw'[i].body = src'.body[raw'[i].at]
  <2>1. CASE i \in 1..Len(raw)
    <3>1. raw'[i] = raw[i] /\ i \in DOMAIN raw
      BY <2>1, <1>4, LenProperties
    <3>2. QED BY <3>1, <1>5 DEF BodyExact
  <2>2. CASE i = Len(raw) + 1
    BY <2>2, <1>2, <1>4, <1>5
  <2>3. QED
    BY <2>1, <2>2, <1>4
<1>6. QED
  BY <1>5 DEF BodyExact

\* Outcomes of bodies are outcomes, and only a good body is a packet.
LEMMA BodyOutcomeType ==
    ASSUME NEW class \in Class
    PROVE  /\ BodyOutcome(class) \in Outcome
           /\ IndeterminateOutcome(class) \in Outcome
BY DEF BodyOutcome, IndeterminateOutcome, Outcome, Class

\* The body parser gives one of the classes.
LEMMA BodyParserType ==
    ASSUME TypeOK, NEW h \in src.hdrs, NEW b, NEW class \in BodyParser(h, b)
    PROVE  class \in Class
BY DEF TypeOK, IsSource, BodyParser

-----------------------------------------------------------------------------
(* How each way of leaving next() keeps IInv.                              *)

\* An error ends the iteration and leaves the position alone.
LEMMA FailKeeps ==
    ASSUME IInv, NEW e \in Outcome \ {"ok"}, NEW h \in Nat, Fail(e, h)
    PROVE  IInv'
<1>1. src' = src /\ pos' = pos /\ exhausted' = exhausted /\ Yield(e, h, <<>>)
      /\ done' = TRUE /\ pc' = "idle" /\ body' = <<>> /\ at' = h
  BY DEF Fail
<1>2. <<>> \in Seq(Cell)
  BY EmptySeq
<1>3. raw' \in Seq(Result) /\ items' \in Seq(Result)
  BY <1>1, <1>2, YieldType DEF IInv, TypeOK
<1>4. BodyExact'
  BY <1>1, <1>2, YieldExact DEF IInv, TypeOK
<1>5. TypeOK'
  BY <1>1, <1>2, <1>3 DEF IInv, TypeOK
<1>6. Framing' /\ ChunksExact' /\ InFlight'
  BY <1>1 DEF Framing, ChunksExact, InFlight
<1>7. QED
  BY <1>4, <1>5, <1>6 DEF IInv

\* A body that is complete and framed leaves next() at the next header.
LEMMA FinishKeeps ==
    ASSUME IInv, NEW h \in src.hdrs, NEW b \in Seq(Cell), NEW class \in Class,
           NEW end \in 0..Len(src.cells), NEW stop \in BOOLEAN,
           b = src.body[h], end \in src.hdrs,
           Finish(h, b, class, end, stop)
    PROVE  IInv'
<1>1. src' = src /\ pos' = end /\ exhausted' = exhausted
      /\ Yield(BodyOutcome(class), h, b)
      /\ done' = stop /\ pc' = "idle" /\ body' = <<>> /\ at' = h
  BY DEF Finish, Consumed
<1>2. <<>> \in Seq(Cell)
  BY EmptySeq
<1>3. h \in Nat
  BY DEF IInv, TypeOK, IsSource
<1>4. BodyOutcome(class) \in Outcome
  BY BodyOutcomeType
<1>5. raw' \in Seq(Result) /\ items' \in Seq(Result)
  BY <1>1, <1>3, <1>4, YieldType DEF IInv, TypeOK
<1>6. BodyExact'
  BY <1>1, <1>3, <1>4, YieldExact DEF IInv, TypeOK
<1>7. TypeOK'
  BY <1>1, <1>2, <1>3, <1>5 DEF IInv, TypeOK
<1>8. Framing' /\ ChunksExact' /\ InFlight'
  BY <1>1 DEF Framing, ChunksExact, InFlight
<1>9. QED
  BY <1>6, <1>7, <1>8 DEF IInv

\* What is known when next() is about to parse a header.
LEMMA HeaderFacts ==
    ASSUME IInv, AtHeader
    PROVE  /\ pc = "idle" /\ done = FALSE
           /\ src.cells \in Seq(Cell)
           /\ Len(src.cells) \in Nat
           /\ pos \in Nat /\ pos < Len(src.cells)
           /\ pos \in src.hdrs
           /\ HeaderLaidOut(src, pos)
           /\ Header \in Cell
           /\ body = <<>>
<1>1. pc = "idle" /\ done = FALSE /\ Len(src.cells) - pos > 0
  BY DEF IInv, TypeOK, AtHeader, Left
<1>2. src.cells \in Seq(Cell) /\ Len(src.cells) \in Nat /\ pos \in 0..Len(src.cells)
  BY LenProperties DEF IInv, TypeOK, IsSource
<1>3. pos \in src.hdrs
  BY <1>1 DEF IInv, Framing
<1>4. pos \in Nat /\ pos < Len(src.cells) /\ pos + 1 \in 1..Len(src.cells)
  BY <1>1, <1>2
<1>5. HeaderLaidOut(src, pos)
  BY <1>3, <1>4 DEF IInv, TypeOK, WellFramed
<1>6. Header \in Cell
  BY <1>2, <1>4, ElementOfSeq DEF Header
<1>7. body = <<>>
  BY <1>1 DEF IInv, InFlight
<1>8. QED
  BY <1>1, <1>2, <1>3, <1>4, <1>5, <1>6, <1>7

-----------------------------------------------------------------------------
(* The actions                                                             *)

\* Returning None (the end, a failing first read, or done) keeps IInv.
LEMMA NextDoneKeeps ==
    ASSUME IInv, NextDone \/ NextNone
    PROVE  IInv'
<1>1. /\ UNCHANGED <<src, pos, pc, at, body, raw, items>>
      /\ done' = TRUE /\ exhausted' = TRUE /\ pc = "idle"
  BY DEF NextDone, NextNone, IInv, TypeOK
<1>2. TypeOK'
  BY <1>1 DEF IInv, TypeOK
<1>3. Framing' /\ ChunksExact' /\ InFlight' /\ BodyExact'
  BY <1>1 DEF IInv, Framing, ChunksExact, InFlight, BodyExact
<1>4. QED
  BY <1>2, <1>3 DEF IInv

\* An incomplete or invalid header keeps IInv: next() stops.
LEMMA NextBadHeaderKeeps ==
    ASSUME IInv, NextBadHeader
    PROVE  IInv'
<1>1. pos \in Nat
  BY DEF IInv, TypeOK
<1>2. \E e \in {"PacketIncomplete", "BadHeader"} : Fail(e, pos)
  BY DEF NextBadHeader
<1>3. QED
  BY <1>1, <1>2, FailKeeps DEF Outcome

\* A complete body of fixed length, from either buffer.
LEMMA FixedKeeps ==
    ASSUME IInv, AtHeader, Header.k = "hdr", Header.kind = "Fixed",
           Left(pos + 1) >= Header.n,
           NEW class \in BodyParser(pos, Octets(src, pos + 1, Header.n)),
           Finish(pos, Octets(src, pos + 1, Header.n), class,
                  pos + 1 + Header.n, FixedStops(class))
    PROVE  IInv'
<1> DEFINE n == Header.n
           b == Octets(src, pos + 1, n)
<1>1. /\ src.cells \in Seq(Cell) /\ Len(src.cells) \in Nat
      /\ pos \in Nat /\ pos \in src.hdrs /\ HeaderLaidOut(src, pos) /\ Header \in Cell
  BY HeaderFacts
<1>2. n \in Nat
  BY <1>1 DEF Cell
<1>3. pos + 1 + n <= Len(src.cells)
  BY <1>1, <1>2 DEF Left
<1>4. pos + 1 + n \in src.hdrs /\ b = src.body[pos]
  BY <1>1, <1>3 DEF HeaderLaidOut, Header
<1>5. b \in Seq(Cell)
  BY <1>1, <1>2, <1>3, OctetsType
<1>6. class \in Class
  BY <1>1, BodyParserType DEF IInv
<1>7. FixedStops(class) \in BOOLEAN
  BY DEF FixedStops
<1>8. pos + 1 + n \in 0..Len(src.cells)
  BY <1>1, <1>2, <1>3
<1> HIDE DEF n, b
<1>9. Finish(pos, b, class, pos + 1 + n, FixedStops(class))
  BY DEF n, b
<1>10. QED
  BY <1>1, <1>4, <1>5, <1>6, <1>7, <1>8, <1>9, FinishKeeps

\* The fixed length arm that slices the internal buffer keeps IInv, whether it
\* returns, fails or panics.
LEMMA NextFixedSmallKeeps ==
    ASSUME IInv, NextFixedSmall
    PROVE  IInv'
<1>1. AtHeader /\ Header.k = "hdr" /\ Header.kind = "Fixed"
  BY DEF NextFixedSmall
<1>2. pos \in Nat
  BY <1>1, HeaderFacts
<1>3. CASE Fail("Io", pos)
  BY <1>2, <1>3, FailKeeps DEF Outcome
<1>4. CASE /\ pc' = "panicked" /\ at' = pos
           /\ UNCHANGED <<src, pos, done, body, raw, items, exhausted>>
  <2>1. TypeOK'
    BY <1>4, <1>2 DEF IInv, TypeOK
  <2>2. Framing' /\ ChunksExact' /\ InFlight' /\ BodyExact'
    BY <1>4 DEF IInv, Framing, ChunksExact, InFlight, BodyExact
  <2>3. QED
    BY <2>1, <2>2 DEF IInv
<1>5. CASE /\ SliceInRange(Header.n)
           /\ \E class \in BodyParser(pos, Octets(src, pos + 1, Header.n)) :
                Finish(pos, Octets(src, pos + 1, Header.n), class,
                       pos + 1 + Header.n, FixedStops(class))
  BY <1>1, <1>5, FixedKeeps DEF SliceInRange
<1>6. QED
  BY <1>3, <1>4, <1>5 DEF NextFixedSmall

\* The fixed length arm with a buffer of its own keeps IInv.
LEMMA NextFixedLargeKeeps ==
    ASSUME IInv, NextFixedLarge
    PROVE  IInv'
<1>1. AtHeader /\ Header.k = "hdr" /\ Header.kind = "Fixed"
  BY DEF NextFixedLarge
<1>2. pos \in Nat
  BY <1>1, HeaderFacts
<1>3. CASE Fail("Io", pos)
  BY <1>2, <1>3, FailKeeps DEF Outcome
<1>4. CASE /\ ReadExactMaySucceed(pos + 1, Header.n)
           /\ \E class \in BodyParser(pos, Octets(src, pos + 1, Header.n)) :
                Finish(pos, Octets(src, pos + 1, Header.n), class,
                       pos + 1 + Header.n, FixedStops(class))
  BY <1>1, <1>4, FixedKeeps DEF ReadExactMaySucceed
<1>5. QED
  BY <1>3, <1>4 DEF NextFixedLarge

\* Entering the loop over an indeterminate body keeps IInv.
LEMMA NextIndeterminateKeeps ==
    ASSUME IInv, NextIndeterminate
    PROVE  IInv'
<1>1. /\ AtHeader /\ Header.k = "hdr" /\ Header.kind = "Indeterminate"
      /\ pos' = pos + 1 /\ at' = pos /\ pc' = "indeterminate"
      /\ UNCHANGED <<src, done, body, raw, items, exhausted>>
  BY DEF NextIndeterminate
<1>2. /\ src.cells \in Seq(Cell) /\ Len(src.cells) \in Nat
      /\ pos \in Nat /\ pos < Len(src.cells) /\ pos \in src.hdrs
      /\ body = <<>>
  BY <1>1, HeaderFacts
<1>3. TypeOK'
  BY <1>1, <1>2 DEF IInv, TypeOK
<1>4. SubSeq(src.cells, pos + 2, pos + 1) = <<>>
  BY <1>2, SubSeqEmpty
<1>5. InFlight'
  BY <1>1, <1>2, <1>4 DEF InFlight, Header
<1>6. Framing' /\ ChunksExact' /\ BodyExact'
  BY <1>1 DEF IInv, Framing, ChunksExact, BodyExact
<1>7. QED
  BY <1>3, <1>5, <1>6 DEF IInv

\* A turn of that loop keeps IInv: what it appends continues what it has.
LEMMA IndeterminateReadKeeps ==
    ASSUME IInv, IndeterminateRead
    PROVE  IInv'
<1>1. at \in Nat /\ pc = "indeterminate"
  BY DEF IInv, TypeOK, IndeterminateRead
<1>2. CASE Fail("Io", at) \/ Fail("TooLarge", at)
  BY <1>1, <1>2, FailKeeps DEF Outcome
<1>3. CASE \E n \in 1..ReadChunk :
             /\ n <= Left(pos)
             /\ body' = body \o Octets(src, pos, n)
             /\ pos' = pos + n
             /\ UNCHANGED <<src, done, pc, at, raw, items, exhausted>>
  <2>1. PICK n \in 1..ReadChunk :
             /\ n <= Left(pos)
             /\ body' = body \o Octets(src, pos, n)
             /\ pos' = pos + n
             /\ UNCHANGED <<src, done, pc, at, raw, items, exhausted>>
    BY <1>3
  <2>2. /\ src.cells \in Seq(Cell) /\ Len(src.cells) \in Nat /\ pos \in Nat
        /\ body \in Seq(Cell)
        /\ at < pos /\ pos <= Len(src.cells)
        /\ body = SubSeq(src.cells, at + 2, pos)
    BY <1>1, LenProperties DEF IInv, TypeOK, IsSource, InFlight
  <2>3. n \in Nat /\ ReadChunk \in Nat
    BY BoundsAssumption
  <2>4. pos + n <= Len(src.cells)
    BY <2>1, <2>2, <2>3 DEF Left
  <2>5. Octets(src, pos, n) = SubSeq(src.cells, pos + 1, pos + n)
    BY DEF Octets
  <2>6. body' = SubSeq(src.cells, at + 2, pos + n)
    <3> DEFINE m == at + 2
               e == pos + n
    <3>1. /\ m \in 1..(Len(src.cells) + 1)
          /\ pos \in (m - 1)..Len(src.cells)
          /\ e \in pos..Len(src.cells)
      BY <1>1, <2>2, <2>3, <2>4
    <3> HIDE DEF m, e
    <3>2. SubSeq(src.cells, m, pos) \o SubSeq(src.cells, pos + 1, e)
          = SubSeq(src.cells, m, e)
      BY <2>2, <3>1, ConcatAdjacentSubSeq, Zenon
    <3>3. QED
      BY <2>1, <2>2, <2>5, <3>2 DEF m, e
  <2>7. body' \in Seq(Cell)
    BY <2>1, <2>2, <2>3, <2>4, OctetsType, ConcatProperties
  <2>8. TypeOK'
    BY <2>1, <2>2, <2>3, <2>4, <2>7 DEF IInv, TypeOK
  <2>9. at < pos + n
    BY <1>1, <2>2, <2>3
  <2>10. InFlight'
    BY <1>1, <2>1, <2>6, <2>9 DEF IInv, InFlight
  <2>11. Framing' /\ ChunksExact' /\ BodyExact'
    BY <1>1, <2>1 DEF IInv, Framing, ChunksExact, BodyExact
  <2>12. QED
    BY <2>8, <2>10, <2>11 DEF IInv
<1>4. QED
  BY <1>2, <1>3 DEF IndeterminateRead

\* The end of an indeterminate body keeps IInv: all octets were collected.
LEMMA IndeterminateEndKeeps ==
    ASSUME IInv, IndeterminateEnd
    PROVE  IInv'
<1>1. pc = "indeterminate" /\ Left(pos) = 0
  BY DEF IndeterminateEnd
<1>2. PICK class \in BodyParser(at, body) :
          /\ Yield(IndeterminateOutcome(class), at, body)
          /\ done' = (class # "ok") /\ pc' = "idle" /\ body' = <<>>
          /\ UNCHANGED <<src, pos, at, exhausted>>
  BY DEF IndeterminateEnd
<1>3. /\ src.cells \in Seq(Cell) /\ Len(src.cells) \in Nat
      /\ pos \in 0..Len(src.cells) /\ body \in Seq(Cell)
      /\ at \in Nat /\ at \in src.hdrs /\ at < pos
      /\ body = SubSeq(src.cells, at + 2, pos)
      /\ src.cells[at + 1].k = "hdr" /\ src.cells[at + 1].kind = "Indeterminate"
  BY <1>1, LenProperties DEF IInv, TypeOK, IsSource, InFlight
<1>4. pos = Len(src.cells)
  BY <1>1, <1>3 DEF Left
<1>5. HeaderLaidOut(src, at)
  BY <1>3, <1>4 DEF IInv, TypeOK, WellFramed
<1>6. body = src.body[at] /\ pos \in src.hdrs
  BY <1>3, <1>4, <1>5 DEF HeaderLaidOut
<1>7. class \in Class /\ IndeterminateOutcome(class) \in Outcome
  BY <1>3, BodyParserType, BodyOutcomeType DEF IInv
<1>8. raw' \in Seq(Result) /\ items' \in Seq(Result)
  BY <1>2, <1>3, <1>7, YieldType DEF IInv, TypeOK
<1>9. BodyExact'
  BY <1>2, <1>3, <1>6, <1>7, YieldExact DEF IInv, TypeOK
<1>10. done' \in BOOLEAN /\ body' \in Seq(Cell)
  BY <1>2, EmptySeq
<1>11. TypeOK'
  BY <1>2, <1>8, <1>10 DEF IInv, TypeOK
<1>12. Framing' /\ ChunksExact' /\ InFlight'
  BY <1>2, <1>6 DEF Framing, ChunksExact, InFlight
<1>13. QED
  BY <1>9, <1>11, <1>12 DEF IInv

\* The first chunk of a partial body keeps IInv: the loop starts at a
\* continuation length of this packet, with what precedes it collected.
LEMMA NextPartialKeeps ==
    ASSUME IInv, NextPartial
    PROVE  IInv'
<1>1. AtHeader /\ Header.k = "hdr" /\ Header.kind = "Partial"
  BY DEF NextPartial
<1>2. /\ src.cells \in Seq(Cell) /\ Len(src.cells) \in Nat
      /\ pos \in Nat /\ pos < Len(src.cells) /\ pos \in src.hdrs
      /\ HeaderLaidOut(src, pos) /\ Header \in Cell
  BY <1>1, HeaderFacts
<1>3. CASE \E e \in {"PartialNotAllowed", "IllegalFirstPartial", "Io"} : Fail(e, pos)
  BY <1>2, <1>3, FailKeeps DEF Outcome
<1>4. CASE /\ ReadExactMaySucceed(pos + 1, Header.n)
           /\ body' = Octets(src, pos + 1, Header.n)
           /\ pos' = pos + 1 + Header.n
           /\ at' = pos
           /\ pc' = "partial"
           /\ UNCHANGED <<src, done, raw, items, exhausted>>
  <2>1. Header.n \in Nat
    BY <1>2 DEF Cell
  <2>2. pos + 1 + Header.n <= Len(src.cells)
    BY <1>2, <1>4, <2>1 DEF ReadExactMaySucceed, Left
  <2>3. /\ pos' \in src.lens /\ src.owner[pos'] = pos
        /\ body' = src.pre[pos']
    BY <1>1, <1>2, <1>4, <2>2 DEF HeaderLaidOut, Header
  <2>4. body' \in Seq(Cell)
    BY <1>2, <1>4, <2>1, <2>2, OctetsType
  <2>5. TypeOK'
    BY <1>2, <1>4, <2>1, <2>2, <2>4 DEF IInv, TypeOK
  <2>6. Framing' /\ ChunksExact' /\ InFlight' /\ BodyExact'
    BY <1>2, <1>4, <2>3 DEF IInv, Framing, ChunksExact, InFlight, BodyExact
  <2>7. QED
    BY <2>5, <2>6 DEF IInv
<1>5. QED
  BY <1>3, <1>4 DEF NextPartial

\* What is known in the loop over partial chunks at a complete length.
LEMMA LengthFacts ==
    ASSUME IInv, pc = "partial", AtLength
    PROVE  /\ src.cells \in Seq(Cell) /\ Len(src.cells) \in Nat
           /\ pos \in Nat /\ pos < Len(src.cells)
           /\ pos \in src.lens /\ src.owner[pos] = at
           /\ at \in src.hdrs /\ at \in Nat
           /\ body = src.pre[pos] /\ body \in Seq(Cell)
           /\ LengthLaidOut(src, pos)
           /\ ChunkLength.k = "len" /\ ChunkLength.n \in Nat
<1>1. /\ src.cells \in Seq(Cell) /\ Len(src.cells) \in Nat
      /\ pos \in 0..Len(src.cells) /\ at \in Nat /\ body \in Seq(Cell)
  BY LenProperties DEF IInv, TypeOK, IsSource
<1>2. /\ pos \in src.lens /\ src.owner[pos] = at
      /\ at \in src.hdrs /\ body = src.pre[pos]
  BY DEF IInv, Framing, ChunksExact, InFlight
<1>3. pos \in Nat /\ pos < Len(src.cells) /\ pos + 1 \in 1..Len(src.cells)
  BY <1>1 DEF AtLength, Left
<1>4. LengthLaidOut(src, pos)
  BY <1>2, <1>3 DEF IInv, TypeOK, WellFramed
<1>5. ChunkLength \in Cell /\ ChunkLength.k = "len"
  BY <1>1, <1>3, ElementOfSeq DEF ChunkLength, AtLength
<1>6. QED
  BY <1>1, <1>2, <1>3, <1>4, <1>5 DEF Cell

\* A further partial chunk keeps IInv.
LEMMA PartialChunkKeeps ==
    ASSUME IInv, PartialChunk
    PROVE  IInv'
<1>1. /\ pc = "partial" /\ AtLength /\ ChunkLength.kind = "Partial"
      /\ ReadExactMaySucceed(pos + 1, ChunkLength.n)
      /\ body' = body \o Octets(src, pos + 1, ChunkLength.n)
      /\ pos' = pos + 1 + ChunkLength.n
      /\ UNCHANGED <<src, done, pc, at, raw, items, exhausted>>
  BY DEF PartialChunk, ReadFixed
<1>2. /\ src.cells \in Seq(Cell) /\ Len(src.cells) \in Nat
      /\ pos \in Nat /\ pos \in src.lens /\ src.owner[pos] = at /\ at \in src.hdrs
      /\ body = src.pre[pos] /\ body \in Seq(Cell)
      /\ LengthLaidOut(src, pos) /\ ChunkLength.k = "len" /\ ChunkLength.n \in Nat
  BY <1>1, LengthFacts
<1>3. pos + 1 + ChunkLength.n <= Len(src.cells)
  BY <1>1, <1>2 DEF ReadExactMaySucceed, Left
<1>4. pos' \in src.lens /\ src.owner[pos'] = at /\ body' = src.pre[pos']
  BY <1>1, <1>2, <1>3 DEF LengthLaidOut, ChunkLength
<1>5. body' \in Seq(Cell)
  BY <1>1, <1>2, <1>3, OctetsType, ConcatProperties
<1>6. TypeOK'
  BY <1>1, <1>2, <1>3, <1>5 DEF IInv, TypeOK
<1>7. Framing' /\ ChunksExact' /\ InFlight' /\ BodyExact'
  BY <1>1, <1>2, <1>4 DEF IInv, Framing, ChunksExact, InFlight, BodyExact
<1>8. QED
  BY <1>6, <1>7 DEF IInv

\* The final chunk keeps IInv: with what was collected it is the body.
LEMMA PartialFinalKeeps ==
    ASSUME IInv, PartialFinal
    PROVE  IInv'
<1> DEFINE n == ChunkLength.n
           b == body \o Octets(src, pos + 1, n)
<1>1. /\ pc = "partial" /\ AtLength /\ ChunkLength.kind = "Fixed"
      /\ ReadExactMaySucceed(pos + 1, n)
  BY DEF PartialFinal
<1>2. PICK class \in BodyParser(at, b) :
         Finish(at, b, class, pos + 1 + n, PartialStops(class))
  BY DEF PartialFinal, ReadFixed
<1>3. /\ src.cells \in Seq(Cell) /\ Len(src.cells) \in Nat
      /\ pos \in Nat /\ pos \in src.lens /\ src.owner[pos] = at /\ at \in src.hdrs
      /\ body = src.pre[pos] /\ body \in Seq(Cell)
      /\ LengthLaidOut(src, pos) /\ ChunkLength.k = "len" /\ n \in Nat
  BY <1>1, LengthFacts
<1>4. pos + 1 + n <= Len(src.cells)
  BY <1>1, <1>3 DEF ReadExactMaySucceed, Left
<1>5. pos + 1 + n \in src.hdrs /\ b = src.body[at]
  BY <1>1, <1>3, <1>4 DEF LengthLaidOut, ChunkLength
<1>6. b \in Seq(Cell)
  BY <1>3, <1>4, OctetsType, ConcatProperties
<1>7. class \in Class
  BY <1>3, BodyParserType DEF IInv
<1>8. PartialStops(class) \in BOOLEAN
  BY DEF PartialStops
<1>9. pos + 1 + n \in 0..Len(src.cells)
  BY <1>3, <1>4
<1> HIDE DEF n, b
<1>10. QED
  BY <1>2, <1>3, <1>5, <1>6, <1>7, <1>8, <1>9, FinishKeeps

\* A failure inside the loop keeps IInv: next() stops.
LEMMA PartialFailKeeps ==
    ASSUME IInv, PartialFail
    PROVE  IInv'
<1>1. at \in Nat
  BY DEF IInv, TypeOK
<1>2. \E e \in {"Io", "Incomplete"} : Fail(e, at)
  BY DEF PartialFail
<1>3. QED
  BY <1>1, <1>2, FailKeeps DEF Outcome

-----------------------------------------------------------------------------
(* The invariant                                                           *)

\* A new iterator satisfies the inductive invariant, on every source.
LEMMA InitIInv == Init => IInv
<1> SUFFICES ASSUME Init PROVE IInv
  OBVIOUS
<1>1. IsSource(src) /\ WellFramed(src)
  BY SourcesAssumption DEF Init
<1>2. Len(src.cells) \in Nat /\ 0 \in src.hdrs
  BY <1>1, LenProperties DEF IsSource, WellFramed
<1>3. TypeOK
  <2>1. <<>> \in Seq(Cell) /\ <<>> \in Seq(Result)
    BY EmptySeq
  <2>2. pos \in 0..Len(src.cells)
    BY <1>2 DEF Init
  <2>3. QED
    BY <1>1, <2>1, <2>2 DEF Init, TypeOK
<1>4. Framing /\ ChunksExact /\ InFlight
  BY <1>2 DEF Init, Framing, ChunksExact, InFlight
<1>5. BodyExact
  BY DEF Init, BodyExact
<1>6. QED
  BY <1>3, <1>4, <1>5 DEF IInv

\* Every step of next() preserves it.
LEMMA NextIInv == IInv /\ [Next]_vars => IInv'
<1> SUFFICES ASSUME IInv, [Next]_vars PROVE IInv'
  OBVIOUS
<1>1. CASE NextDone \/ NextNone
  BY <1>1, NextDoneKeeps
<1>2. CASE NextBadHeader
  BY <1>2, NextBadHeaderKeeps
<1>3. CASE NextFixedSmall
  BY <1>3, NextFixedSmallKeeps
<1>4. CASE NextFixedLarge
  BY <1>4, NextFixedLargeKeeps
<1>5. CASE NextIndeterminate
  BY <1>5, NextIndeterminateKeeps
<1>6. CASE IndeterminateRead
  BY <1>6, IndeterminateReadKeeps
<1>7. CASE IndeterminateEnd
  BY <1>7, IndeterminateEndKeeps
<1>8. CASE NextPartial
  BY <1>8, NextPartialKeeps
<1>9. CASE PartialChunk
  BY <1>9, PartialChunkKeeps
<1>10. CASE PartialFinal
  BY <1>10, PartialFinalKeeps
<1>11. CASE PartialFail
  BY <1>11, PartialFailKeeps
<1>12. CASE UNCHANGED vars
  BY <1>12 DEF vars, IInv, TypeOK, Framing, ChunksExact, InFlight, BodyExact
<1>13. QED
  BY <1>1, <1>2, <1>3, <1>4, <1>5, <1>6, <1>7, <1>8, <1>9, <1>10, <1>11, <1>12
  DEF Next

\* The inductive invariant holds of every state of the iterator.
THEOREM Inductive == Spec => []IInv
<1>1. QED
  BY InitIInv, NextIInv, PTL DEF Spec

\* On every well-framed source and for every buffer size, the iterator's state
\* stays in its type and the reader never passes the end of the source.
THEOREM TypeCorrect == Spec => []TypeOK
<1>1. IInv => TypeOK
  BY DEF IInv
<1>2. QED
  BY <1>1, Inductive, PTL

\* On every well-framed source and for every buffer size, next() parses headers
\* only where packets start and lengths only where continuation lengths are.
THEOREM NeverLosesFrame == Spec => []Framing
<1>1. IInv => Framing
  BY DEF IInv
<1>2. QED
  BY <1>1, Inductive, PTL

\* On every well-framed source and for every buffer size, a packet that is
\* handed out carries the body its writer framed.
THEOREM BodiesAreExact == Spec => []BodyExact
<1>1. IInv => BodyExact
  BY DEF IInv
<1>2. QED
  BY <1>1, Inductive, PTL

-----------------------------------------------------------------------------
(* The order of the results, the end of the iteration and the panic        *)

\* A finished iterator is between calls.
DoneIdle == done => pc = "idle"

\* What has been handed out lies before the packet next() is at.
Behind ==
    /\ pc = "idle" /\ ~done => \A i \in DOMAIN raw : raw[i].at < pos
    /\ pc \in {"partial", "indeterminate"} =>
          at < pos /\ \A i \in DOMAIN raw : raw[i].at < at

OrderInv == InOrder /\ Behind /\ DoneIdle

\* Handing out a result for h after everything before h keeps the order.
LEMMA YieldInOrder ==
    ASSUME raw \in Seq(Result), InOrder,
           NEW e, NEW h \in Nat, NEW b \in Seq(Cell), e \in Outcome,
           \A i \in DOMAIN raw : raw[i].at < h,
           Yield(e, h, b)
    PROVE  InOrder' /\ \A i \in DOMAIN raw' : raw'[i].at <= h
<1> DEFINE r == [e |-> e, at |-> h, body |-> IF e = "ok" THEN b ELSE <<>>]
<1>1. raw' = Append(raw, r)
  BY DEF Yield
<1>2. r \in Result /\ r.at = h
  BY DEF Result
<1> HIDE DEF r
<1>3. /\ DOMAIN raw = 1..Len(raw) /\ Len(raw) \in Nat
      /\ DOMAIN raw' = 1..(Len(raw) + 1)
      /\ \A i \in 1..Len(raw) : raw'[i] = raw[i]
      /\ raw'[Len(raw) + 1] = r
  BY <1>1, <1>2, AppendProperties, LenProperties
<1>4. \A i \in 1..Len(raw) : raw[i].at \in Nat
  <2>1. \A i \in 1..Len(raw) : raw[i] \in Result
    BY ElementOfSeq
  <2>2. QED
    BY <2>1 DEF Result
<1>5. ASSUME NEW i \in DOMAIN raw', NEW j \in DOMAIN raw', i < j
      PROVE  raw'[i].at < raw'[j].at
  <2>1. i \in 1..Len(raw) /\ raw'[i] = raw[i]
    BY <1>3, <1>5
  <2>2. CASE j = Len(raw) + 1
    BY <1>2, <1>3, <2>1, <2>2
  <2>3. CASE j \in 1..Len(raw)
    BY <1>3, <1>5, <2>1, <2>3 DEF InOrder
  <2>4. QED
    BY <1>3, <2>2, <2>3
<1>6. ASSUME NEW i \in DOMAIN raw'
      PROVE  raw'[i].at <= h
  BY <1>2, <1>3, <1>4
<1>7. QED
  BY <1>5, <1>6 DEF InOrder

\* Stopping with an error keeps the order.
LEMMA FailInOrder ==
    ASSUME IInv, InOrder, NEW e \in Outcome \ {"ok"}, NEW h \in Nat,
           \A i \in DOMAIN raw : raw[i].at < h,
           Fail(e, h)
    PROVE  OrderInv'
<1>1. Yield(e, h, <<>>) /\ done' = TRUE /\ pc' = "idle"
  BY DEF Fail
<1>2. InOrder'
  BY <1>1, EmptySeq, YieldInOrder DEF IInv, TypeOK
<1>3. QED
  BY <1>1, <1>2 DEF OrderInv, Behind, DoneIdle

\* Finishing a packet that ends behind its header keeps the order.
LEMMA FinishInOrder ==
    ASSUME IInv, InOrder, NEW h \in src.hdrs, NEW b \in Seq(Cell),
           NEW class \in Class, NEW end \in Nat, NEW stop,
           h < end, \A i \in DOMAIN raw : raw[i].at < h,
           Finish(h, b, class, end, stop)
    PROVE  OrderInv'
<1>1. /\ Yield(BodyOutcome(class), h, b)
      /\ pos' = end /\ pc' = "idle"
  BY DEF Finish, Consumed
<1>2. h \in Nat /\ BodyOutcome(class) \in Outcome
  BY BodyOutcomeType DEF IInv, TypeOK, IsSource
<1>3. InOrder' /\ \A i \in DOMAIN raw' : raw'[i].at <= h
  BY <1>1, <1>2, YieldInOrder DEF IInv, TypeOK
<1>4. raw' \in Seq(Result)
  BY <1>1, <1>2, YieldType DEF IInv, TypeOK
<1>5. \A i \in DOMAIN raw' : raw'[i].at < end
  <2> SUFFICES ASSUME NEW i \in DOMAIN raw' PROVE raw'[i].at < end
    OBVIOUS
  <2>1. raw'[i] \in Result
    BY <1>4, ElementOfSeq, LenProperties
  <2>2. raw'[i].at \in Nat
    BY <2>1 DEF Result
  <2>3. QED
    BY <1>2, <1>3, <2>2
<1>6. QED
  BY <1>1, <1>3, <1>5 DEF OrderInv, Behind, DoneIdle

\* A step at a header keeps the order: everything handed out lies before it.
LEMMA HeaderInOrder ==
    ASSUME IInv, OrderInv, AtHeader,
           \/ NextBadHeader \/ NextFixedSmall \/ NextFixedLarge
           \/ NextIndeterminate \/ NextPartial
    PROVE  OrderInv'
<1>1. /\ pc = "idle" /\ done = FALSE /\ src.cells \in Seq(Cell)
      /\ pos \in Nat /\ pos < Len(src.cells) /\ Len(src.cells) \in Nat
      /\ pos \in src.hdrs /\ Header \in Cell
  BY HeaderFacts
<1>2. Header.n \in Nat
  BY <1>1 DEF Cell
<1>3. InOrder /\ \A i \in DOMAIN raw : raw[i].at < pos
  BY <1>1 DEF OrderInv, Behind
<1>4. ASSUME NEW e \in Outcome \ {"ok"}, Fail(e, pos)
      PROVE  OrderInv'
  BY <1>1, <1>3, <1>4, FailInOrder
<1>5. ASSUME NEW class \in BodyParser(pos, Octets(src, pos + 1, Header.n)),
             NEW stop, Left(pos + 1) >= Header.n,
             Finish(pos, Octets(src, pos + 1, Header.n), class,
                    pos + 1 + Header.n, stop)
      PROVE  OrderInv'
  <2>1. pos + 1 + Header.n <= Len(src.cells)
    BY <1>1, <1>2, <1>5 DEF Left
  <2>2. Octets(src, pos + 1, Header.n) \in Seq(Cell)
    BY <1>1, <1>2, <2>1, OctetsType
  <2>3. class \in Class
    BY <1>1, BodyParserType DEF IInv
  <2>4. pos + 1 + Header.n \in Nat /\ pos < pos + 1 + Header.n
    BY <1>1, <1>2
  <2>5. QED
    BY <1>1, <1>3, <1>5, <2>2, <2>3, <2>4, FinishInOrder
<1>6. CASE NextBadHeader
  BY <1>4, <1>6 DEF NextBadHeader, Outcome
<1>7. CASE NextFixedSmall
  <2>1. CASE Fail("Io", pos)
    BY <1>4, <2>1 DEF Outcome
  <2>2. CASE /\ ~SliceInRange(Header.n) /\ pc' = "panicked" /\ at' = pos
             /\ UNCHANGED <<src, pos, done, body, raw, items, exhausted>>
    BY <1>1, <2>2 DEF OrderInv, InOrder, Behind, DoneIdle
  <2>3. CASE /\ SliceInRange(Header.n)
             /\ \E class \in BodyParser(pos, Octets(src, pos + 1, Header.n)) :
                  Finish(pos, Octets(src, pos + 1, Header.n), class,
                         pos + 1 + Header.n, FixedStops(class))
    BY <1>5, <2>3 DEF SliceInRange
  <2>4. QED
    BY <1>7, <2>1, <2>2, <2>3 DEF NextFixedSmall
<1>8. CASE NextFixedLarge
  BY <1>4, <1>5, <1>8 DEF NextFixedLarge, ReadExactMaySucceed, Outcome
<1>9. CASE NextIndeterminate
  <2>1. /\ pos' = pos + 1 /\ at' = pos /\ pc' = "indeterminate" /\ done' = FALSE
        /\ raw' = raw
    BY <1>1, <1>9 DEF NextIndeterminate
  <2>2. QED
    BY <1>1, <1>3, <2>1
    DEF OrderInv, InOrder, Behind, DoneIdle
<1>10. CASE NextPartial
  <2>1. CASE \E e \in {"PartialNotAllowed", "IllegalFirstPartial", "Io"} : Fail(e, pos)
    BY <1>4, <2>1 DEF Outcome
  <2>2. CASE /\ pos' = pos + 1 + Header.n /\ at' = pos /\ pc' = "partial"
             /\ UNCHANGED <<done, raw>>
    <3>1. pos < pos'
      BY <1>1, <1>2, <2>2
    <3>2. QED
      BY <1>1, <1>3, <2>2, <3>1
      DEF OrderInv, InOrder, Behind, DoneIdle
  <2>3. QED
    BY <1>10, <2>1, <2>2 DEF NextPartial
<1>11. QED
  BY <1>6, <1>7, <1>8, <1>9, <1>10

\* A step inside a read loop keeps the order.
LEMMA LoopInOrder ==
    ASSUME IInv, OrderInv,
           \/ IndeterminateRead \/ IndeterminateEnd
           \/ PartialChunk \/ PartialFinal \/ PartialFail
    PROVE  OrderInv'
<1>1. /\ pc \in {"partial", "indeterminate"} /\ done = FALSE
      /\ src.cells \in Seq(Cell) /\ Len(src.cells) \in Nat
      /\ pos \in Nat /\ pos <= Len(src.cells)
      /\ at \in Nat /\ at \in src.hdrs /\ at < pos
  BY LenProperties DEF IInv, TypeOK, IsSource, InFlight, OrderInv, Behind, DoneIdle,
     IndeterminateRead, IndeterminateEnd, PartialChunk, PartialFinal, PartialFail
<1>2. InOrder /\ \A i \in DOMAIN raw : raw[i].at < at
  BY <1>1 DEF OrderInv, Behind
<1>3. ASSUME NEW e \in Outcome \ {"ok"}, Fail(e, at)
      PROVE  OrderInv'
  BY <1>1, <1>2, <1>3, FailInOrder
<1>4. ASSUME pos' \in Nat, pos <= pos', UNCHANGED <<done, pc, at, raw>>
      PROVE  OrderInv'
  <2>1. at < pos'
    BY <1>1, <1>4
  <2>2. QED
    BY <1>1, <1>2, <1>4, <2>1
    DEF OrderInv, InOrder, Behind, DoneIdle
<1>5. CASE IndeterminateRead
  <2>1. CASE \E e \in {"Io", "TooLarge"} : Fail(e, at)
    BY <1>3, <2>1 DEF Outcome
  <2>2. CASE \E n \in 1..ReadChunk : pos' = pos + n /\ UNCHANGED <<done, pc, at, raw>>
    <3>1. pos' \in Nat /\ pos <= pos'
      BY <1>1, <2>2, BoundsAssumption
    <3>2. QED
      BY <1>4, <2>2, <3>1
  <2>3. QED
    BY <1>5, <2>1, <2>2 DEF IndeterminateRead
<1>6. CASE IndeterminateEnd
  <2>1. PICK class \in BodyParser(at, body) :
            /\ Yield(IndeterminateOutcome(class), at, body)
            /\ pc' = "idle" /\ pos' = pos
    BY <1>6 DEF IndeterminateEnd
  <2>2. IndeterminateOutcome(class) \in Outcome
    BY <1>1, BodyParserType, BodyOutcomeType DEF IInv
  <2>3. InOrder' /\ \A i \in DOMAIN raw' : raw'[i].at <= at
    BY <1>1, <1>2, <2>1, <2>2, YieldInOrder DEF IInv, TypeOK
  <2>4. raw' \in Seq(Result)
    BY <1>1, <2>1, <2>2, YieldType DEF IInv, TypeOK
  <2>5. \A i \in DOMAIN raw' : raw'[i].at < pos'
    <3> SUFFICES ASSUME NEW i \in DOMAIN raw' PROVE raw'[i].at < pos'
      OBVIOUS
    <3>1. raw'[i] \in Result
      BY <2>4, ElementOfSeq, LenProperties
    <3>2. raw'[i].at \in Nat
      BY <3>1 DEF Result
    <3>3. QED
      BY <1>1, <2>1, <2>3, <3>2
  <2>6. QED
    BY <2>1, <2>3, <2>5 DEF OrderInv, Behind, DoneIdle
<1>7. CASE PartialChunk
  <2>1. AtLength /\ pos' = pos + 1 + ChunkLength.n /\ UNCHANGED <<done, pc, at, raw>>
    BY <1>7 DEF PartialChunk
  <2>2. ChunkLength.n \in Nat
    BY <1>7, <2>1, LengthFacts DEF PartialChunk
  <2>3. QED
    BY <1>1, <1>4, <2>1, <2>2
<1>8. CASE PartialFinal
  <2> DEFINE n == ChunkLength.n
             b == body \o Octets(src, pos + 1, n)
  <2>1. pc = "partial" /\ AtLength /\ ReadExactMaySucceed(pos + 1, n)
    BY <1>8 DEF PartialFinal
  <2>2. PICK class \in BodyParser(at, b) :
           Finish(at, b, class, pos + 1 + n, PartialStops(class))
    BY <1>8 DEF PartialFinal, ReadFixed
  <2>3. n \in Nat /\ body \in Seq(Cell)
    BY <2>1, LengthFacts
  <2>4. pos + 1 + n <= Len(src.cells) /\ pos + 1 + n \in Nat /\ at < pos + 1 + n
    BY <1>1, <2>1, <2>3 DEF ReadExactMaySucceed, Left
  <2>5. b \in Seq(Cell)
    BY <1>1, <2>3, <2>4, OctetsType, ConcatProperties
  <2>6. class \in Class
    BY <1>1, BodyParserType DEF IInv
  <2> HIDE DEF n, b
  <2>7. QED
    BY <1>1, <1>2, <2>2, <2>4, <2>5, <2>6, FinishInOrder
<1>9. CASE PartialFail
  <2>1. \E e \in {"Io", "Incomplete"} : Fail(e, at)
    BY <1>9 DEF PartialFail
  <2>2. QED
    BY <1>3, <2>1 DEF Outcome
<1>10. QED
  BY <1>5, <1>6, <1>7, <1>8, <1>9

\* The order is an invariant of the iterator.
THEOREM OrderInductive == Spec => []OrderInv
<1>1. Init => OrderInv
  BY DEF Init, OrderInv, InOrder, Behind, DoneIdle
<1>2. ASSUME IInv, OrderInv, [Next]_vars
      PROVE  OrderInv'
  <2>1. CASE NextDone \/ NextNone
    <3>1. pc = "idle" /\ done' = TRUE /\ UNCHANGED <<src, pos, pc, at, raw>>
      BY <1>2, <2>1 DEF NextDone, NextNone, IInv, TypeOK
    <3>2. QED
      BY <1>2, <3>1
      DEF OrderInv, InOrder, Behind, DoneIdle
  <2>2. CASE \/ NextBadHeader \/ NextFixedSmall \/ NextFixedLarge
             \/ NextIndeterminate \/ NextPartial
    <3>1. AtHeader
      BY <2>2 DEF NextBadHeader, NextFixedSmall, NextFixedLarge,
                  NextIndeterminate, NextPartial
    <3>2. QED
      BY <1>2, <2>2, <3>1, HeaderInOrder
  <2>3. CASE \/ IndeterminateRead \/ IndeterminateEnd
             \/ PartialChunk \/ PartialFinal \/ PartialFail
    BY <1>2, <2>3, LoopInOrder
  <2>4. CASE UNCHANGED vars
    BY <1>2, <2>4
    DEF vars, OrderInv, InOrder, Behind, DoneIdle
  <2>5. QED
    BY <1>2, <2>1, <2>2, <2>3, <2>4 DEF Next
<1>3. QED
  BY <1>1, <1>2, Inductive, PTL DEF Spec

\* On every well-framed source, results come out in the order of their packets
\* and none twice.
THEOREM ResultsInOrder == Spec => []InOrder
<1>1. OrderInv => InOrder
  BY DEF OrderInv
<1>2. QED
  BY <1>1, OrderInductive, PTL

\* Once next() has set done, it hands out nothing more, whatever the source.
THEOREM NothingAfterDone == Spec => DoneIsFinal
<1>1. ASSUME OrderInv, [Next]_vars
      PROVE  [done => done' /\ UNCHANGED <<raw, items>>]_vars
  <2>1. done => pc = "idle"
    BY <1>1 DEF OrderInv, DoneIdle
  <2>2. CASE done /\ Next
    BY <2>1, <2>2
    DEF Next, NextDone, NextNone, AtHeader, NextBadHeader, NextFixedSmall,
        NextFixedLarge, NextIndeterminate, NextPartial, IndeterminateRead,
        IndeterminateEnd, PartialChunk, PartialFinal, PartialFail
  <2>3. QED
    BY <1>1, <2>2 DEF vars
<1>2. QED
  BY <1>1, OrderInductive, PTL DEF Spec, DoneIsFinal

-----------------------------------------------------------------------------
(* What a consumer of the filtered iterator may conclude from errors and   *)
(* from their absence.  ErrorsAreHonest speaks of the end of the           *)
(* iteration.  ErrInv says what has been handed out on the way there       *)
(* (Kept), and that no other packet starts inside the one a read loop is   *)
(* in (LoopFrame).                                                         *)

\* The errors the filter of shared.rs drops.
Ignorable == {"Unsupported", "EllipticCurve", "PacketIncomplete"}

\* A source in whose packets only ignorable things are wrong.
Complete(s) ==
    \A h \in s.hdrs : h < Len(s.cells) =>
       /\ s.cells[h + 1].k = "hdr"
       /\ s.cells[h + 1].kind = "Partial" => s.cls[h] \in {"ok", "incomplete"}

Good(s, h) ==
    h < Len(s.cells) /\ s.cls[h] = "ok" /\ s.cells[h + 1].tag # "Marker"

HandedOut(its, h) == \E i \in DOMAIN its : its[i].at = h
NoError(its) == \A i \in DOMAIN its : its[i].e = "ok"

\* Every good packet that starts before p has been handed out.
DeliveredBelow(s, its, p) ==
    \A h \in s.hdrs : h < p /\ Good(s, h) => HandedOut(its, h)

Kept ==
    Complete(src) /\ NoError(items) =>
       /\ pc = "idle" /\ ~done => DeliveredBelow(src, items, pos)
       /\ pc \in {"partial", "indeterminate"} => DeliveredBelow(src, items, at)
       /\ done => DeliveredBelow(src, items, SurelyRead(src))

LoopFrame ==
    /\ pc = "partial" =>
          /\ at < Len(src.cells)
          /\ src.cells[at + 1].k = "hdr" /\ src.cells[at + 1].kind = "Partial"
          /\ \A g \in src.hdrs : g <= at \/ pos < g
    /\ pc = "indeterminate" => \A g \in src.hdrs : g <= at \/ Len(src.cells) <= g

ExhaustedDone == exhausted => done

ErrInv == OnlyRealErrors /\ Kept /\ LoopFrame /\ ExhaustedDone

\* An error of the packet at h is about something really wrong.
HonestAt(s, h) ==
    /\ s.cells[h + 1].k = "hdr" /\ s.end = "eof"
    /\ h + 1 + s.cells[h + 1].n <= Len(s.cells)
    /\ s.cells[h + 1].kind = "Fixed"
    => s.cls[h] = "invalid"

-----------------------------------------------------------------------------

\* What the filter makes of one result.
LEMMA FilterGives ==
    ASSUME NEW r \in Result
    PROVE  \/ /\ Filter(r) = <<>>
              /\ \/ r.e \in Ignorable
                 \/ r.e = "ok" /\ src.cells[r.at + 1].tag = "Marker"
           \/ Filter(r) = <<r>> /\ r.e = "ok"
           \/ /\ Filter(r) = <<[r EXCEPT !.e = "Message"]>>
              /\ r.e \notin Ignorable \cup {"ok"}
BY DEF Filter, Ignorable

\* What the filter hands on behind the items there are.
LEMMA YieldItems ==
    ASSUME items \in Seq(Result),
           NEW e \in Outcome, NEW h \in Nat, NEW b \in Seq(Cell), Yield(e, h, b)
    PROVE  \/ /\ items' = items
              /\ \/ e \in Ignorable
                 \/ e = "ok" /\ src.cells[h + 1].tag = "Marker"
           \/ \E x \in Result :
                 /\ items' = Append(items, x) /\ x.at = h
                 /\ x.e = "ok" => e = "ok"
                 /\ x.e # "ok" => x.e = "Message" /\ e \notin Ignorable \cup {"ok"}
<1> DEFINE r == [e |-> e, at |-> h, body |-> IF e = "ok" THEN b ELSE <<>>]
           m == [r EXCEPT !.e = "Message"]
<1>1. r \in Result /\ r.e = e /\ r.at = h
  BY DEF Result
<1>2. m \in Result /\ m.e = "Message" /\ m.at = h
  BY <1>1 DEF Result, Outcome
<1>3. items' = items \o Filter(r)
  BY DEF Yield
<1>4. \/ Filter(r) = <<>> /\ (r.e \in Ignorable \/ (r.e = "ok" /\ src.cells[r.at + 1].tag = "Marker"))
      \/ Filter(r) = <<r>> /\ r.e = "ok"
      \/ Filter(r) = <<m>> /\ r.e \notin Ignorable \cup {"ok"}
  BY <1>1, FilterGives
<1> HIDE DEF r, m
<1>5. CASE Filter(r) = <<>> /\ (r.e \in Ignorable \/ (r.e = "ok" /\ src.cells[r.at + 1].tag = "Marker"))
  <2>1. items' = items
    BY <1>3, <1>5, ConcatEmptySeq
  <2>2. QED
    BY <1>1, <1>5, <2>1
<1>6. CASE Filter(r) = <<r>> /\ r.e = "ok"
  <2>1. items' = Append(items, r)
    BY <1>1, <1>3, <1>6, AppendIsConcat
  <2>2. QED
    BY <1>1, <1>6, <2>1
<1>7. CASE Filter(r) = <<m>> /\ r.e \notin Ignorable \cup {"ok"}
  <2>1. items' = Append(items, m)
    BY <1>2, <1>3, <1>7, AppendIsConcat
  <2>2. QED
    BY <1>1, <1>2, <1>7, <2>1
<1>8. QED
  BY <1>4, <1>5, <1>6, <1>7

\* Handing out a result takes nothing back and hides no error.
LEMMA YieldKeeps ==
    ASSUME items \in Seq(Result), src' = src,
           NEW e \in Outcome, NEW h \in Nat, NEW b \in Seq(Cell), Yield(e, h, b)
    PROVE  /\ NoError(items') => NoError(items)
           /\ NoError(items') => e \in Ignorable \cup {"ok"}
           /\ \A g : HandedOut(items, g) => HandedOut(items', g)
           /\ e = "ok" /\ src.cells[h + 1].tag # "Marker" => HandedOut(items', h)
           /\ OnlyRealErrors /\ (e \notin Ignorable \cup {"ok"} => HonestAt(src, h))
              => OnlyRealErrors'
<1>1. CASE items' = items /\ \/ e \in Ignorable
                             \/ e = "ok" /\ src.cells[h + 1].tag = "Marker"
  <2>1. "ok" \notin Ignorable
    BY DEF Ignorable
  <2>2. OnlyRealErrors => OnlyRealErrors'
    BY <1>1 DEF OnlyRealErrors
  <2>3. QED
    BY <1>1, <2>1, <2>2
<1>2. CASE \E x \in Result :
              /\ items' = Append(items, x) /\ x.at = h
              /\ x.e = "ok" => e = "ok"
              /\ x.e # "ok" => x.e = "Message" /\ e \notin Ignorable \cup {"ok"}
  <2>1. PICK x \in Result :
              /\ items' = Append(items, x) /\ x.at = h
              /\ x.e = "ok" => e = "ok"
              /\ x.e # "ok" => x.e = "Message" /\ e \notin Ignorable \cup {"ok"}
    BY <1>2
  <2>2. /\ Len(items) \in Nat /\ DOMAIN items = 1..Len(items)
        /\ DOMAIN items' = 1..(Len(items) + 1)
        /\ \A i \in 1..Len(items) : items'[i] = items[i]
        /\ items'[Len(items) + 1] = x
    BY <2>1, AppendProperties, LenProperties
  <2>3. /\ \A i \in DOMAIN items : i \in DOMAIN items' /\ items'[i] = items[i]
        /\ \A i \in DOMAIN items' : i \in DOMAIN items \/ items'[i] = x
        /\ \E i \in DOMAIN items' : items'[i] = x
    BY <2>2
  <2>4. NoError(items') => NoError(items)
    BY <2>3 DEF NoError
  <2>5. NoError(items') => e \in Ignorable \cup {"ok"}
    BY <2>1, <2>3 DEF NoError
  <2>6. \A g : HandedOut(items, g) => HandedOut(items', g)
    BY <2>3 DEF HandedOut
  <2>7. HandedOut(items', h)
    BY <2>1, <2>3 DEF HandedOut
  <2>8. ASSUME OnlyRealErrors, e \notin Ignorable \cup {"ok"} => HonestAt(src, h)
        PROVE  OnlyRealErrors'
    <3>1. x.e = "Message" => HonestAt(src, h)
      BY <2>1, <2>8
    <3> SUFFICES ASSUME NEW i \in DOMAIN items',
                        items'[i].e = "Message"
                 PROVE  HonestAt(src, items'[i].at)
      BY DEF OnlyRealErrors, HonestAt
    <3>2. CASE i \in DOMAIN items
      BY <3>2, <2>3, <2>8 DEF OnlyRealErrors, HonestAt
    <3>3. CASE items'[i] = x
      BY <3>1, <3>3, <2>1
    <3>4. QED
      BY <2>3, <3>2, <3>3
  <2>9. QED
    BY <2>4, <2>5, <2>6, <2>7, <2>8
<1>3. QED
  BY <1>1, <1>2, YieldItems

\* The result of the packet at h settles everything up to the next header.
LEMMA YieldDelivers ==
    ASSUME items \in Seq(Result), src' = src,
           NEW e \in Outcome, NEW h \in Nat, NEW b \in Seq(Cell), Yield(e, h, b),
           src.hdrs \subseteq Nat,
           DeliveredBelow(src, items, h),
           Good(src, h) => e = "ok",
           NEW end \in Nat, \A g \in src.hdrs : g <= h \/ end <= g
    PROVE  DeliveredBelow(src, items', end)
<1>1. /\ \A g : HandedOut(items, g) => HandedOut(items', g)
      /\ e = "ok" /\ src.cells[h + 1].tag # "Marker" => HandedOut(items', h)
  BY YieldKeeps
<1> SUFFICES ASSUME NEW g \in src.hdrs, g < end, Good(src, g)
             PROVE  HandedOut(items', g)
  BY DEF DeliveredBelow
<1>2. g < h \/ g = h
  <2>1. g \in Nat
    OBVIOUS
  <2>2. QED
    BY <2>1
<1>3. CASE g < h
  BY <1>1, <1>3 DEF DeliveredBelow
<1>4. CASE g = h
  BY <1>1, <1>4 DEF Good
<1>5. QED
  BY <1>2, <1>3, <1>4

-----------------------------------------------------------------------------
(* How each way of leaving next() keeps ErrInv.                            *)

\* An error that ends the iteration is visible, or the source was bad.
LEMMA FailHonest ==
    ASSUME IInv, ErrInv, NEW e \in Outcome \ {"ok"}, NEW h \in Nat, Fail(e, h),
           e \in Ignorable => ~Complete(src),
           e \notin Ignorable => HonestAt(src, h)
    PROVE  ErrInv'
<1>1. src' = src /\ Yield(e, h, <<>>) /\ done' = TRUE /\ pc' = "idle"
  BY DEF Fail
<1>2. <<>> \in Seq(Cell) /\ items \in Seq(Result)
  BY EmptySeq DEF IInv, TypeOK
<1>3. /\ NoError(items') => e \in Ignorable \cup {"ok"}
      /\ OnlyRealErrors /\ (e \notin Ignorable \cup {"ok"} => HonestAt(src, h))
              => OnlyRealErrors'
  BY <1>1, <1>2, YieldKeeps
<1>4. OnlyRealErrors'
  BY <1>3 DEF ErrInv
<1>5. Kept'
  BY <1>1, <1>3 DEF Kept
<1>6. LoopFrame' /\ ExhaustedDone'
  BY <1>1 DEF LoopFrame, ExhaustedDone
<1>7. QED
  BY <1>4, <1>5, <1>6 DEF ErrInv

\* Only a body that is really bad gives an error that is not ignorable.
LEMMA BodyOutcomeHonest ==
    ASSUME NEW class \in Class
    PROVE  /\ BodyOutcome(class) \notin Ignorable \cup {"ok"} => class = "invalid"
           /\ class = "ok" => BodyOutcome(class) = "ok" /\ IndeterminateOutcome(class) = "ok"
BY DEF BodyOutcome, IndeterminateOutcome, Class, Ignorable

\* A body that is complete settles its packet.
LEMMA FinishHonest ==
    ASSUME IInv, ErrInv, NEW h \in src.hdrs, NEW b \in Seq(Cell), NEW class \in Class,
           NEW end \in Nat, NEW stop \in BOOLEAN,
           Finish(h, b, class, end, stop), class = src.cls[h],
           Complete(src) /\ NoError(items) => DeliveredBelow(src, items, h),
           \A g \in src.hdrs : g <= h \/ end <= g,
           stop => ~Complete(src), ~done
    PROVE  ErrInv'
<1>1. src' = src /\ pos' = end /\ Yield(BodyOutcome(class), h, b) /\ done' = stop /\ pc' = "idle"
      /\ exhausted' = exhausted
  BY DEF Finish, Consumed
<1>2. /\ h \in Nat /\ items \in Seq(Result) /\ src.hdrs \subseteq Nat
      /\ BodyOutcome(class) \in Outcome
  BY BodyOutcomeType DEF IInv, TypeOK, IsSource
<1>3. /\ NoError(items') => NoError(items)
      /\ OnlyRealErrors /\ (BodyOutcome(class) \notin Ignorable \cup {"ok"} => HonestAt(src, h))
              => OnlyRealErrors'
  BY <1>1, <1>2, YieldKeeps
<1>4. OnlyRealErrors'
  BY <1>3, BodyOutcomeHonest DEF ErrInv, HonestAt
<1>5. Good(src, h) => BodyOutcome(class) = "ok"
  BY BodyOutcomeHonest DEF Good
<1>6. ASSUME Complete(src), NoError(items')
      PROVE  DeliveredBelow(src, items', end)
  BY <1>1, <1>2, <1>3, <1>5, <1>6, YieldDelivers
<1>7. Kept'
  <2> SUFFICES ASSUME Complete(src), NoError(items')
               PROVE  ~done' /\ DeliveredBelow(src, items', pos')
    BY <1>1 DEF Kept
  <2>1. QED
    BY <1>1, <1>6
<1>8. LoopFrame'
  BY <1>1 DEF LoopFrame
<1>9. ExhaustedDone'
  <2>1. ~exhausted
    BY DEF ErrInv, ExhaustedDone
  <2>2. QED
    BY <1>1, <2>1 DEF ExhaustedDone
<1>10. QED
  BY <1>4, <1>7, <1>8, <1>9 DEF ErrInv

\* What was delivered below an offset was delivered below a smaller one.
LEMMA DeliveredFurther ==
    ASSUME NEW s, NEW its, s.hdrs \subseteq Nat, NEW p \in Nat, NEW q \in Int, q <= p,
           DeliveredBelow(s, its, p)
    PROVE  DeliveredBelow(s, its, q)
<1> SUFFICES ASSUME NEW h \in s.hdrs, h < q PROVE h < p
  BY DEF DeliveredBelow
<1>1. QED
  OBVIOUS

\* Returning None: everything before the end of a source that did not fail is
\* out, and what the first fill_buf loses of a failing one is less than it asks for.
LEMMA NoneHonest ==
    ASSUME IInv, ErrInv, NextDone \/ NextNone
    PROVE  ErrInv'
<1>1. /\ UNCHANGED <<src, pos, pc, at, items>>
      /\ done' = TRUE /\ exhausted' = TRUE /\ pc = "idle"
  BY DEF NextDone, NextNone, IInv, TypeOK
<1>2. OnlyRealErrors' /\ LoopFrame' /\ ExhaustedDone'
  BY <1>1 DEF ErrInv, OnlyRealErrors, LoopFrame, ExhaustedDone
<1>3. ASSUME Complete(src), NoError(items)
      PROVE  DeliveredBelow(src, items, SurelyRead(src))
  <2>1. CASE done
    BY <2>1, <1>3 DEF ErrInv, Kept
  <2>2. CASE ~done /\ (FillBufFails(pos) \/ Left(pos) = 0)
    <3>1. pos \in Nat /\ Len(src.cells) \in Nat /\ src.hdrs \subseteq Nat
      BY LenProperties DEF IInv, TypeOK, IsSource
    <3>2. SurelyRead(src) \in Int /\ SurelyRead(src) <= pos
      BY <2>2, <3>1, BoundsAssumption DEF Left, FillBufFails, SurelyRead
    <3>3. DeliveredBelow(src, items, pos)
      BY <1>1, <1>3, <2>2 DEF ErrInv, Kept
    <3>4. QED
      BY <3>1, <3>2, <3>3, DeliveredFurther
  <2>3. QED
    BY <2>1, <2>2 DEF NextDone, NextNone
<1>4. Kept'
  BY <1>1, <1>3 DEF Kept
<1>5. QED
  BY <1>2, <1>4 DEF ErrInv

\* A complete body of fixed length, from either buffer.
LEMMA FixedHonest ==
    ASSUME IInv, ErrInv, AtHeader, Header.k = "hdr", Header.kind = "Fixed",
           Left(pos + 1) >= Header.n,
           NEW class \in BodyParser(pos, Octets(src, pos + 1, Header.n)),
           Finish(pos, Octets(src, pos + 1, Header.n), class,
                  pos + 1 + Header.n, FixedStops(class))
    PROVE  ErrInv'
<1> DEFINE n == Header.n
           b == Octets(src, pos + 1, n)
<1>1. /\ src.cells \in Seq(Cell) /\ Len(src.cells) \in Nat /\ pc = "idle" /\ done = FALSE
      /\ pos \in Nat /\ pos \in src.hdrs /\ HeaderLaidOut(src, pos) /\ Header \in Cell
  BY HeaderFacts
<1>2. n \in Nat /\ src.hdrs \subseteq Nat
  BY <1>1 DEF Cell, IInv, TypeOK, IsSource
<1>3. pos + 1 + n <= Len(src.cells)
  BY <1>1, <1>2 DEF Left
<1>4. b = src.body[pos] /\ NoHeaderIn(src, pos + 1, pos + n)
  BY <1>1, <1>3 DEF HeaderLaidOut, Header
<1>5. b \in Seq(Cell)
  BY <1>1, <1>2, <1>3, OctetsType
<1>6. class \in Class /\ class = src.cls[pos]
  BY <1>1, <1>4, BodyParserType DEF IInv, BodyParser
<1>7. FixedStops(class) = FALSE
  BY DEF FixedStops
<1>8. \A g \in src.hdrs : g <= pos \/ pos + 1 + n <= g
  <2> SUFFICES ASSUME NEW g \in src.hdrs PROVE g <= pos \/ pos + 1 + n <= g
    OBVIOUS
  <2>1. g \in Nat /\ (g < pos + 1 \/ pos + n < g)
    BY <1>2, <1>4 DEF NoHeaderIn
  <2>2. QED
    BY <2>1, <1>1, <1>2
<1>9. Complete(src) /\ NoError(items) => DeliveredBelow(src, items, pos)
  BY <1>1 DEF ErrInv, Kept
<1>10. pos + 1 + n \in Nat
  BY <1>1, <1>2
<1> HIDE DEF n, b
<1>11. Finish(pos, b, class, pos + 1 + n, FALSE)
  BY <1>7 DEF n, b
<1>12. QED
  BY <1>1, <1>5, <1>6, <1>8, <1>9, <1>10, <1>11, FinishHonest

\* A step at a header keeps ErrInv.
LEMMA HeaderHonest ==
    ASSUME IInv, ErrInv, AtHeader,
           \/ NextBadHeader \/ NextFixedSmall \/ NextFixedLarge
           \/ NextIndeterminate \/ NextPartial
    PROVE  ErrInv'
<1>1. /\ pc = "idle" /\ done = FALSE /\ src.cells \in Seq(Cell)
      /\ pos \in Nat /\ pos < Len(src.cells) /\ Len(src.cells) \in Nat
      /\ pos \in src.hdrs /\ Header \in Cell /\ HeaderLaidOut(src, pos)
  BY HeaderFacts
<1>2. Header.n \in Nat /\ Header = src.cells[pos + 1] /\ src.hdrs \subseteq Nat
  BY <1>1 DEF Cell, Header, IInv, TypeOK, IsSource
<1>3. Complete(src) /\ NoError(items) => DeliveredBelow(src, items, pos)
  BY <1>1 DEF ErrInv, Kept
<1>4. OnlyRealErrors /\ (exhausted = FALSE)
  BY <1>1 DEF ErrInv, ExhaustedDone, IInv, TypeOK
<1>5. CASE NextBadHeader
  <2>1. CASE Header.k = "cut" /\ Fail("PacketIncomplete", pos)
    <3>1. ~Complete(src)
      BY <1>1, <1>2, <2>1 DEF Complete
    <3>2. QED
      BY <1>1, <2>1, <3>1, FailHonest DEF Outcome, Ignorable
  <2>2. CASE Header.k # "hdr" /\ Fail("BadHeader", pos)
    <3>1. HonestAt(src, pos)
      BY <1>2, <2>2 DEF HonestAt
    <3>2. QED
      BY <1>1, <2>2, <3>1, FailHonest DEF Outcome, Ignorable
  <2>3. QED
    BY <1>5, <2>1, <2>2 DEF NextBadHeader
<1>6. CASE NextFixedSmall
  <2>1. CASE FillBufFails(pos + 1) /\ Fail("Io", pos)
    <3>1. HonestAt(src, pos)
      BY <2>1 DEF HonestAt, FillBufFails
    <3>2. QED
      BY <1>1, <2>1, <3>1, FailHonest DEF Outcome, Ignorable
  <2>2. CASE /\ pc' = "panicked" /\ at' = pos
             /\ UNCHANGED <<src, pos, done, body, raw, items, exhausted>>
    BY <1>1, <1>4, <2>2 DEF ErrInv, OnlyRealErrors, Kept, LoopFrame, ExhaustedDone
  <2>3. CASE /\ SliceInRange(Header.n)
             /\ \E class \in BodyParser(pos, Octets(src, pos + 1, Header.n)) :
                  Finish(pos, Octets(src, pos + 1, Header.n), class,
                         pos + 1 + Header.n, FixedStops(class))
    BY <1>6, <2>3, FixedHonest DEF SliceInRange, NextFixedSmall
  <2>4. QED
    BY <1>6, <2>1, <2>2, <2>3 DEF NextFixedSmall
<1>7. CASE NextFixedLarge
  <2>1. CASE ReadExactMayFail(pos + 1, Header.n) /\ Fail("Io", pos)
    <3>1. HonestAt(src, pos)
      <4>1. src.end = "err" \/ Len(src.cells) - (pos + 1) < Header.n
        BY <2>1 DEF ReadExactMayFail, Left
      <4>2. QED
        BY <1>1, <1>2, <4>1 DEF HonestAt
    <3>2. QED
      BY <1>1, <2>1, <3>1, FailHonest DEF Outcome, Ignorable
  <2>2. CASE /\ ReadExactMaySucceed(pos + 1, Header.n)
             /\ \E class \in BodyParser(pos, Octets(src, pos + 1, Header.n)) :
                  Finish(pos, Octets(src, pos + 1, Header.n), class,
                         pos + 1 + Header.n, FixedStops(class))
    BY <1>7, <2>2, FixedHonest DEF ReadExactMaySucceed, NextFixedLarge
  <2>3. QED
    BY <1>7, <2>1, <2>2 DEF NextFixedLarge
<1>8. CASE NextIndeterminate
  <2>1. /\ pos' = pos + 1 /\ at' = pos /\ pc' = "indeterminate"
        /\ UNCHANGED <<src, done, items, exhausted>>
        /\ Header.k = "hdr" /\ Header.kind = "Indeterminate"
    BY <1>8 DEF NextIndeterminate
  <2>2. NoHeaderIn(src, pos + 1, Len(src.cells) - 1)
    BY <1>1, <1>2, <2>1 DEF HeaderLaidOut
  <2>3. \A g \in src.hdrs : g <= pos \/ Len(src.cells) <= g
    <3> SUFFICES ASSUME NEW g \in src.hdrs PROVE g <= pos \/ Len(src.cells) <= g
      OBVIOUS
    <3>1. g \in Nat /\ (g < pos + 1 \/ Len(src.cells) - 1 < g)
      BY <1>2, <2>2 DEF NoHeaderIn
    <3>2. QED
      BY <1>1, <3>1
  <2>4. LoopFrame'
    BY <2>1, <2>3 DEF LoopFrame
  <2>5. Kept'
    BY <1>1, <1>3, <2>1 DEF Kept
  <2>6. OnlyRealErrors' /\ ExhaustedDone'
    BY <1>4, <2>1 DEF OnlyRealErrors, ExhaustedDone
  <2>7. QED
    BY <2>4, <2>5, <2>6 DEF ErrInv
<1>9. CASE NextPartial
  <2>0. Header.k = "hdr" /\ Header.kind = "Partial"
    BY <1>9 DEF NextPartial
  <2>1. CASE \E e \in {"PartialNotAllowed", "IllegalFirstPartial", "Io"} : Fail(e, pos)
    <3>1. HonestAt(src, pos)
      BY <1>2, <2>0 DEF HonestAt
    <3>2. QED
      BY <1>1, <2>1, <3>1, FailHonest DEF Outcome, Ignorable
  <2>2. CASE /\ pos' = pos + 1 + Header.n /\ at' = pos /\ pc' = "partial"
             /\ UNCHANGED <<src, done, raw, items, exhausted>>
    <3>1. NoHeaderIn(src, pos + 1, pos + 1 + Header.n)
      BY <1>1, <1>2, <2>0 DEF HeaderLaidOut
    <3>2. \A g \in src.hdrs : g <= pos \/ pos' < g
      <4> SUFFICES ASSUME NEW g \in src.hdrs PROVE g <= pos \/ pos' < g
        OBVIOUS
      <4>1. g \in Nat /\ (g < pos + 1 \/ pos + 1 + Header.n < g)
        BY <1>2, <3>1 DEF NoHeaderIn
      <4>2. QED
        BY <1>1, <2>2, <4>1
    <3>3. LoopFrame'
      BY <1>1, <1>2, <2>0, <2>2, <3>2 DEF LoopFrame
    <3>4. Kept'
      BY <1>1, <1>3, <2>2 DEF Kept
    <3>5. OnlyRealErrors' /\ ExhaustedDone'
      BY <1>4, <2>2 DEF OnlyRealErrors, ExhaustedDone
    <3>6. QED
      BY <3>3, <3>4, <3>5 DEF ErrInv
  <2>3. QED
    BY <1>9, <2>1, <2>2 DEF NextPartial
<1>10. QED
  BY <1>5, <1>6, <1>7, <1>8, <1>9

\* A step inside a read loop keeps ErrInv.
LEMMA LoopHonest ==
    ASSUME IInv, ErrInv, DoneIdle,
           \/ IndeterminateRead \/ IndeterminateEnd
           \/ PartialChunk \/ PartialFinal \/ PartialFail
    PROVE  ErrInv'
<1>1. /\ pc \in {"partial", "indeterminate"} /\ done = FALSE
      /\ src.cells \in Seq(Cell) /\ Len(src.cells) \in Nat
      /\ pos \in Nat /\ pos <= Len(src.cells)
      /\ at \in Nat /\ at \in src.hdrs /\ src.hdrs \subseteq Nat
  BY LenProperties DEF IInv, TypeOK, IsSource, InFlight, DoneIdle,
     IndeterminateRead, IndeterminateEnd, PartialChunk, PartialFinal, PartialFail
<1>2. Complete(src) /\ NoError(items) => DeliveredBelow(src, items, at)
  BY <1>1 DEF ErrInv, Kept
<1>3. OnlyRealErrors /\ exhausted = FALSE /\ LoopFrame
  BY <1>1 DEF ErrInv, ExhaustedDone, IInv, TypeOK
<1>4. src.cells[at + 1].kind # "Fixed"
  BY <1>1, <1>3 DEF LoopFrame, IInv, InFlight
<1>5. ASSUME NEW e \in Outcome \ (Ignorable \cup {"ok"}), Fail(e, at)
      PROVE  ErrInv'
  <2>1. HonestAt(src, at)
    BY <1>4 DEF HonestAt
  <2>2. QED
    BY <1>1, <1>5, <2>1, FailHonest
<1>6. ASSUME UNCHANGED <<src, done, pc, at, items, exhausted>>, LoopFrame'
      PROVE  ErrInv'
  <2>1. Kept'
    BY <1>1, <1>2, <1>6 DEF Kept
  <2>2. OnlyRealErrors' /\ ExhaustedDone'
    BY <1>3, <1>6 DEF OnlyRealErrors, ExhaustedDone
  <2>3. QED
    BY <1>6, <2>1, <2>2 DEF ErrInv
<1>7. CASE IndeterminateRead
  <2>1. CASE \E e \in {"Io", "TooLarge"} : Fail(e, at)
    BY <1>5, <2>1 DEF Outcome, Ignorable
  <2>2. CASE UNCHANGED <<src, done, pc, at, raw, items, exhausted>>
    <3>1. pc = "indeterminate"
      BY <1>7 DEF IndeterminateRead
    <3>2. LoopFrame'
      BY <1>3, <2>2, <3>1 DEF LoopFrame
    <3>3. QED
      BY <1>6, <2>2, <3>2
  <2>3. QED
    BY <1>7, <2>1, <2>2 DEF IndeterminateRead
<1>8. CASE IndeterminateEnd
  <2>1. pc = "indeterminate" /\ Left(pos) = 0
    BY <1>8 DEF IndeterminateEnd
  <2>2. PICK class \in BodyParser(at, body) :
            /\ Yield(IndeterminateOutcome(class), at, body)
            /\ done' = (class # "ok") /\ pc' = "idle"
            /\ UNCHANGED <<src, pos, at, exhausted>>
    BY <1>8 DEF IndeterminateEnd
  <2>3. /\ at < pos /\ src.cells[at + 1].k = "hdr" /\ src.cells[at + 1].kind = "Indeterminate"
        /\ body = SubSeq(src.cells, at + 2, pos) /\ body \in Seq(Cell) /\ items \in Seq(Result)
    BY <2>1 DEF IInv, InFlight, TypeOK
  <2>4. pos = Len(src.cells)
    BY <1>1, <2>1 DEF Left
  <2>5. HeaderLaidOut(src, at)
    BY <1>1, <2>3, <2>4 DEF IInv, TypeOK, WellFramed
  <2>6. body = src.body[at]
    BY <2>3, <2>4, <2>5 DEF HeaderLaidOut
  <2>7. class \in Class /\ class = src.cls[at] /\ IndeterminateOutcome(class) \in Outcome
    BY <1>1, <2>6, BodyParserType, BodyOutcomeType DEF IInv, BodyParser
  <2>8. /\ NoError(items') => NoError(items)
        /\ OnlyRealErrors /\ (IndeterminateOutcome(class) \notin Ignorable \cup {"ok"} => HonestAt(src, at))
              => OnlyRealErrors'
    BY <1>1, <2>2, <2>3, <2>7, YieldKeeps
  <2>9. OnlyRealErrors'
    BY <1>3, <1>4, <2>8 DEF HonestAt
  <2>10. Good(src, at) => IndeterminateOutcome(class) = "ok"
    BY <2>7, BodyOutcomeHonest DEF Good
  <2>11. \A g \in src.hdrs : g <= at \/ pos <= g
    BY <1>3, <2>1, <2>4 DEF LoopFrame
  <2>12. ASSUME Complete(src), NoError(items')
         PROVE  DeliveredBelow(src, items', pos)
    <3>1. DeliveredBelow(src, items, at)
      BY <1>2, <2>8, <2>12
    <3>2. QED
      BY <1>1, <2>2, <2>3, <2>7, <2>10, <2>11, <3>1, YieldDelivers
  <2>13. Kept'
    <3> SUFFICES ASSUME Complete(src), NoError(items')
                 PROVE  /\ DeliveredBelow(src, items', pos')
                        /\ DeliveredBelow(src, items', SurelyRead(src))
      BY <2>2 DEF Kept
    <3>1. DeliveredBelow(src, items', pos) /\ pos' = pos /\ pos = Len(src.cells)
      BY <2>2, <2>4, <2>12
    <3>2. pos \in Nat /\ src.hdrs \subseteq Nat
      BY DEF IInv, TypeOK, IsSource
    <3>3. SurelyRead(src) \in Int /\ SurelyRead(src) <= pos
      BY <3>1, <3>2, BoundsAssumption DEF SurelyRead
    <3>4. QED
      BY <3>1, <3>2, <3>3, DeliveredFurther
  <2>14. LoopFrame' /\ ExhaustedDone'
    BY <1>3, <2>2 DEF LoopFrame, ExhaustedDone
  <2>15. QED
    BY <2>9, <2>13, <2>14 DEF ErrInv
<1>9. CASE PartialChunk
  <2>1. /\ AtLength /\ pc = "partial" /\ ChunkLength.kind = "Partial"
        /\ pos' = pos + 1 + ChunkLength.n
        /\ UNCHANGED <<src, done, pc, at, items, exhausted>>
    BY <1>9 DEF PartialChunk
  <2>2. ChunkLength.n \in Nat /\ ChunkLength.k = "len" /\ LengthLaidOut(src, pos)
    BY <2>1, LengthFacts
  <2>3. NoHeaderIn(src, pos, pos + 1 + ChunkLength.n)
    BY <2>1, <2>2 DEF LengthLaidOut, ChunkLength
  <2>4. \A g \in src.hdrs : g <= at \/ pos' < g
    <3> SUFFICES ASSUME NEW g \in src.hdrs PROVE g <= at \/ pos' < g
      OBVIOUS
    <3>1. g \in Nat /\ (g <= at \/ pos < g) /\ (g < pos \/ pos + 1 + ChunkLength.n < g)
      BY <1>1, <1>3, <2>1, <2>3 DEF NoHeaderIn, LoopFrame
    <3>2. QED
      BY <1>1, <2>1, <3>1
  <2>5. LoopFrame'
    BY <1>3, <2>1, <2>4 DEF LoopFrame
  <2>6. QED
    BY <1>6, <2>1, <2>5
<1>10. CASE PartialFinal
  <2> DEFINE n == ChunkLength.n
             b == body \o Octets(src, pos + 1, n)
  <2>1. pc = "partial" /\ AtLength /\ ReadExactMaySucceed(pos + 1, n) /\ ChunkLength.kind = "Fixed"
    BY <1>10 DEF PartialFinal
  <2>2. PICK class \in BodyParser(at, b) :
           Finish(at, b, class, pos + 1 + n, PartialStops(class))
    BY <1>10 DEF PartialFinal, ReadFixed
  <2>3. /\ n \in Nat /\ body \in Seq(Cell) /\ body = src.pre[pos] /\ src.owner[pos] = at
        /\ LengthLaidOut(src, pos) /\ ChunkLength.k = "len"
    BY <2>1, LengthFacts
  <2>4. pos + 1 + n <= Len(src.cells) /\ pos + 1 + n \in Nat
    BY <1>1, <2>1, <2>3 DEF ReadExactMaySucceed, Left
  <2>5. b \in Seq(Cell)
    BY <1>1, <2>3, <2>4, OctetsType, ConcatProperties
  <2>6. b = src.body[at] /\ NoHeaderIn(src, pos, pos + n)
    BY <2>1, <2>3, <2>4 DEF LengthLaidOut, ChunkLength
  <2>7. class \in Class /\ class = src.cls[at]
    BY <1>1, <2>6, BodyParserType DEF IInv, BodyParser
  <2>8. \A g \in src.hdrs : g <= at \/ pos + 1 + n <= g
    <3> SUFFICES ASSUME NEW g \in src.hdrs PROVE g <= at \/ pos + 1 + n <= g
      OBVIOUS
    <3>1. g \in Nat /\ (g <= at \/ pos < g) /\ (g < pos \/ pos + n < g)
      BY <1>1, <1>3, <2>1, <2>6 DEF NoHeaderIn, LoopFrame
    <3>2. QED
      BY <1>1, <2>3, <3>1
  <2>9. PartialStops(class) => ~Complete(src)
    BY <1>1, <1>3, <2>1, <2>7 DEF PartialStops, Complete, LoopFrame
  <2>10. PartialStops(class) \in BOOLEAN
    BY DEF PartialStops
  <2> HIDE DEF n, b
  <2>11. QED
    BY <1>1, <1>2, <2>2, <2>4, <2>5, <2>7, <2>8, <2>9, <2>10, FinishHonest
<1>11. CASE PartialFail
  <2>1. \E e \in {"Io", "Incomplete"} : Fail(e, at)
    BY <1>11 DEF PartialFail
  <2>2. QED
    BY <1>5, <2>1 DEF Outcome, Ignorable
<1>12. QED
  BY <1>7, <1>8, <1>9, <1>10, <1>11

\* On every well-framed source, failing or not, and for every buffer size: if no
\* error came out of the filter, no good packet is missing but for those that
\* start in the last octets before a failure; an error about a complete packet of fixed length is about a bad packet.
THEOREM ErrorsAreHonestHolds == Spec => []ErrorsAreHonest
<1>1. Init => ErrInv
  <2> SUFFICES ASSUME Init PROVE ErrInv
    OBVIOUS
  <2>1. \A h \in src.hdrs : ~(h < pos)
    <3>1. src.hdrs \subseteq Nat
      BY SourcesAssumption DEF Init, IsSource
    <3>2. QED
      BY <3>1 DEF Init
  <2>2. Kept
    BY <2>1 DEF Init, Kept, DeliveredBelow
  <2>3. OnlyRealErrors /\ LoopFrame /\ ExhaustedDone
    BY DEF Init, OnlyRealErrors, LoopFrame, ExhaustedDone
  <2>4. QED
    BY <2>2, <2>3 DEF ErrInv
<1>2. IInv /\ OrderInv /\ ErrInv /\ [Next]_vars => ErrInv'
  <2> SUFFICES ASSUME IInv, OrderInv, ErrInv, [Next]_vars PROVE ErrInv'
    OBVIOUS
  <2>1. CASE NextDone \/ NextNone
    BY <2>1, NoneHonest
  <2>2. CASE \/ NextBadHeader \/ NextFixedSmall \/ NextFixedLarge
             \/ NextIndeterminate \/ NextPartial
    <3>1. AtHeader
      BY <2>2 DEF NextBadHeader, NextFixedSmall, NextFixedLarge,
                  NextIndeterminate, NextPartial
    <3>2. QED
      BY <2>2, <3>1, HeaderHonest
  <2>3. CASE \/ IndeterminateRead \/ IndeterminateEnd
             \/ PartialChunk \/ PartialFinal \/ PartialFail
    BY <2>3, LoopHonest DEF OrderInv
  <2>4. CASE UNCHANGED vars
    BY <2>4 DEF vars, ErrInv, OnlyRealErrors, Kept, LoopFrame, ExhaustedDone
  <2>5. QED
    BY <2>1, <2>2, <2>3, <2>4 DEF Next
<1>3. IInv /\ ErrInv => ErrorsAreHonest
  <2> SUFFICES ASSUME IInv, ErrInv PROVE NoSilentLoss
    BY DEF ErrorsAreHonest, ErrInv
  <2> SUFFICES ASSUME exhausted, Complete(src), NoError(items),
                      NEW h \in src.hdrs, Good(src, h), h < SurelyRead(src)
               PROVE  HandedOut(items, h)
    BY DEF NoSilentLoss, Complete, NoError, Good, HandedOut
  <2>1. DeliveredBelow(src, items, SurelyRead(src))
    BY DEF ErrInv, ExhaustedDone, Kept
  <2>2. QED
    BY <2>1 DEF DeliveredBelow, Good
<1>4. QED
  BY <1>1, <1>2, <1>3, Inductive, OrderInductive, PTL DEF Spec

=============================================================================
