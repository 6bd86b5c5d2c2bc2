---------------------------- MODULE PacketParser ----------------------------
(***************************************************************************)
(* The packet iterator of src/packet/many.rs over the header and body      *)
(* parsers of src/packet/single.rs, and the adapter                        *)
(* filter_parsed_packet_results of src/composed/shared.rs that every       *)
(* composed parser reads it through.                                       *)
(*                                                                         *)
(* The octets of the source are grouped into cells: a complete packet      *)
(* header, a complete continuation length of a partial body, one body      *)
(* octet, a header or length whose last octets are missing ("cut"), an     *)
(* octet no header can start with ("bad").  The parser sees a cell only    *)
(* through the operation the code applies at its position: it takes a      *)
(* header, a length, or a number of octets.  Nothing in the parser looks   *)
(* at the layout (hdrs, lens, body, pre) that the writer of the source had *)
(* in mind: that layout is only what the properties compare with.          *)
(*                                                                         *)
(* Bounds of the code kept as constants: MinBuffered is READER_POLICY      *)
(* (1024), MinFirstPartial is 512, MaxCapacity is MAX_CAPACITY (2^30),     *)
(* ReadChunk is the 1024 octet buffer of the indeterminate loop.           *)
(***************************************************************************)
EXTENDS Integers, Sequences

CONSTANTS
    Sources,           \* the inputs: cells with the layout of their writer
    MinBuffered,
    MinFirstPartial,
    MaxCapacity,
    ReadChunk

Tag == {"PublicKeyEncryptedSessionKey", "Signature", "SymKeyEncryptedSessionKey",
        "OnePassSignature", "SecretKey", "PublicKey", "SecretSubkey",
        "CompressedData", "SymEncryptedData", "Marker", "LiteralData", "Trust",
        "UserId", "PublicSubkey", "UserAttribute", "SymEncryptedProtectedData",
        "ModDetectionCode", "Padding", "Other"}

\* The packet types that may be split into partial bodies.
PartialTags == {"LiteralData", "CompressedData", "SymEncryptedData",
                "SymEncryptedProtectedData"}

PacketLength == {"Fixed", "Indeterminate", "Partial"}

\* tag, kind and n mean something in a header, kind and n in a length, id in
\* a body octet.
Cell == [k : {"hdr", "len", "byte", "cut", "bad"},
         tag : Tag, kind : PacketLength, n : Nat, id : Nat]

\* What the body parser of a packet type makes of a body.
Class == {"ok", "incomplete", "unsupported", "curve", "invalid"}

IsSource(s) ==
    /\ s.cells \in Seq(Cell)
    /\ s.hdrs \in SUBSET Nat
    /\ s.lens \in SUBSET Nat
    /\ s.cls \in [s.hdrs -> Class]
    /\ s.body \in [s.hdrs -> Seq(Cell)]
    /\ s.pre \in [s.lens -> Seq(Cell)]
    /\ s.owner \in [s.lens -> s.hdrs]
    /\ s.end \in {"eof", "err"}

\* The octets of s from offset p on, n of them.
Octets(s, p, n) == SubSeq(s.cells, p + 1, p + n)

\* The layout of a source.  hdrs are the offsets where a packet starts, lens
\* those of continuation lengths; body[h] is the body of the packet at h, and
\* pre[c] the part of the body of owner[c] that precedes the length at c.
\* Nothing is said about what lies behind the end of the source: a source may
\* stop anywhere.
NoHeaderIn(s, from, to) == \A h \in s.hdrs : h < from \/ to < h

HeaderLaidOut(s, h) ==
    LET c == s.cells[h + 1] IN
    /\ c.k \in {"hdr", "cut", "bad"}
    /\ c.k = "hdr" /\ c.kind = "Fixed" =>
          /\ h + 1 + c.n \in s.hdrs
          /\ NoHeaderIn(s, h + 1, h + c.n)
          /\ h + 1 + c.n <= Len(s.cells) => s.body[h] = Octets(s, h + 1, c.n)
    /\ c.k = "hdr" /\ c.kind = "Partial" =>
          /\ c.n > 0
          /\ h + 1 + c.n \in s.lens
          /\ s.owner[h + 1 + c.n] = h
          /\ NoHeaderIn(s, h + 1, h + 1 + c.n)
          /\ h + 1 + c.n <= Len(s.cells) =>
                s.pre[h + 1 + c.n] = Octets(s, h + 1, c.n)
    /\ c.k = "hdr" /\ c.kind = "Indeterminate" =>
          /\ s.body[h] = SubSeq(s.cells, h + 2, Len(s.cells))
          /\ Len(s.cells) \in s.hdrs
          /\ NoHeaderIn(s, h + 1, Len(s.cells) - 1)

LengthLaidOut(s, l) ==
    LET c == s.cells[l + 1] IN
    /\ c.k \in {"len", "cut"}
    /\ c.k = "len" /\ c.kind = "Fixed" =>
          /\ l + 1 + c.n \in s.hdrs
          /\ NoHeaderIn(s, l, l + c.n)
          /\ l + 1 + c.n <= Len(s.cells) =>
                s.body[s.owner[l]] = s.pre[l] \o Octets(s, l + 1, c.n)
    /\ c.k = "len" /\ c.kind = "Partial" =>
          /\ c.n > 0
          /\ l + 1 + c.n \in s.lens
          /\ s.owner[l + 1 + c.n] = s.owner[l]
          /\ NoHeaderIn(s, l, l + 1 + c.n)
          /\ l + 1 + c.n <= Len(s.cells) =>
                s.pre[l + 1 + c.n] = s.pre[l] \o Octets(s, l + 1, c.n)
    /\ c.k = "len" => c.kind # "Indeterminate"

WellFramed(s) ==
    /\ 0 \in s.hdrs
    /\ \A h \in s.hdrs : h < Len(s.cells) => HeaderLaidOut(s, h)
    /\ \A l \in s.lens : l < Len(s.cells) => LengthLaidOut(s, l)

ASSUME SourcesAssumption ==
    \A s \in Sources : IsSource(s) /\ WellFramed(s)

ASSUME BoundsAssumption ==
    /\ MinBuffered \in Nat \ {0}
    /\ MinFirstPartial \in Nat \ {0}
    /\ MaxCapacity \in Nat \ {0}
    /\ ReadChunk \in Nat \ {0}

VARIABLES
    src,        \* the source being read
    pos,        \* cells of src consumed
    done,       \* PacketParser.done
    pc,         \* where next() is: between calls, or in one of its read loops
    at,         \* offset of the header next() is working on
    body,       \* the octets collected by the loop next() is in
    raw,        \* what next() has returned so far
    items,      \* what the filter has let through so far
    exhausted   \* next() has returned None

vars == <<src, pos, done, pc, at, body, raw, items, exhausted>>

Outcome == {"ok", "PacketIncomplete", "Incomplete", "Io", "BadHeader",
            "PartialNotAllowed", "IllegalFirstPartial", "TooLarge",
            "Unsupported", "EllipticCurve", "Invalid", "Message"}

Result == [e : Outcome, at : Nat, body : Seq(Cell)]

-----------------------------------------------------------------------------
(* The buffered reader, modelled from its use (buffer_redux::BufReader).   *)

Left(p) == Len(src.cells) - p

\* fill_buf() at p reads on while fewer than MinBuffered octets are buffered:
\* a failing source is met as soon as fewer than that many are left.
FillBufFails(p) == src.end = "err" /\ Left(p) < MinBuffered

\* read_exact(n) at p fails when the source is too short, and it may fail
\* early, because it fills the buffer between its copies.
ReadExactMayFail(p, n) ==
    /\ n > 0
    /\ \/ Left(p) < n
       \/ src.end = "err" /\ Left(p) + 1 < n + MinBuffered

ReadExactMaySucceed(p, n) == Left(p) >= n

-----------------------------------------------------------------------------
(* The pieces next() is made of.                                           *)

\* single::body_parser: the class of a complete body is that of its packet;
\* what it makes of other octets is not known.
BodyParser(h, b) == IF b = src.body[h] THEN {src.cls[h]} ELSE Class

\* Errors of a body, the way the arms of next() for a fixed and for a partial
\* length report them.
BodyOutcome(class) ==
    CASE class = "ok"          -> "ok"
      [] class = "incomplete"  -> "PacketIncomplete"
      [] class = "unsupported" -> "Unsupported"
      [] class = "curve"       -> "EllipticCurve"
      [] class = "invalid"     -> "Invalid"

\* The arm for an indeterminate length hands the error on as it is.
IndeterminateOutcome(class) ==
    IF class = "incomplete" THEN "Incomplete" ELSE BodyOutcome(class)

\* filter_parsed_packet_results: markers and ignorable errors are dropped,
\* other errors are wrapped.
Filter(r) ==
    CASE r.e = "ok" -> IF src.cells[r.at + 1].tag = "Marker" THEN <<>> ELSE <<r>>
      [] r.e \in {"Unsupported", "EllipticCurve", "PacketIncomplete"} -> <<>>
      [] OTHER -> <<[r EXCEPT !.e = "Message"]>>

\* next() returns Some(r).
Yield(e, h, b) ==
    LET r == [e |-> e, at |-> h, body |-> IF e = "ok" THEN b ELSE <<>>] IN
    /\ raw' = Append(raw, r)
    /\ items' = items \o Filter(r)

\* next() returns an error and is done.
Fail(e, h) ==
    /\ Yield(e, h, <<>>)
    /\ done' = TRUE
    /\ pc' = "idle"
    /\ body' = <<>>
    /\ at' = h
    /\ UNCHANGED <<src, pos, exhausted>>

-----------------------------------------------------------------------------
(* next(), one action for every way through it.                            *)

\* done is set: None again.
NextDone ==
    /\ pc = "idle" /\ done /\ ~exhausted
    /\ exhausted' = TRUE
    /\ UNCHANGED <<src, pos, done, pc, at, body, raw, items>>

\* The first fill_buf fails (the error is only logged) or finds nothing.
NextNone ==
    /\ pc = "idle" /\ ~done
    /\ FillBufFails(pos) \/ Left(pos) = 0
    /\ done' = TRUE
    /\ exhausted' = TRUE
    /\ UNCHANGED <<src, pos, pc, at, body, raw, items>>

AtHeader ==
    /\ pc = "idle" /\ ~done
    /\ ~FillBufFails(pos)
    /\ Left(pos) > 0

Header == src.cells[pos + 1]

\* single::parser does not find a complete, valid header.
NextBadHeader ==
    /\ AtHeader
    /\ \/ Header.k = "cut" /\ Fail("PacketIncomplete", pos)
       \/ Header.k \notin {"hdr", "cut"} /\ Fail("BadHeader", pos)

\* The reader consumes a body whatever the body parser says of it.
\* Mutants: only a good body is consumed; one octet too many is; a body that is
\* incomplete is left to be read again.
ConsumedIfGood(h, class, end) == IF class = "ok" THEN end ELSE h + 1
ConsumedUnlessIncomplete(h, class, end) == IF class = "incomplete" THEN h ELSE end
ConsumedTooFar(h, class, end) == end + 1
Consumed(h, class, end) == end

\* The body is complete: parse it and leave the call.
Finish(h, b, class, end, stop) ==
    /\ Yield(BodyOutcome(class), h, b)
    /\ pos' = Consumed(h, class, end)
    /\ done' = stop
    /\ pc' = "idle"
    /\ body' = <<>>
    /\ at' = h
    /\ UNCHANGED <<src, exhausted>>

\* A bad body of fixed length never stops the iterator.  Mutant: it does.
FixedStopsAtBadBody(class) == class # "ok"
FixedStops(class) == FALSE

\* A bad body in partial chunks stops it, unless it is only incomplete.
PartialStops(class) == class \notin {"ok", "incomplete"}

\* The slice body[..len] of the internal buffer is in range.
SliceInRange(n) == Left(pos + 1) >= n

\* A fixed length that fits the internal buffer.  The slice body[..len]
\* panics when the source ended before len octets.
NextFixedSmall ==
    /\ AtHeader
    /\ Header.k = "hdr" /\ Header.kind = "Fixed" /\ Header.n <= MinBuffered
    /\ LET n == Header.n
           b == Octets(src, pos + 1, n) IN
       \/ FillBufFails(pos + 1) /\ Fail("Io", pos)
       \/ /\ ~FillBufFails(pos + 1) /\ ~SliceInRange(n)
          /\ pc' = "panicked"
          /\ at' = pos
          /\ UNCHANGED <<src, pos, done, body, raw, items, exhausted>>
       \/ /\ ~FillBufFails(pos + 1) /\ SliceInRange(n)
          /\ \E class \in BodyParser(pos, b) :
                Finish(pos, b, class, pos + 1 + n, FixedStops(class))

\* A longer fixed length, read into a buffer of its own.
NextFixedLarge ==
    /\ AtHeader
    /\ Header.k = "hdr" /\ Header.kind = "Fixed" /\ Header.n > MinBuffered
    /\ LET n == Header.n
           b == Octets(src, pos + 1, n) IN
       \/ ReadExactMayFail(pos + 1, n) /\ Fail("Io", pos)
       \/ /\ ReadExactMaySucceed(pos + 1, n)
          /\ \E class \in BodyParser(pos, b) :
                Finish(pos, b, class, pos + 1 + n, FixedStops(class))

\* An indeterminate length: enter the loop that reads to the end.
NextIndeterminate ==
    /\ AtHeader
    /\ Header.k = "hdr" /\ Header.kind = "Indeterminate"
    /\ pos' = pos + 1
    /\ at' = pos
    /\ pc' = "indeterminate"
    /\ UNCHANGED <<src, done, body, raw, items, exhausted>>

\* One turn of that loop that reads n octets.
IndeterminateRead ==
    /\ pc = "indeterminate"
    /\ \/ FillBufFails(pos) /\ Fail("Io", at)
       \/ /\ ~FillBufFails(pos)
          /\ \E n \in 1..ReadChunk :
                /\ n <= Left(pos)
                /\ LET b == body \o Octets(src, pos, n) IN
                   IF Len(b) >= MaxCapacity
                   THEN Fail("TooLarge", at)
                   ELSE /\ body' = b
                        /\ pos' = pos + n
                        /\ UNCHANGED <<src, done, pc, at, raw, items, exhausted>>

\* A mutant of IndeterminateEnd that waits for more at the end of the source.
IndeterminateEndWaits ==
    /\ pc = "indeterminate"
    /\ ~FillBufFails(pos) /\ Left(pos) = 0
    /\ UNCHANGED vars

\* The turn that reads nothing: the body is what was collected.
IndeterminateEnd ==
    /\ pc = "indeterminate"
    /\ ~FillBufFails(pos) /\ Left(pos) = 0
    /\ \E class \in BodyParser(at, body) :
          /\ Yield(IndeterminateOutcome(class), at, body)
          /\ done' = (class # "ok")
          /\ pc' = "idle"
          /\ body' = <<>>
          /\ UNCHANGED <<src, pos, at, exhausted>>

\* A partial length: check the packet type and the size of the first chunk,
\* read it and enter the loop over the remaining chunks.
NextPartial ==
    /\ AtHeader
    /\ Header.k = "hdr" /\ Header.kind = "Partial"
    /\ LET n == Header.n IN
       \/ Header.tag \notin PartialTags /\ Fail("PartialNotAllowed", pos)
       \/ /\ Header.tag \in PartialTags /\ n < MinFirstPartial
          /\ Fail("IllegalFirstPartial", pos)
       \/ /\ Header.tag \in PartialTags /\ n >= MinFirstPartial
          /\ \/ ReadExactMayFail(pos + 1, n) /\ Fail("Io", pos)
             \/ /\ ReadExactMaySucceed(pos + 1, n)
                /\ body' = Octets(src, pos + 1, n)
                /\ pos' = pos + 1 + n
                /\ at' = pos
                /\ pc' = "partial"
                /\ UNCHANGED <<src, done, raw, items, exhausted>>

\* A complete length is buffered.
AtLength == Left(pos) > 0 /\ src.cells[pos + 1].k = "len"

ChunkLength == src.cells[pos + 1]

\* read_fixed appends a chunk to the body.  Mutant: it writes over the body.
OverwriteFixed(b, n) == Octets(src, pos + 1, n)
ReadFixed(b, n) == b \o Octets(src, pos + 1, n)

\* In the loop: another partial chunk.
PartialChunk ==
    /\ pc = "partial"
    /\ ~FillBufFails(pos) /\ AtLength
    /\ ChunkLength.kind = "Partial"
    /\ LET n == ChunkLength.n IN
       /\ ReadExactMaySucceed(pos + 1, n)
       /\ body' = ReadFixed(body, n)
       /\ pos' = pos + 1 + n
       /\ UNCHANGED <<src, done, pc, at, raw, items, exhausted>>

\* In the loop: the final, fixed chunk.  Only an incomplete body is skipped;
\* any other error of the body parser stops the iterator.
PartialFinal ==
    /\ pc = "partial"
    /\ ~FillBufFails(pos) /\ AtLength
    /\ ChunkLength.kind = "Fixed"
    /\ LET n == ChunkLength.n
           b == ReadFixed(body, n) IN
       /\ ReadExactMaySucceed(pos + 1, n)
       /\ \E class \in BodyParser(at, b) :
             Finish(at, b, class, pos + 1 + n, PartialStops(class))

\* In the loop: the reader fails, the length is not complete, or its chunk
\* is not.
PartialFail ==
    /\ pc = "partial"
    /\ \/ FillBufFails(pos) /\ Fail("Io", at)
       \/ ~FillBufFails(pos) /\ ~AtLength /\ Fail("Incomplete", at)
       \/ /\ ~FillBufFails(pos) /\ AtLength
          /\ ReadExactMayFail(pos + 1, ChunkLength.n)
          /\ Fail("Io", at)

-----------------------------------------------------------------------------

Init ==
    /\ src \in Sources
    /\ pos = 0
    /\ done = FALSE
    /\ pc = "idle"
    /\ at = 0
    /\ body = <<>>
    /\ raw = <<>>
    /\ items = <<>>
    /\ exhausted = FALSE

Next ==
    \/ NextDone
    \/ NextNone
    \/ NextBadHeader
    \/ NextFixedSmall
    \/ NextFixedLarge
    \/ NextIndeterminate
    \/ IndeterminateRead
    \/ IndeterminateEnd
    \/ NextPartial
    \/ PartialChunk
    \/ PartialFinal
    \/ PartialFail

Spec == Init /\ [][Next]_vars

\* The consumer keeps calling next(); a call that has begun runs to its end.
FairSpec == Spec /\ WF_vars(Next)

-----------------------------------------------------------------------------
(* Properties                                                              *)

\* The type of the iterator's state (struct PacketParser and the locals of
\* next()); the position never passes the end of the source.
TypeOK ==
    /\ IsSource(src) /\ WellFramed(src)
    /\ pos \in 0..Len(src.cells)
    /\ done \in BOOLEAN
    /\ pc \in {"idle", "partial", "indeterminate", "panicked"}
    /\ at \in Nat
    /\ body \in Seq(Cell)
    /\ raw \in Seq(Result)
    /\ items \in Seq(Result)
    /\ exhausted \in BOOLEAN

\* next() never loses the frame: whenever it is about to parse a header the
\* reader is at the first octet of a packet, and whenever it is about to parse
\* a continuation length the reader is at one - also after bodies that were
\* rejected and skipped.
Framing ==
    /\ pc = "idle" /\ ~done => pos \in src.hdrs
    /\ pc = "partial" => pos \in src.lens /\ src.owner[pos] = at

\* Every packet handed out carries exactly the octets its writer framed: no
\* truncated body is ever returned as a packet, and the chunks of a partial
\* body are joined in order without their lengths.
BodyExact ==
    \A i \in DOMAIN raw : raw[i].e = "ok" => raw[i].body = src.body[raw[i].at]

\* The chunks collected so far are what the writer put before the current
\* continuation length: with Framing, what makes BodyExact inductive.
ChunksExact == pc = "partial" => body = src.pre[pos]

\* Results come out in the order of the packets they are about, and none comes
\* out twice: next() never goes back to a packet it has answered for, also when
\* its body was skipped, was in chunks or was cut short.
InOrder ==
    \A i, j \in DOMAIN raw : i < j => raw[i].at < raw[j].at

\* The packets that no failure of the source can hide start below here: the
\* first fill_buf of a call drops an error of the source, and with it up to
\* MinBuffered - 1 octets that were read before it.
SurelyRead(s) == IF s.end = "eof" THEN Len(s.cells) ELSE Len(s.cells) - MinBuffered + 1

\* A packet is dropped without an error only when the filter may ignore it:
\* if next() said None and no error came out, every well-formed packet that is
\* not a marker was handed out, also of a source that failed, but for those
\* that start in the last octets before the failure.  (A partial body of an
\* ignorable class is excluded: there the iterator stops.)
NoSilentLoss ==
    /\ exhausted
    /\ \A i \in DOMAIN items : items[i].e = "ok"
    /\ \A h \in src.hdrs : h < Len(src.cells) =>
          /\ src.cells[h + 1].k = "hdr"
          /\ src.cells[h + 1].kind = "Partial" =>
                src.cls[h] \in {"ok", "incomplete"}
    => \A h \in src.hdrs :
          (h < Len(src.cells) /\ h < SurelyRead(src) /\ src.cls[h] = "ok"
              /\ src.cells[h + 1].tag # "Marker")
          => \E i \in DOMAIN items : items[i].at = h

\* The ignorable errors of the low level parser never reach the consumer, and
\* a marker never does: an error that does is one of the source or of a packet
\* that is really bad.
OnlyRealErrors ==
    \A i \in DOMAIN items :
       LET h == items[i].at IN
       items[i].e = "Message" /\ src.cells[h + 1].k = "hdr" /\ src.end = "eof"
          /\ h + 1 + src.cells[h + 1].n <= Len(src.cells)
          /\ src.cells[h + 1].kind = "Fixed"
       => src.cls[h] = "invalid"

\* What a consumer of the filtered iterator may conclude: no error means that
\* no good packet is missing, and an error means that something was wrong.
ErrorsAreHonest == NoSilentLoss /\ OnlyRealErrors

\* many.rs: "not bailing, we are just skipping incomplete bodies".
IncompleteBodiesAreSkipped == pc # "panicked"

\* Once next() has reported a fatal error or the end it hands out nothing more.
DoneIsFinal == [][done => done' /\ UNCHANGED <<raw, items>>]_vars

\* Iteration ends: the consumer sees None after finitely many calls, whatever
\* the source holds (or the call panics).
Termination == <>(exhausted \/ pc = "panicked")

=============================================================================
