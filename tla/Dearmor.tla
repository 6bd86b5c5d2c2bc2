------------------------------- MODULE Dearmor -------------------------------
(***************************************************************************)
(* Reading ASCII armor: Dearmor of src/armor/reader.rs over the decoder of *)
(* src/base64_decoder.rs over the token reader of src/base64_reader.rs;    *)
(* and what src/armor/writer.rs writes.                                    *)
(*                                                                         *)
(* A text is a sequence of cells: a half of a BEGIN or END line, one       *)
(* character of a header's key, the ": value" that ends a header line, a   *)
(* line break, one base64 character.  The source hands out the text in     *)
(* pieces; only the end of the first piece (first) is of consequence,      *)
(* because only the header parser looks at what is buffered instead of     *)
(* reading on.  A source may fail once, behind cell fail, and then go on.  *)
(*                                                                         *)
(* Octet j of base64 quad q is 10 * q + j; an octet decoded from           *)
(* characters that were never one quad is 0.  The caller reads with        *)
(* buffers of the sizes ReadSizes until it is told the end.                *)
(***************************************************************************)
EXTENDS Integers, Sequences, FiniteSets, SequencesExt

CONSTANTS
    Texts,       \* the sources
    ReadSizes,   \* lengths of the slices the caller reads into
    BufSize,     \* capacity of the decoder's buffer (BUF_SIZE)
    FooterLook,  \* how much is buffered before the footer is parsed (128)
    KeyLen,      \* characters of a header's key
    LineLen,     \* characters of a base64 line (U64)
    MaxErrors    \* how many errors the caller reads on after

CellKind == {"text", "begin", "begun", "key", "sep", "nl", "tok", "eq",
             "crc", "badcrc", "end", "otherend", "ended"}
Cell == [k : CellKind, q : Nat, i : 0..4]
C(k) == [k |-> k, q |-> 0, i |-> 0]

\* A text; where its source fails (0: never); and about its first block,
\* for the properties only (but for payload, of which it has the checksum):
\* the octets that were armored, those in the text, the place of the blank
\* line, whether there is a checksum, whether nothing is missing, and
\* whether nothing at all is wrong.
Text == [cells : Seq(Cell), fail : Nat, payload : Seq(Nat), body : Seq(Nat),
         hdr : Nat, sum : BOOLEAN, whole : BOOLEAN, sound : BOOLEAN]

ASSUME SizesAssumption == /\ ReadSizes \subseteq Nat \ {0}
                          /\ BufSize \in { 4 * n : n \in 1..1000 }
                          /\ FooterLook \in Nat /\ MaxErrors \in Nat
                          /\ KeyLen \in Nat \ {0} /\ LineLen \in Nat \ {0}

-----------------------------------------------------------------------------
(* The writer: armor/writer.rs.                                            *)

Octets(q, n) == [j \in 1..n |-> 10 * q + j]

Quads(len) == (len + 2) \div 3
QuadOctets(len, n) == IF n < Quads(len) THEN 3 ELSE len - 3 * (n - 1)

\* The octets of block b, which has len of them.
Payload(b, len) == FlattenSeq([n \in 1..Quads(len) |-> Octets(10 * b + n, QuadOctets(len, n))])

\* Their base64 characters: a quad of r octets has r + 1 and padding.
Encoded(b, len) ==
    [p \in 1..(4 * Quads(len)) |->
        LET n == ((p - 1) \div 4) + 1
            i == ((p - 1) % 4) + 1 IN
        IF i <= QuadOctets(len, n) + 1 THEN [k |-> "tok", q |-> 10 * b + n, i |-> i] ELSE C("eq")]

\* What LineWriter makes of them: a break behind every line, the last included.
Lines(chars) ==
    LET total == Len(chars) + ((Len(chars) + LineLen - 1) \div LineLen) IN
    [p \in 1..total |->
        IF p % (LineLen + 1) = 0 \/ p = total THEN C("nl")
        ELSE chars[p - (p \div (LineLen + 1))]]

WriteHeader(headers) ==
    <<C("begin"), C("begun")>>
    \o FlattenSeq([h \in 1..headers |-> [i \in 1..KeyLen |-> C("key")] \o <<C("sep")>>])
    \o <<C("nl")>>

\* The body; an error when the nested writers are dropped is not seen, and
\* loses the last lost lines.
WriteBody(b, len, lost) ==
    LET all == Encoded(b, len)
        kept == Len(all) - lost * LineLen IN
    Lines(SubSeq(all, 1, kept))

\* sum is the kind of the checksum's characters, or "none".
WriteFooter(sum, typ) ==
    (IF sum = "none" THEN <<>> ELSE <<C("eq"), C(sum), C(sum), C(sum), C(sum), C("nl")>>)
    \o <<C(typ), C("ended")>>

Armored(b, headers, len, lost, sum, typ) ==
    WriteHeader(headers) \o WriteBody(b, len, lost) \o WriteFooter(sum, typ)

-----------------------------------------------------------------------------
(* What is assumed of a text: how it begins and what is in its body, as    *)
(* far as it is there.  Nothing is assumed of what lies behind the body.   *)

TokenKinds == {"key", "tok", "eq", "crc", "badcrc"}

\* The base64 characters behind cell from, up to cell to.
TokensOf(cells, from, to) ==
    LET taken[n \in 0..Len(cells)] ==
          IF n = 0 THEN <<>>
          ELSE IF n > from /\ cells[n].k \in TokenKinds THEN Append(taken[n - 1], cells[n])
          ELSE taken[n - 1] IN
    taken[to]

\* Nothing but characters and line breaks up to cell p of the body.
InBodyOf(t, p) == \A i \in (t.hdr + 1)..p : t.cells[i].k \in TokenKinds \cup {"nl"}

\* The first armor line begins the block; behind it, or behind the last
\* header line, there are only breaks up to hdr.
HeaderLayout(t) ==
    \E b \in 1..(t.hdr - 2), p \in 2..(t.hdr - 1) :
        /\ t.cells[b].k = "begin" /\ t.cells[b + 1].k = "begun"
        /\ \A i \in 1..(b - 1) : t.cells[i].k \notin {"begin", "end", "otherend"}
        /\ p = b + 1 \/ (p > b + 1 /\ t.cells[p].k = "sep")
        /\ \A i \in (p + 1)..t.hdr : t.cells[i].k = "nl"

\* Character i of the n-th quad of some octets.
CharOf(c, n, i, octets) ==
    LET r == QuadOctets(Len(octets), n) IN
    IF i <= r + 1
    THEN c.k = "tok" /\ c.i = i /\ \A j \in 1..r : octets[3 * (n - 1) + j] = 10 * c.q + j
    ELSE c.k = "eq"

\* Characters that are those of some octets, or the first of them, or have
\* a checksum behind them.
Encodes(chars, octets) ==
    LET quads == Quads(Len(octets)) IN
    /\ \A n \in 1..quads, i \in 1..4 :
          4 * (n - 1) + i <= Len(chars) => CharOf(chars[4 * (n - 1) + i], n, i, octets)
    /\ Len(chars) > 4 * quads => chars[4 * quads + 1].k = "eq"

Layout(t) ==
    /\ t.fail <= Len(t.cells)
    /\ IsPrefix(t.body, t.payload)
    /\ t.hdr < Len(t.cells) =>
         /\ HeaderLayout(t)
         /\ \A p \in t.hdr..Len(t.cells) :
               InBodyOf(t, p) => Encodes(TokensOf(t.cells, t.hdr, p), t.body)

ASSUME TextsAssumption == \A t \in Texts : t \in Text /\ Layout(t)

-----------------------------------------------------------------------------
VARIABLES
    src,      \* the text being read
    first,    \* how many cells the source's first fill_buf() returns
    wrapped,  \* Dearmor is read; or else its Base64Decoder alone, at the body
    pos,      \* cells consumed from the source
    faulted,  \* the source has failed
    part,     \* Dearmor.current_part
    dec,      \* Base64Decoder.inner: characters read and not decoded
    out,      \* Base64Decoder.out: octets decoded and not delivered
    err,      \* Base64Decoder.err
    filled,   \* the decoder's read is past filling its buffer
    hashed,   \* what crc has been updated with
    want,     \* length of the caller's slice; 0 between calls
    read,     \* octets this call has put into the slice
    ret,      \* what the last call returned
    got,      \* octets the caller was given
    errs      \* errors the caller was given

vars == <<src, first, wrapped, pos, faulted, part, dec, out, err, filled, hashed, want, read, ret, got, errs>>
source == <<src, first, wrapped>>

Parts == {"Header", "Body", "Footer", "Done", "Temp"}

Cells == src.cells
Failing == src.fail > 0 /\ ~faulted

\* Where the source's data ends for now.
Limit == IF Failing THEN src.fail ELSE Len(Cells)

-----------------------------------------------------------------------------
(* header_parser, on what the source has buffered.                         *)


Places(kinds, from, to) == { i \in from..to : Cells[i].k \in kinds }

\* The place of the "-----" that take_until looks for.
BeginAt == LET all == Places({"begin", "end", "otherend"}, 1, first) IN
           IF all = {} THEN 0 ELSE Min(all)

\* key_value_pairs: a key is everything up to the next ": ", line breaks
\* included, so the pairs end behind the last ": value" in the buffer.
PairsEnd ==
    LET seps == Places({"sep"}, BeginAt + 2, first) IN
    IF seps = {} THEN BeginAt + 1 ELSE Max(seps)

\* Blank lines are skipped up to something else, which must be buffered.
BodyStarts == { i \in (PairsEnd + 1)..first : Cells[i].k # "nl" }

HeaderParses ==
    /\ BeginAt > 0 /\ Cells[BeginAt].k = "begin"
    /\ BeginAt < first /\ Cells[BeginAt + 1].k = "begun"
    /\ BodyStarts # {}

HeaderEnd == Min(BodyStarts) - 1

-----------------------------------------------------------------------------
(* Base64Reader::read into room free places of the decoder's buffer.       *)

Tokens(from, to) == TokensOf(Cells, from, to)

\* The first cell behind pos that is neither a token nor a line break.
NonToken ==
    LET all == { i \in (pos + 1)..Len(Cells) : Cells[i].k \notin TokenKinds \cup {"nl"} } IN
    IF all = {} THEN Len(Cells) + 1 ELSE Min(all)

\* How far the reader gets: to the token that fills the room, to a
\* non-token (line breaks before it are consumed), to the end of the data.
TakenTo(room) ==
    LET all == Places(TokenKinds, pos + 1, Len(Cells))
        full == { i \in all : Cardinality({ j \in all : j <= i }) = room } IN
    Min(full \cup {NonToken - 1, Limit})

\* The reader asked for more where the source fails; what it took is lost.
TakeFails(room) ==
    /\ Failing
    /\ TakenTo(room) = src.fail
    /\ Len(Tokens(pos, src.fail)) < room

-----------------------------------------------------------------------------
(* try_decode_engine_slice.                                                *)

NotEq(c) == c.k # "eq"

\* A quad is valid when padding is only where padding may be.
QuadOk(s) == /\ NotEq(s[1]) /\ NotEq(s[2])
             /\ NotEq(s[4]) => NotEq(s[3])

QuadFull(s) == NotEq(s[4])
QuadLen(s) == IF QuadFull(s) THEN 3 ELSE IF NotEq(s[3]) THEN 2 ELSE 1

DecodeQuad(s) ==
    LET n == QuadLen(s) IN
    IF \A i \in 1..(n + 1) : s[i] = [k |-> "tok", q |-> s[1].q, i |-> i]
    THEN Octets(s[1].q, n)
    ELSE [j \in 1..n |-> 0]

Quad(s, n) == SubSeq(s, 4 * n - 3, 4 * n)

\* The engine takes a slice whose quads are valid and only the last padded.
Decodes(s, quads) ==
    /\ \A n \in 1..quads : QuadOk(Quad(s, n))
    /\ \A n \in 1..(quads - 1) : QuadFull(Quad(s, n))

\* Quads of the longest prefix that decodes.
Decodable(s) == Max({ n \in 0..(Len(s) \div 4) : Decodes(s, n) })

\* What it decodes to; every quad but the last has three octets.
DecodedPrefix(s) ==
    LET n == Decodable(s)
        total == IF n = 0 THEN 0 ELSE 3 * (n - 1) + QuadLen(Quad(s, n)) IN
    [p \in 1..total |-> DecodeQuad(Quad(s, ((p - 1) \div 3) + 1))[((p - 1) % 3) + 1]]

-----------------------------------------------------------------------------
(* footer_parser, on dec and what follows it in the source.                *)

Look == dec \o SubSeq(Cells, pos + 1, Len(Cells))
LookKind(n) == IF n <= Len(Look) THEN Look[n].k ELSE "cut"

SumKinds == {"crc", "badcrc"}
SumParses == LookKind(1) = "eq" /\ \A n \in 2..5 : LookKind(n) \in SumKinds

\* Line breaks in front of "-----END", behind the checksum or stray padding.
FooterBreaks ==
    LET skip == IF SumParses THEN 5 ELSE 0
        rest == { n \in (skip + 1)..(Len(Look) + 1) :
                    LookKind(n) \notin (IF SumParses THEN {"nl"} ELSE {"nl", "eq"}) } IN
    Min(rest)

FooterParses == /\ LookKind(FooterBreaks) \in {"end", "otherend"}
                /\ LookKind(FooterBreaks + 1) = "ended"

TypMatches == LookKind(FooterBreaks) = "end"

\* Mutant: the checksum is stored and not compared.
SumStored == TRUE

\* A checksum that is there is that of the octets hashed.
SumMatches == SumParses => LookKind(2) = "crc" /\ hashed = src.payload

\* Filling the footer's buffer runs into the failing source.
FooterFillFails == Failing /\ Len(dec) + src.fail - pos < FooterLook

-----------------------------------------------------------------------------
(* One call of read(): Call, then the rounds of its loop up to a return.   *)

Return(r, octets) ==
    /\ ret' = r /\ want' = 0 /\ read' = <<>>
    /\ got' = got \o octets
    /\ errs' = IF r = "err" THEN errs + 1 ELSE errs

\* An error leaves Part::Temp behind, and the octets of this call are lost.
\* The decoder alone has no part.
Fail == Return("err", <<>>) /\ part' = IF wrapped THEN "Temp" ELSE part

\* Where the first piece may end: anywhere in the header, behind it, or with
\* the data; where inside the body makes no difference to header_parser.
FirstPieces ==
    LET all == IF src.fail > 0 THEN src.fail ELSE Len(src.cells) IN
    { n \in 1..all : n <= src.hdr + 2 \/ n = all }

Init ==
    /\ src \in Texts
    /\ first \in FirstPieces
    /\ wrapped \in BOOLEAN
    /\ wrapped \/ HeaderParses
    /\ pos = IF wrapped THEN 0 ELSE HeaderEnd
    /\ part = IF wrapped THEN "Header" ELSE "Body"
    /\ faulted = FALSE
    /\ dec = <<>> /\ out = <<>> /\ err = FALSE /\ filled = FALSE
    /\ hashed = <<>> /\ want = 0 /\ read = <<>> /\ ret = "none" /\ got = <<>> /\ errs = 0

\* The caller reads on until the end, a panic, or too many errors.
Call(n) ==
    /\ want = 0 /\ ret \notin {"eof", "panic"} /\ errs <= MaxErrors
    /\ want' = n
    /\ UNCHANGED <<source, pos, faulted, part, dec, out, err, filled, hashed, read, ret, got, errs>>

\* Part::Header, and read_header().
ReadHeader ==
    /\ want > 0 /\ part = "Header" /\ HeaderParses
    /\ pos' = HeaderEnd /\ part' = "Body"
    /\ UNCHANGED <<source, faulted, dec, out, err, filled, hashed, want, read, ret, got, errs>>

ReadHeaderFails ==
    /\ want > 0 /\ part = "Header" /\ ~HeaderParses
    /\ Fail
    /\ UNCHANGED <<source, pos, faulted, dec, out, err, filled, hashed>>

InBody == want > 0 /\ part = "Body"

\* into[read..]
Space == want - Len(read)

\* The checksum is computed over what the caller gets.
Hashed(octets) == hashed \o octets

\* What happens to the octets a decoder read has delivered: hashed, counted,
\* and returned when the slice is full (by the decoder alone, at once).
Deliver(octets) ==
    LET now == read \o octets IN
    /\ hashed' = IF wrapped THEN Hashed(octets) ELSE hashed
    /\ part' = part
    /\ IF Len(now) = want \/ ~wrapped
       THEN Return("ok", now)
       ELSE read' = now /\ UNCHANGED <<want, ret, got, errs>>

\* Mutant: the split is one off.
LeftAfterOff(octets, n) == SubSeq(octets, n + 2, Len(octets))
\* What is left over of octets when n are copied into the slice.
LeftAfter(octets, n) == SubSeq(octets, n + 1, Len(octets))

\* Leftovers of an earlier decoder read.
BodyLeftover ==
    /\ InBody /\ out # <<>>
    /\ LET n == Min({Space, Len(out)}) IN
       /\ Deliver(SubSeq(out, 1, n))
       /\ out' = LeftAfter(out, n)
    /\ UNCHANGED <<source, pos, faulted, dec, err, filled>>

\* Mutant: errors are not memorised.
NoMemory == FALSE
Memorised == err

BodyErrorAgain ==
    /\ InBody /\ out = <<>> /\ Memorised
    /\ Fail
    /\ UNCHANGED <<source, pos, faulted, dec, out, err, filled, hashed>>

NeedsFill == Len(dec) < 4

BodyFillFails ==
    /\ InBody /\ out = <<>> /\ ~Memorised /\ ~filled /\ NeedsFill /\ TakeFails(BufSize - Len(dec))
    /\ pos' = src.fail /\ faulted' = TRUE /\ err' = TRUE
    /\ Fail
    /\ UNCHANGED <<source, dec, out, filled, hashed>>

\* The first half of a decoder read fills the buffer, the second decodes it.
BodyFill ==
    /\ InBody /\ out = <<>> /\ ~Memorised /\ ~filled
    /\ ~(NeedsFill /\ TakeFails(BufSize - Len(dec)))
    /\ LET to == IF NeedsFill THEN TakenTo(BufSize - Len(dec)) ELSE pos IN
       dec' = dec \o Tokens(pos, to) /\ pos' = to
    /\ filled' = TRUE
    /\ UNCHANGED <<source, faulted, part, out, err, hashed, want, read, ret, got, errs>>

ConsumedChars(s) == 4 * Decodable(s)

\* What does not fit into the slice is kept in out.
BodyDecode ==
    /\ InBody /\ filled /\ Decodable(dec) > 0
    /\ LET octets == DecodedPrefix(dec)
           n == Min({Space, Len(octets)}) IN
       /\ Deliver(SubSeq(octets, 1, n))
       /\ out' = LeftAfter(octets, n)
    /\ dec' = SubSeq(dec, ConsumedChars(dec) + 1, Len(dec))
    /\ filled' = FALSE
    /\ UNCHANGED <<source, pos, faulted, err>>

\* Mutant: the body is never taken to be over.
AfterBodyStays == "Body"
AfterBody == "Footer"

\* Nothing decodes: the body is over.
BodyEnd ==
    /\ InBody /\ filled /\ Decodable(dec) = 0
    /\ IF wrapped
       THEN part' = AfterBody /\ UNCHANGED <<want, read, ret, got, errs>>
       ELSE part' = part /\ Return("eof", <<>>)
    /\ filled' = FALSE
    /\ UNCHANGED <<source, pos, faulted, dec, out, err, hashed>>

FooterReadFails ==
    /\ want > 0 /\ part = "Footer" /\ FooterFillFails
    /\ pos' = src.fail /\ faulted' = TRUE
    /\ Fail
    /\ UNCHANGED <<source, dec, out, err, filled, hashed>>

ReadFooter ==
    /\ want > 0 /\ part = "Footer" /\ ~FooterFillFails
    /\ FooterParses /\ TypMatches /\ SumMatches
    /\ part' = "Done"
    /\ UNCHANGED <<source, pos, faulted, dec, out, err, filled, hashed, want, read, ret, got, errs>>

\* The footer is not one: the part is lost.
FooterMalformed ==
    /\ want > 0 /\ part = "Footer" /\ ~FooterFillFails /\ ~FooterParses
    /\ Fail
    /\ UNCHANGED <<source, pos, faulted, dec, out, err, filled, hashed>>

\* The footer is of another type or another body: an error, but done.
FooterMismatch ==
    /\ want > 0 /\ part = "Footer" /\ ~FooterFillFails /\ FooterParses
    /\ ~(TypMatches /\ SumMatches)
    /\ Return("err", <<>>) /\ part' = "Done"
    /\ UNCHANGED <<source, pos, faulted, dec, out, err, filled, hashed>>

ReadDone ==
    /\ want > 0 /\ part = "Done"
    /\ Return(IF read = <<>> THEN "eof" ELSE "ok", read)
    /\ UNCHANGED <<source, pos, faulted, part, dec, out, err, filled, hashed>>

\* Part::Temp => panic!("invalid state")
ReadTemp ==
    /\ want > 0 /\ part = "Temp"
    /\ Return("panic", <<>>)
    /\ UNCHANGED <<source, pos, faulted, part, dec, out, err, filled, hashed>>

Next ==
    \/ \E n \in ReadSizes : Call(n)
    \/ ReadHeader \/ ReadHeaderFails
    \/ BodyLeftover \/ BodyErrorAgain \/ BodyFillFails \/ BodyFill \/ BodyDecode \/ BodyEnd
    \/ FooterReadFails \/ ReadFooter \/ FooterMalformed \/ FooterMismatch
    \/ ReadDone \/ ReadTemp

Spec == Init /\ [][Next]_vars
FairSpec == Spec /\ WF_vars(Next)

-----------------------------------------------------------------------------
(* Properties.                                                             *)

\* No header line of something behind the block is in the first buffer.
NoForeignPair == \A i \in (src.hdr + 1)..first : Cells[i].k # "sep"

\* The first buffer holds the whole header and something of the body.
HeaderWhole == first > src.hdr /\ NoForeignPair

\* The octets given out, in the slice and left over are always a prefix of
\* those that were armored: none lost, doubled or invented, whatever the
\* slices, buffer boundaries, padding and failures of the source.
DecodedExactly == HeaderWhole => IsPrefix(got \o read \o out, src.payload)

\* When the end is reported and no error was, the text was complete, its
\* octets were all given out, and the checksum, if there is one, covers
\* what was armored: a writer that lost lines is found out.
EofIsHonest ==
    (wrapped /\ ret = "eof" /\ errs = 0 /\ NoForeignPair)
    => src.whole /\ got = src.body /\ (src.sum => got = src.payload)

\* A sound text is never refused (read_body's and read_footer's errors).
OnlyRealErrors == (ret = "err" /\ HeaderWhole) => ~src.sound

\* What read() reports is so: the end only behind a whole text, an error only
\* for one that is not sound.
HonestOutcome == EofIsHonest /\ OnlyRealErrors

\* Nothing is given out after an error: neither the decoder, which memorises
\* it, nor Dearmor goes on behind characters that were lost.
NothingAfterError == [][errs > 0 => got' = got]_vars

\* A caller that reads on comes to an end; no part of read()'s loop spins.
Termination == <>(ret \in {"eof", "panic"} \/ errs > MaxErrors)

=============================================================================
