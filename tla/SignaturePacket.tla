--------------------------- MODULE SignaturePacket ---------------------------
(***************************************************************************)
(* The octets of a signature packet: src/packet/signature/ser.rs writes    *)
(* them, src/packet/signature/de.rs reads them, and config.rs writes the   *)
(* hashed subpackets a second time to hash them.                           *)
(*                                                                         *)
(* A signature is either built here, subpacket by subpacket, signed and    *)
(* written, or it arrives as octets another implementation has signed.     *)
(* Reading goes field by field, and one subpacket per step.                *)
(*                                                                         *)
(* A subpacket is its type number, the octets of its value and, for a      *)
(* notation, its name.  Strings are UTF-8 of one and two octet characters. *)
(* Embedded signatures, this same codec one level down, are left out.      *)
(***************************************************************************)
EXTENDS Octets

CONSTANTS
    Subpackets,     \* what a caller puts into a signature
    RawSubpackets,  \* octets other implementations write for one subpacket
    RawValues,      \* what create_signature returns, leading zeros included
    Heads,          \* versions, types and algorithms
    Limit16,        \* 65536 in the code: the first count two octets cannot hold
    MaxSubpackets   \* bound on the subpackets of one signature

VARIABLES
    stage,    \* "config", "signed", "wire", "area", "value", or how it ended
    sig,      \* the signature built here
    signed,   \* the octets the packet added to the signed hash
    raws,     \* the raw subpackets of each area of a foreign signature
    rest,     \* the octets still to be read
    area,     \* those of the subpacket area being read
    got       \* the signature read so far

vars == <<stage, sig, signed, raws, rest, area, got>>

-----------------------------------------------------------------------------
(* Subpackets                                                              *)

Known == {2, 3, 4, 5, 6, 7, 9, 11, 12, 16} \cup (20..34)
Times == {2, 3, 9}
Bools == {4, 7, 25}
Strings == {24, 26}
Notation == 20

\* SubpacketType::from_u8: the number without its critical bit, and the bit.
\* Mutant: the bit is not removed.
FromU8Unmasked(o) == <<o, o >= 128>>
FromU8(o) == <<o % 128, o >= 128>>

\* The variant a type number is read as.
KindOf(t) == CASE t \in Known -> "Known"
               [] t \in 100..110 -> "Experimental"
               [] OTHER -> "Other"

\* SubpacketType::as_u8; a critical number of 128 or more stays as it is.
AsU8(sp) == IF sp.critical /\ sp.typ < 128 THEN sp.typ + 128 ELSE sp.typ

\* Characters of a string: every octet but a continuation.
Chars(s) == Cardinality({i \in DOMAIN s : s[i] \notin 128..191})

IsUtf8(s) == \A i \in DOMAIN s :
    /\ s[i] < 128 \/ s[i] \in 128..191 \/ s[i] \in 194..223
    /\ s[i] \in 194..223 => i < Len(s) /\ s[i + 1] \in 128..191
    /\ s[i] \in 128..191 => i > 1 /\ s[i - 1] \in 194..223

\* body_to_writer.  A time of more than four octets does not fit a u32: the
\* creation time wraps, durations saturate.
Body(sp) ==
    CASE sp.kind = "Known" /\ sp.typ \in Times /\ Len(sp.val) > 4 ->
             IF sp.typ = 2 THEN Drop(sp.val, Len(sp.val) - 4) ELSE <<255, 255, 255, 255>>
      [] sp.kind = "Known" /\ sp.typ = Notation ->
             <<sp.val[1] * 128, 0, 0, 0>> \o U16(Len(sp.name) % Limit16)
                 \o U16((Len(sp.val) - 1) % Limit16) \o sp.name \o Tail(sp.val)
      [] OTHER -> sp.val

\* body_len
\* Mutant: the octets of an issuer fingerprint without its version.
BodyLenNoVersion(sp) == IF sp.typ = 33 THEN Len(sp.val) - 1 ELSE Len(Body(sp))
BodyLen(sp) ==
    CASE sp.kind = "Known" /\ sp.typ \in Times -> 4
      [] sp.kind = "Known" /\ sp.typ = Notation -> 8 + Len(sp.name) + Len(sp.val) - 1
      [] sp.kind = "Known" /\ sp.typ = 24 -> Chars(sp.val)
      [] OTHER -> Len(sp.val)

\* Subpacket::to_writer
SubpacketWriter(sp) == WritePacketLength(1 + BodyLen(sp)) \o <<AsU8(sp)>> \o Body(sp)

AreaOctets(list) == FlattenSeq([i \in DOMAIN list |-> SubpacketWriter(list[i])])

\* How many octets the parser of a known type takes; 0 stands for all of them.
Fixed(t) == CASE t \in Times -> 4
              [] t \in Bools -> 1
              [] t = 5 -> 2
              [] t = 12 -> 22
              [] t = 16 -> 8
              [] OTHER -> 0

\* The fewest octets a body that takes all of them needs.
Least(t) == CASE t \in {29, 33} -> 1
              [] t = 31 -> 2
              [] OTHER -> 0

NotationEnd(b) == 8 + BeU16(SubSeq(b, 5, 6)) + BeU16(SubSeq(b, 7, 8))

\* Whether the parser of the type accepts the body.
BodyParses(t, b) ==
    CASE KindOf(t) # "Known" -> TRUE
      [] t = Notation -> Len(b) >= 8 /\ SubSeq(b, 2, 4) = Zeros(3) /\ Len(b) >= NotationEnd(b)
      [] t = 12 -> Len(b) >= 22 /\ b[1] \in {128, 192}
      [] t \in Strings -> IsUtf8(b)
      [] Fixed(t) > 0 -> Len(b) >= Fixed(t)
      [] OTHER -> Len(b) >= Least(t)

\* What it makes of it; octets behind a fixed body are dropped.
ParsedBody(t, critical, b) ==
    LET nameLen == BeU16(SubSeq(b, 5, 6))
        flag(v) == IF v THEN 1 ELSE 0 IN
    [typ |-> t, kind |-> KindOf(t), critical |-> critical,
     name |-> IF t = Notation THEN SubSeq(b, 9, 8 + nameLen) ELSE <<>>,
     val |-> CASE t = Notation -> <<flag(b[1] = 128)>> \o SubSeq(b, 9 + nameLen, NotationEnd(b))
               [] t \in Bools -> <<flag(b[1] = 1)>>
               [] t \notin Bools /\ Fixed(t) > 0 -> Take(b, Fixed(t))
               [] OTHER -> b]

-----------------------------------------------------------------------------
(* Signatures                                                              *)

IsV3(v) == v \in {2, 3}
IsV4(v) == v \in {4, 5}

\* SignatureType::try_from
SignatureTypes == (0..2) \cup (16..19) \cup {24, 25, 31, 32, 40, 48, 64, 80}

\* How many integers actual_signature reads.
ValueCount(pub) == CASE pub \in {1, 3} \cup (100..110) -> 1
                     [] pub \in {17, 19, 22} -> 2
                     [] OTHER -> 0

HeadOf(s) == [version |-> s.version, typ |-> s.typ, pub |-> s.pub, hash |-> s.hash,
              created |-> s.created, issuer |-> s.issuer]

\* SignatureConfig::to_writer_v4: a count keeps the low sixteen bits.
AreaWriter(list) == U16(Len(AreaOctets(list)) % Limit16) \o AreaOctets(list)

\* hash_signature_data.  Only this writer refuses a count that is too large.
\* Mutant: it keeps the low sixteen bits as the other one does.
Hashable16(s) == TRUE
Hashable(s) == IsV4(s.version) => Len(AreaOctets(s.hashed)) < Limit16

HashSignatureData(s) ==
    IF IsV3(s.version) THEN <<s.typ>> \o s.created
    ELSE <<s.version, s.typ, s.pub, s.hash>> \o AreaWriter(s.hashed)

\* trailer: version 5 ends like version 4.
Trailer(s, len) == IF IsV3(s.version) THEN <<>> ELSE <<4, 255>> \o U32(len)

\* All that the hash gets of a signature itself.
Hashed(s) == HashSignatureData(s) \o Trailer(s, Len(HashSignatureData(s)))

ValueWriter(s) == s.left \o FlattenSeq([i \in DOMAIN s.mpis |-> MpiWriter(s.mpis[i])])

\* Signature::to_writer
SignatureWriter(s) ==
    <<s.version>> \o
    (IF IsV3(s.version)
     THEN <<5, s.typ>> \o s.created \o s.issuer \o <<s.pub, s.hash>>
     ELSE <<s.typ, s.pub, s.hash>> \o AreaWriter(s.hashed) \o AreaWriter(s.unhashed))
    \o ValueWriter(s)

Empty(h) == h @@ [hashed |-> <<>>, unhashed |-> <<>>, left |-> <<>>, mpis |-> <<>>]

None == Empty([version |-> 0, typ |-> 0, pub |-> 0, hash |-> 0, created |-> <<>>, issuer |-> <<>>])

-----------------------------------------------------------------------------
(* Building and writing                                                    *)

Init ==
    /\ stage = "config"
    /\ \E h \in Heads : sig = Empty(h)
    /\ signed = <<>>
    /\ raws = <<>>
    /\ rest = <<>>
    /\ area = <<>>
    /\ got = None

Room == Len(sig.hashed) + Len(sig.unhashed) < MaxSubpackets

AddHashed(sp) ==
    /\ stage = "config" /\ Room
    /\ sig' = [sig EXCEPT !.hashed = Append(@, sp)]
    /\ UNCHANGED <<stage, signed, raws, rest, area, got>>

\* The unhashed area may still change once the signature is made.
AddUnhashed(sp) ==
    /\ stage \in {"config", "signed"} /\ Room
    /\ sig' = [sig EXCEPT !.unhashed = Append(@, sp)]
    /\ UNCHANGED <<stage, signed, raws, rest, area, got>>

\* SignatureConfig::sign
Sign(values) ==
    /\ stage = "config"
    /\ Len(values) = ValueCount(sig.pub)
    /\ CASE IsV3(sig.version) /\ sig.created = <<>> ->
                stage' = "panicked" /\ UNCHANGED <<sig, signed>>
         [] ~(IsV3(sig.version) \/ IsV4(sig.version)) \/ ~Hashable(sig) ->
                stage' = "refused" /\ UNCHANGED <<sig, signed>>
         [] OTHER ->
                /\ stage' = "signed"
                /\ signed' = Hashed(sig)
                /\ sig' = [sig EXCEPT !.left = <<170, 85>>,
                               !.mpis = [i \in DOMAIN values |-> StripLeadingZeros(values[i])]]
    /\ UNCHANGED <<raws, rest, area, got>>

ToWriter ==
    /\ stage = "signed"
    /\ IF IsV3(sig.version) /\ sig.issuer = <<>>
       THEN stage' = "panicked" /\ UNCHANGED rest
       ELSE stage' = "wire" /\ rest' = SignatureWriter(sig)
    /\ UNCHANGED <<sig, signed, raws, area, got>>

\* What other implementations hash behind the head: in version 5 there are
\* additional values, of the literal for a signature over data, and another
\* trailer (the draft that hash_signature_data cites).
ForeignTrailer(s, len) ==
    IF s.version = 5
    THEN (IF s.typ \in {0, 1} THEN Zeros(6) ELSE <<>>) \o <<5, 255>> \o Zeros(4) \o U32(len)
    ELSE <<4, 255>> \o U32(len)

\* A signature of another implementation, hashed as it stands on the wire.
Receive(hashed, unhashed, cut) ==
    /\ IsV4(sig.version)
    /\ Len(hashed) + Len(unhashed) <= MaxSubpackets
    /\ LET all(list) == FlattenSeq([i \in DOMAIN list |-> list[i].octets])
           h == Take(all(hashed), Len(all(hashed)) - cut)
           head == <<sig.version, sig.typ, sig.pub, sig.hash>> \o U16(Len(h)) \o h IN
       /\ cut <= Len(all(hashed))
       /\ Len(h) < Limit16
       /\ signed' = head \o ForeignTrailer(sig, Len(head))
       /\ rest' = head \o U16(Len(all(unhashed))) \o all(unhashed) \o <<170, 85>>
                      \o FlattenSeq([i \in 1..ValueCount(sig.pub) |-> MpiWriter(<<1>>)])
    /\ raws' = <<hashed, unhashed, cut>>
    /\ stage' = "wire"
    /\ UNCHANGED <<sig, area, got>>

-----------------------------------------------------------------------------
(* Reading                                                                 *)

End(how) == stage' = how /\ UNCHANGED <<sig, signed, raws, rest, area, got>>

\* parse, v3_parser and the head of v4_parser
ReadHead ==
    LET v == rest[1]
        t == IF IsV3(v) THEN 3 ELSE 2       \* where the signature type is
        size == IF IsV3(v) THEN 17 ELSE 4 IN
    /\ stage = "wire"
    /\ IF /\ IsV3(v) \/ IsV4(v)
          /\ Len(rest) >= size
          /\ IsV3(v) => rest[2] = 5
          /\ rest[t] \in SignatureTypes
       THEN /\ stage' = IF IsV3(v) THEN "value" ELSE "count"
            /\ got' = [None EXCEPT !.version = v, !.typ = rest[t],
                           !.pub = rest[size - 1], !.hash = rest[size],
                           !.created = IF IsV3(v) THEN SubSeq(rest, 4, 7) ELSE <<>>,
                           !.issuer = IF IsV3(v) THEN SubSeq(rest, 8, 15) ELSE <<>>]
            /\ rest' = Drop(rest, size)
            /\ UNCHANGED <<sig, signed, raws, area>>
       ELSE End("error")

\* length_data(be_u16): the hashed area, then the unhashed one.
ReadCount ==
    /\ stage \in {"count", "count2"}
    /\ IF Len(rest) >= 2 /\ Len(rest) >= 2 + BeU16(rest)
       THEN /\ stage' = IF stage = "count" THEN "hashed" ELSE "unhashed"
            /\ area' = SubSeq(rest, 3, 2 + BeU16(rest))
            /\ rest' = Drop(rest, 2 + BeU16(rest))
            /\ UNCHANGED <<sig, signed, raws, got>>
       ELSE End("error")

\* The closure of subpackets: length, type and body are there and parse.
Framed(a) ==
    LET n == LengthSize(a)
        len == PacketLength(a) IN
    /\ n > 0 /\ Len(a) > n
    /\ len > 0 /\ Len(a) - n >= len
    /\ BodyParses(FromU8(a[n + 1])[1], SubSeq(a, n + 2, n + len))

\* take(len - 1): a length of zero overflows.
\* Mutant: take(len - 2), as if the length counted itself.
ZeroLengthItself(a) ==
    LengthSize(a) > 0 /\ Len(a) > LengthSize(a) /\ PacketLength(a) < 2
ZeroLength(a) == LengthSize(a) > 0 /\ Len(a) > LengthSize(a) /\ PacketLength(a) = 0

ReadSubpacket ==
    /\ stage \in {"hashed", "unhashed"}
    /\ Framed(area)
    /\ LET n == LengthSize(area)
           len == PacketLength(area)
           t == FromU8(area[n + 1])
           sp == ParsedBody(t[1], t[2], SubSeq(area, n + 2, n + len)) IN
       /\ got' = IF stage = "hashed" THEN [got EXCEPT !.hashed = Append(@, sp)]
                                     ELSE [got EXCEPT !.unhashed = Append(@, sp)]
       /\ area' = Drop(area, n + len)
    /\ UNCHANGED <<stage, sig, signed, raws, rest>>

\* many0 stops at the end of the area or at the first subpacket it cannot
\* read; map_parser drops what is left.
EndArea ==
    /\ stage \in {"hashed", "unhashed"}
    /\ ~Framed(area)
    /\ stage' = IF stage = "hashed" THEN "count2" ELSE "value"
    /\ area' = <<>>
    /\ UNCHANGED <<sig, signed, raws, rest, got>>

\* With overflow checks compiled in, a length of zero panics instead.
ReadZeroLength ==
    /\ stage \in {"hashed", "unhashed"}
    /\ ZeroLength(area)
    /\ End("panicked")

\* The hash prefix and actual_signature; octets behind it are ignored.
ReadValue ==
    LET n == ValueCount(got.pub)
        first == Drop(rest, 2)
        second == Drop(first, MpiSize(first)) IN
    /\ stage = "value"
    /\ IF /\ Len(rest) >= 2
          /\ n >= 1 => MpiSize(first) > 0
          /\ n = 2 => MpiSize(second) > 0
       THEN /\ stage' = "read"
            /\ got' = [got EXCEPT !.left = Take(rest, 2),
                           !.mpis = CASE n = 0 -> <<>>
                                      [] n = 1 -> <<MpiValue(first)>>
                                      [] n = 2 -> <<MpiValue(first), MpiValue(second)>>]
            /\ UNCHANGED <<sig, signed, raws, rest, area>>
       ELSE End("error")

Next ==
    \/ \E sp \in Subpackets : AddHashed(sp) \/ AddUnhashed(sp)
    \/ \E v, w \in RawValues : Sign(Take(<<v, w>>, ValueCount(sig.pub)))
    \/ ToWriter
    \/ stage = "config" /\ sig = Empty(HeadOf(sig)) /\ \E hashed \in SeqOf(RawSubpackets, MaxSubpackets),
            unhashed \in SeqOf(RawSubpackets, 1), cut \in 0..1 : Receive(hashed, unhashed, cut)
    \/ ReadHead
    \/ ReadCount
    \/ ReadSubpacket
    \/ EndArea
    \/ ReadZeroLength
    \/ ReadValue

Spec == Init /\ [][Next]_vars

-----------------------------------------------------------------------------
(* Properties                                                              *)

IsForeign == raws # <<>>

\* The hash over what was read is the hash that was signed.
Verifies == Hashable(got) /\ Hashed(got) = signed

\* A preferred key server that is not ASCII: its length is counted in
\* characters and its octets are written.
NonAsciiServer(sp) == sp.kind = "Known" /\ sp.typ = 24 /\ Chars(sp.val) < Len(sp.val)

\* What the writer or the type does not carry through: key servers that are
\* not ASCII, times beyond a u32 and variants with a number of another.
Lossy(sp) ==
    \/ NonAsciiServer(sp)
    \/ sp.kind = "Known" /\ sp.typ \in Times /\ Len(sp.val) > 4
    \/ sp.kind # KindOf(sp.typ % 128) \/ sp.typ > 127

\* A signature made here is read back as it was, in both areas, or was never
\* signed at all.
RoundTrip ==
    stage \in {"read", "error"} /\ ~IsForeign =>
        \/ stage = "read" /\ got = sig
        \/ \E sp \in Range(sig.hashed \o sig.unhashed) : Lossy(sp)
        \/ Len(AreaOctets(sig.unhashed)) >= Limit16
        \/ IsV3(sig.version) /\ sig.hashed \o sig.unhashed # <<>>

\* What another implementation put into one subpacket of the wire.
Reported(sp, raw) == sp.typ = raw.typ /\ sp.critical = raw.critical

\* The reader stops silently at a subpacket it cannot read.  Whatever it has
\* skipped, normalised or cut off, a signature that verifies has told its
\* reader of every subpacket that was signed, in order.
VerifiedIsReported ==
    stage = "read" /\ IsForeign /\ Verifies =>
        /\ Len(got.hashed) = Len(raws[1])
        /\ \A i \in DOMAIN got.hashed : Reported(got.hashed[i], raws[1][i])

\* A genuine version 4 signature of another implementation verifies here when
\* its hashed subpackets are well formed and written the shortest way, whatever
\* the unhashed area holds; but for a key server that is not ASCII, which is
\* read and then hashed with another length.  (Version 5 is hashed like
\* version 4, so that no genuine one verifies.)
GenuineVerifies ==
    stage \in {"read", "error"} /\ IsForeign /\ raws[3] = 0 /\ sig.version = 4
        => \/ stage = "read" /\ Verifies
           \/ \E i \in DOMAIN raws[1] : ~raws[1][i].canonical
           \/ \E i \in DOMAIN got.hashed : NonAsciiServer(got.hashed[i])

\* The reader never panics on what the writer wrote, from whatever subpackets:
\* no length is zero where the reader looks for one.  The octets of a key
\* server that is not ASCII reach behind its length, and are taken for a
\* subpacket.  (Octets of other writers may well have a length of zero.)
ReaderSurvivesWriter ==
    stage = "panicked" /\ ~IsForeign /\ got # None
        => \E sp \in Range(sig.hashed \o sig.unhashed) : NonAsciiServer(sp)

=============================================================================
