--------------------------- MODULE MCPacketParser ---------------------------
(* Sources for PacketParser: sequences of packets of every framing, cut at *)
(* every place, ending in end-of-file or in a read error.                  *)
EXTENDS PacketParser, SequencesExt, FiniteSets

CONSTANTS MaxPackets, Cuts

\* A packet: its type, its framing and the class of its body.  chunks are the
\* sizes of the partial chunks, n the size of the last (or only) part.
Pkt(tag, kind, chunks, n, cls) ==
    [tag |-> tag, kind |-> kind, chunks |-> chunks, n |-> n, cls |-> cls]

FixedPackets ==
    { Pkt("Signature", "Fixed", <<>>, n, c) : n \in {0, 1, 3}, c \in {"ok", "unsupported"} }
    \cup { Pkt("Signature", "Fixed", <<>>, 2, c) : c \in {"incomplete", "curve", "invalid"} }
    \cup { Pkt("Marker", "Fixed", <<>>, 1, "ok") }

PartialPackets ==
    { Pkt("LiteralData", "Partial", ch, n, "ok") :
         ch \in {<<2>>, <<2, 1>>, <<1>>}, n \in {0, 1} }
    \cup { Pkt("LiteralData", "Partial", <<2>>, 3, c) : c \in {"incomplete", "invalid"} }
    \cup { Pkt("Signature", "Partial", <<2>>, 1, "ok") }


IndeterminatePackets ==
    { Pkt("CompressedData", "Indeterminate", <<>>, n, c) : n \in {0, 2, 3}, c \in {"ok", "incomplete"} }

Junk == { Pkt("Other", "Fixed", <<>>, 0, "ok") }

Empty == [cells |-> <<>>, hdrs |-> {0}, lens |-> {}, cls |-> <<>>,
          body |-> <<>>, pre |-> <<>>, owner |-> <<>>, end |-> "eof"]

NoTag == "Other"
HdrCell(p, kind, n) == [k |-> IF p \in Junk THEN "bad" ELSE "hdr",
                        tag |-> p.tag, kind |-> kind, n |-> n, id |-> 0]
LenCell(kind, n) == [k |-> "len", tag |-> NoTag, kind |-> kind, n |-> n, id |-> 0]
CutCell == [k |-> "cut", tag |-> NoTag, kind |-> "Fixed", n |-> 0, id |-> 0]
Bytes(from, n) ==
    [i \in 1..n |-> [k |-> "byte", tag |-> NoTag, kind |-> "Fixed", n |-> 0, id |-> from + i]]

\* Lay out packet p behind the cells of s.
AddChunk(h, acc, size, kind) ==
    LET off == Len(acc.cells)
        b == Bytes(off + 1, size) IN
    [acc EXCEPT
        !.cells = @ \o <<LenCell(kind, size)>> \o b,
        !.lens = @ \cup {off},
        !.pre = (off :> acc.body[h]) @@ @,
        !.owner = (off :> h) @@ @,
        !.body[h] = @ \o b]

AddPacket(s, p) ==
    LET h == Len(s.cells)
        first == IF p.kind = "Partial" THEN p.chunks[1] ELSE p.n
        hdr == HdrCell(p, p.kind, IF p.kind = "Indeterminate" THEN 0 ELSE first)
        b == Bytes(h + 1, first)
        s1 == [s EXCEPT !.cells = @ \o <<hdr>> \o b,
                        !.cls = (h :> p.cls) @@ @,
                        !.body = (h :> b) @@ @]
        s2 == IF p.kind # "Partial" THEN s1
              ELSE AddChunk(h,
                     FoldLeft(LAMBDA acc, size : AddChunk(h, acc, size, "Partial"),
                              s1, Tail(p.chunks)),
                     p.n, "Fixed")
        end == Len(s2.cells) IN
    [s2 EXCEPT !.hdrs = @ \cup {end},
               !.cls = (end :> "ok") @@ @,
               !.body = (end :> <<>>) @@ @]

Start == [Empty EXCEPT !.cls = (0 :> "ok"), !.body = (0 :> <<>>)]

LayOut(ps) == FoldLeft(AddPacket, Start, ps)

\* The source s, cut behind its first n cells; with split, also with the first
\* octets of the header or length that comes next.
CutAt(s, n, split, end) ==
    LET cells == SubSeq(s.cells, 1, n) \o (IF split THEN <<CutCell>> ELSE <<>>)
        toEnd == \E h \in s.hdrs : h < n /\ s.cells[h + 1].kind = "Indeterminate"
        hdrs == { h \in s.hdrs : h <= Len(cells) } \cup
                { h \in s.hdrs : ~toEnd } \cup (IF toEnd THEN {Len(cells)} ELSE {}) IN
    [s EXCEPT !.cells = cells,
              !.hdrs = hdrs,
              !.cls = [h \in hdrs |-> IF h \in s.hdrs THEN s.cls[h] ELSE "ok"],
              !.body = [h \in hdrs |->
                          IF h < n /\ s.cells[h + 1].kind = "Indeterminate"
                          THEN SubSeq(cells, h + 2, Len(cells))
                          ELSE IF h \in s.hdrs THEN s.body[h] ELSE <<>>],
              !.end = end]

CutsOf(s) ==
    LET L == Len(s.cells) IN
    IF Cuts
    THEN { CutAt(s, n, FALSE, end) : n \in 0..L, end \in {"eof", "err"} }
         \cup { CutAt(s, n, TRUE, end) :
                  n \in { m \in 0..(L-1) : s.cells[m + 1].k \in {"hdr", "len"} },
                  end \in {"eof", "err"} }
    ELSE { CutAt(s, L, FALSE, "eof") }

\* Sources of packets of the set P, with a packet of the set Q at the end.
SourcesOf(P, Q) ==
    UNION { CutsOf(LayOut(Append(ps, q))) : ps \in BoundedSeq(P, MaxPackets - 1), q \in Q }

AnyFraming == SourcesOf(FixedPackets \cup PartialPackets,
                        FixedPackets \cup PartialPackets \cup IndeterminatePackets \cup Junk)
=============================================================================
