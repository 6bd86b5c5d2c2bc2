------------------------------ MODULE MCDearmor ------------------------------
(* Texts for Dearmor: what the writer makes of payloads of some lengths,   *)
(* with and without headers and checksum, wrong footers, lines the writer  *)
(* lost, cut anywhere, and with a source that fails anywhere.              *)
EXTENDS Dearmor

CONSTANTS Lens, Headers, FailLens

Block(lead, headers, len, lost, sum, typ, after) ==
    LET kept == Quads(len) * 4 - lost * LineLen
        cells == lead \o Armored(1, headers, len, lost, sum, typ) \o after IN
    [cells |-> cells, fail |-> 0, payload |-> Payload(1, len),
     body |-> IF lost = 0 THEN Payload(1, len) ELSE SubSeq(Payload(1, len), 1, (kept \div 4) * 3),
     hdr |-> Len(lead) + Len(WriteHeader(headers)), sum |-> sum # "none", whole |-> TRUE,
     sound |-> lost = 0 /\ sum # "badcrc" /\ typ = "end"]

NoLead == <<>>
Lead == <<C("text")>>

Sums == {"none", "crc", "badcrc"}

Whole == { Block(l, h, n, 0, s, t, <<>>) :
             l \in {NoLead, Lead}, h \in Headers, n \in Lens, s \in Sums, t \in {"end", "otherend"} }

\* The writer's nested writers lost the last line.
Torn == { Block(NoLead, 0, n, 1, s, "end", <<>>) : n \in { m \in Lens : Quads(m) * 4 > LineLen }, s \in {"none", "crc"} }

Cut(t, n) == [t EXCEPT !.cells = SubSeq(@, 1, n), !.whole = FALSE, !.sound = FALSE]
Failing1(t, n) == [t EXCEPT !.fail = n, !.sound = FALSE]

Some(n) == Block(NoLead, 1, n, 0, "crc", "end", <<>>)
AllCuts == UNION { { Cut(Some(n), c) : c \in 1..(Len(Some(n).cells) - 1) } : n \in FailLens }
AllFails == UNION { { Failing1(Some(n), c) : c \in 1..Len(Some(n).cells) } : n \in FailLens }

\* A second block with a header line behind the first.
Followed == { Block(NoLead, h, n, 0, "crc", "end", Armored(2, 1, n, 0, "crc", "end")) : h \in Headers, n \in FailLens }

AllTexts == Whole \cup Torn \cup AllCuts \cup AllFails \cup Followed
=============================================================================
