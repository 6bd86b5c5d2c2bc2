-------------------------- MODULE MCMessageParser --------------------------
(* Streams for MessageParser: every sequence over the tags of interest up  *)
(* to a length, and the packets of every message of a few layers.          *)
EXTENDS MessageParser

CONSTANTS MaxLen, MaxLayers, Tags

\* Number the items of a stream of tags by their place.
Numbered(tags) == [i \in DOMAIN tags |-> [id |-> i, tag |-> tags[i]]]

AnyStream == { Numbered(t) : t \in UNION { [1..n -> Tags] : n \in 0..MaxLen } }

\* Messages by the shape of their layers (TRUE: one-pass) and their core.
Cores == { <<"LiteralData">>, <<"CompressedData">>,
           <<"PublicKeyEncryptedSessionKey", "SymEncryptedProtectedData">>,
           <<"SymKeyEncryptedSessionKey", "PublicKeyEncryptedSessionKey",
             "SymKeyEncryptedSessionKey", "SymEncryptedData">> }
Shapes == UNION { [1..n -> BOOLEAN] : n \in 0..MaxLayers }

\* A layer opens with its one-pass signature or its prefix signature (place
\* i), and place e - (number of one-pass layers outside it) closes it.
Build(shape, core) ==
    LET n == Len(shape)
        c == Len(core)
        onePass == { i \in 1..n : shape[i] }
        last == n + c + Cardinality(onePass)
        It(i, tag) == [id |-> i, tag |-> tag]
        closing(i) == last - Cardinality({ j \in onePass : j < i })
        layer(i) == IF shape[i]
                    THEN [ops |-> <<It(i, "OnePassSignature")>>,
                          sig |-> It(closing(i), "Signature")]
                    ELSE [ops |-> <<>>, sig |-> It(i, "Signature")]
        packets == [i \in 1..c |-> It(n + i, core[i])] IN
    [layers |-> [i \in 1..n |-> layer(i)],
     core |-> [esk |-> SubSeq(packets, 1, c - 1), data |-> <<packets[c]>>]]

BuiltMessages == { Build(s, c) : s \in Shapes, c \in Cores }

AllStreams == AnyStream \cup { Reading(m) : m \in BuiltMessages }
=============================================================================
