-------------------------- MODULE MCSignaturePacket --------------------------
(***************************************************************************)
(* SignaturePacket for TLC: a subpacket of every class a caller can build, *)
(* and octets as other implementations write them, odd ones included.      *)
(***************************************************************************)
EXTENDS SignaturePacket

Sub(typ, critical, val) ==
    [typ |-> typ, kind |-> KindOf(typ), critical |-> critical, name |-> <<>>, val |-> val]

Long(n) == [i \in 1..n |-> 7]

MCSubpackets ==
    {Sub(2, TRUE, <<1, 2, 3, 4>>), Sub(3, FALSE, <<1, 0, 0, 0, 5>>), Sub(2, FALSE, <<1, 0, 0, 0, 5>>),
     Sub(25, FALSE, <<1>>), Sub(7, FALSE, <<0>>), Sub(5, FALSE, <<1, 60>>),
     Sub(12, FALSE, <<192, 1>> \o Long(20)), Sub(16, FALSE, Long(8)),
     Sub(11, FALSE, <<9, 8>>), Sub(27, TRUE, <<>>), Sub(29, FALSE, <<2>>), Sub(31, FALSE, <<1, 8, 7>>),
     Sub(24, FALSE, <<97, 98>>), Sub(24, FALSE, <<195, 169, 98>>), Sub(24, FALSE, <<195, 169, 0>>), Sub(26, FALSE, <<195, 169>>),
     Sub(33, FALSE, <<4, 7>>), Sub(101, TRUE, <<1>>), Sub(99, FALSE, <<1>>), Sub(28, FALSE, Long(191)),
     [Sub(25, FALSE, <<0, 9>>) EXCEPT !.kind = "Other"], [Sub(200, FALSE, <<9>>) EXCEPT !.kind = "Other"],
     [Sub(20, TRUE, <<1, 66, 67>>) EXCEPT !.name = <<65>>]}

\* octets: as they stand; canonical: well formed and written the shortest way.
Raw(typ, critical, canonical, octets) ==
    [typ |-> typ, critical |-> critical, canonical |-> canonical, octets |-> octets]

MCRawSubpackets ==
    {Raw(2, FALSE, TRUE, <<5, 2, 1, 2, 3, 4>>), Raw(2, FALSE, FALSE, <<255, 0, 0, 0, 5, 2, 1, 2, 3, 4>>),
     Raw(2, FALSE, FALSE, <<6, 2, 1, 2, 3, 4, 9>>), Raw(2, FALSE, FALSE, <<3, 2, 1, 2>>),
     Raw(25, TRUE, TRUE, <<2, 153, 1>>), Raw(25, FALSE, FALSE, <<2, 25, 2>>),
     Raw(20, FALSE, TRUE, <<11, 20, 128, 0, 0, 0, 0, 1, 0, 1, 65, 66>>),
     Raw(20, FALSE, FALSE, <<11, 20, 1, 0, 0, 0, 0, 1, 0, 1, 65, 66>>),
     Raw(20, FALSE, FALSE, <<11, 20, 128, 0, 1, 0, 0, 1, 0, 1, 65, 66>>),
     Raw(20, FALSE, FALSE, <<11, 20, 128, 0, 0, 0, 0, 1, 0, 9, 65, 66>>),
     Raw(26, FALSE, TRUE, <<3, 26, 195, 169>>), Raw(26, FALSE, FALSE, <<2, 26, 195>>),
     Raw(24, FALSE, TRUE, <<2, 24, 97>>), Raw(24, FALSE, TRUE, <<3, 24, 195, 169>>),
     Raw(33, FALSE, TRUE, <<3, 33, 4, 7>>), Raw(29, FALSE, FALSE, <<1, 29>>),
     Raw(12, FALSE, FALSE, <<23, 12, 64, 1>> \o Long(20)),
     Raw(28, FALSE, TRUE, <<192, 0, 28>> \o Long(191)), Raw(60, FALSE, TRUE, <<2, 60, 5>>),
     Raw(0, FALSE, FALSE, <<0, 2>>), Raw(0, FALSE, TRUE, <<1, 0>>)}

H(version, typ, pub) ==
    [version |-> version, typ |-> typ, pub |-> pub, hash |-> 8, created |-> <<>>, issuer |-> <<>>]
Old(version) == [H(version, 0, 1) EXCEPT !.created = <<1, 2, 3, 4>>, !.issuer = Long(8)]

MCHeads == {H(4, 0, 1), H(4, 19, 22), H(5, 24, 16), H(5, 0, 1), H(9, 0, 1), Old(3), Old(2), H(3, 0, 1),
            [Old(3) EXCEPT !.issuer = <<>>]}
MCRawValues == {<<0, 0, 5, 1>>, <<200, 0>>}
=============================================================================
