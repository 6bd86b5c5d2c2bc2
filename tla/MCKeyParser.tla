---------------------------- MODULE MCKeyParser ----------------------------
(* Inputs for KeyParser: short sequences of any packets, and key rings put *)
(* together from parts a key may have, with at most one packet ignored.    *)
EXTENDS KeyParser

CONSTANTS MaxTail, DropTags

K(tag, v4, typ) == [tag |-> tag, v4 |-> v4, typ |-> typ]

Pub == K("PublicKey", TRUE, "none")
Pub3 == K("PublicKey", FALSE, "none")
Sec == K("SecretKey", TRUE, "none")
Uid == K("UserId", FALSE, "none")
Attr == K("UserAttribute", FALSE, "none")
PubSub == K("PublicSubkey", TRUE, "none")
SecSub == K("SecretSubkey", TRUE, "none")
Rev == K("Signature", FALSE, "KeyRevocation")
Cert == K("Signature", FALSE, "Cert")
Direct == K("Signature", FALSE, "Other")
Bind == K("Signature", FALSE, "SubkeyBinding")
SubRev == K("Signature", FALSE, "SubkeyRevocation")
Trust == K("Other", FALSE, "none")
Bad == K("Err", FALSE, "none")

AnyKind == {Pub, Pub3, Sec, Uid, Attr, PubSub, SecSub, Rev, Cert, Direct, Bind, Trust, Bad}

Numbered(ks) ==
    [i \in DOMAIN ks |-> [id |-> i, tag |-> ks[i].tag, v4 |-> ks[i].v4, typ |-> ks[i].typ]]

AnyOrder ==
    { Numbered(<<k>> \o t) :
        k \in {Pub, Pub3, Sec, Trust}, t \in UNION { [1..n -> AnyKind] : n \in 0..MaxTail } }

\* Rings: a primary key, its signatures, users, subkeys, and what comes next.
Rings ==
    { Numbered(p \o s \o u \o b \o n) :
        p \in { <<Pub>>, <<Sec>>, <<Pub3>> },
        s \in { <<>>, <<Rev, Direct>> },
        u \in { <<>>, <<Uid, Cert, Attr, Cert, Uid, Direct, Cert>>, <<Attr, Uid, Cert>> },
        b \in { <<>>, <<PubSub, Bind, PubSub, SubRev, Cert>>, <<SecSub, Bind, PubSub, Cert, SecSub, Bind>> },
        n \in { <<>>, <<Pub, Uid, Cert>>, <<Bad, Sec, Uid, Cert>>, <<Trust, Pub, Cert>> } }

Dropping(s) ==
    { [written |-> s, ignored |-> {}] } \cup
    { [written |-> s, ignored |-> {s[i].id}] : i \in { j \in DOMAIN s : s[j].tag \in DropTags } }

AllInputs == UNION { Dropping(s) : s \in Rings } \cup
             { [written |-> s, ignored |-> {}] : s \in AnyOrder }
=============================================================================
