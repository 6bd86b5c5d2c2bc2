--------------------------- MODULE MCCertificates ---------------------------
(***************************************************************************)
(* Certificates for TLC: a key with two users, an attribute and a subkey   *)
(* to sign and rearrange, and keys of every type, version and flag with    *)
(* less around them.                                                       *)
(***************************************************************************)
EXTENDS Certificates

Rsa == [alg |-> "Rsa", good |-> TRUE]
Ecdh == [alg |-> "ECDH", good |-> TRUE]

Subkey(kt, v, flags) == [kt |-> kt, v |-> v, exp |-> FALSE, pw |-> "other", flags |-> flags]

\* The attribute has the content of the second user ID.
Full(kt, uids, subkeys) ==
    [kt |-> kt, v |-> "V4", exp |-> FALSE, pw |-> "right", flags |-> {"sign", "certify"},
     prefs |-> "some", rkey |-> TRUE, uid |-> "alice", uids |-> uids, attrs |-> <<"bob">>,
     subkeys |-> subkeys]

Small(kt, v, exp, flags) ==
    [kt |-> kt, v |-> v, exp |-> exp, pw |-> "", flags |-> flags,
     prefs |-> "none", rkey |-> FALSE, uid |-> "alice", uids |-> <<>>, attrs |-> <<>>,
     subkeys |-> <<>>]

FullParams ==
    {Full(Rsa, <<"bob">>, <<Subkey(Ecdh, "V4", {"encrypt"})>>),
     Full(Rsa, <<>>, <<Subkey(Rsa, "V4", {"sign"}), Subkey(Ecdh, "V4", {"encrypt"})>>)}

OddParams ==
    {Full(Rsa, <<>>, <<Subkey(Ecdh, "V5", {})>>), Full(Rsa, <<>>, <<Subkey(Rsa, "V3", {})>>),
     Full(Rsa, <<>>, <<Subkey([Ecdh EXCEPT !.good = FALSE], "V4", {})>>)}

SmallParams ==
    {Small(kt, v, exp, flags) :
        kt \in KeyType, v \in {"V3", "V4", "V5"}, exp \in BOOLEAN,
        flags \in {{"sign"}, {"certify"}, {"encrypt"}, {}}}

MCParams == FullParams \cup OddParams \cup SmallParams
MCSubkeyNames == <<"S1", "S2">>
MCThirdKey == [name |-> "T", kt |-> Rsa, v |-> "V4", exp |-> FALSE, pw |-> ""]
=============================================================================
