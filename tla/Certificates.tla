---------------------------- MODULE Certificates ----------------------------
(***************************************************************************)
(* Certificates: how a key is generated from parameters, how its users,    *)
(* attributes and subkeys are certified, and what verify() makes of the    *)
(* result (src/composed/key, src/composed/signed_key, src/types/user.rs    *)
(* and the signing and verifying halves of src/packet/signature).          *)
(*                                                                         *)
(* A key is a name with its algorithm, version and password; a hash is     *)
(* what was hashed; a signature value is the key that made it and the      *)
(* hash.  The three preference lists are one value.  Subpackets an         *)
(* accessor cannot tell from an absent one are left out.                   *)
(*                                                                         *)
(* The fields of a certificate are public, so its owner may also make      *)
(* loose signatures, put one behind any component, take one away, and      *)
(* write the certificate out and read it back.                             *)
(***************************************************************************)
EXTENDS Integers, Sequences, Functions, Selection

CONSTANTS
    Params,     \* SecretKeyParams to start from
    SubkeyNames,\* names for the subkeys, in their order
    ThirdKey,   \* the key of somebody else
    Versions,   \* versions of the loose signatures
    MaxEdits    \* bound on what is done to a certificate once signed

Algorithms == {"Rsa", "ECDH", "EdDSA", "ECDSA", "Dsa"}

\* good: an RSA key of 2048 bits or more, a supported curve.
KeyType == [alg : Algorithms, good : BOOLEAN]

Flags == {"sign", "certify", "encrypt", "auth"}

\* pw: the password, or "" for plain secret parameters; exp: it has an
\* expiration (only keys of the old versions keep one).
Key == [name : STRING, kt : KeyType, v : {"V3", "V4", "V5"}, exp : BOOLEAN, pw : STRING]

\* SecretKeyParams and SubkeyParams.
SubkeyParam == [kt : KeyType, v : {"V3", "V4", "V5"}, exp : BOOLEAN, pw : STRING, flags : SUBSET Flags]
Param ==
    [kt : KeyType, v : {"V3", "V4", "V5"}, exp : BOOLEAN, pw : STRING, flags : SUBSET Flags,
     prefs : STRING, rkey : BOOLEAN, uid : STRING, uids : Seq(STRING), attrs : Seq(STRING),
     subkeys : Seq(SubkeyParam)]

PrimaryName == "P"
KeyNames == {PrimaryName, ThirdKey.name} \cup Range(SubkeyNames)

ASSUME KeysAssumption ==
    /\ SubkeyNames \in Seq(STRING) /\ Versions \subseteq {"V3", "V4"} /\ MaxEdits \in Nat
    /\ ThirdKey \in Key /\ ThirdKey.v = "V4"
    /\ ThirdKey.name # PrimaryName
    /\ Range(SubkeyNames) \cap {PrimaryName, ThirdKey.name} = {}

\* No user ID or attribute has the octets of a key: certifications of the old
\* versions could not tell them apart.
ASSUME ParamsAssumption ==
    /\ Params \subseteq Param
    /\ \A p \in Params :
         /\ Len(p.subkeys) <= Len(SubkeyNames)
         /\ ({p.uid} \cup Range(p.uids) \cup Range(p.attrs)) \cap KeyNames = {}

VARIABLES
    stage,     \* "start", "unsigned", "signed", "failed" or "panicked"
    asked,     \* the parameters
    unsigned,  \* SecretKey or PublicKey, not signed
    cert,      \* SignedSecretKey or SignedPublicKey
    pool,      \* at most one loose signature
    made,      \* what was signed so far, and by whom
    fresh,     \* cert is what sign() of its own key returned
    kept,      \* no signature was moved or put first, one user is primary
    edits

vars == <<stage, asked, unsigned, cert, pool, made, fresh, kept, edits>>

-----------------------------------------------------------------------------
(* Key generation.                                                         *)

\* SecretKeyParamsBuilder::validate, on the primary key only.
\* Mutant: EdDSA keys are not looked at.
ValidateNoEdDSA(p) ==
    /\ p.kt.alg = "Rsa" => p.kt.good
    /\ p.kt.alg \in {"ECDSA", "Dsa"} => "encrypt" \notin p.flags
    /\ p.kt.alg = "ECDSA" => p.kt.good
    /\ p.kt.alg = "ECDH" => "sign" \notin p.flags
Validate(p) ==
    /\ p.kt.alg = "Rsa" => p.kt.good
    /\ p.kt.alg \in {"EdDSA", "ECDSA", "Dsa"} => "encrypt" \notin p.flags
    /\ p.kt.alg = "ECDSA" => p.kt.good
    /\ p.kt.alg = "ECDH" => "sign" \notin p.flags

\* KeyType::generate: unsupported curves fail.
Generates(kt) == kt.alg \in {"ECDH", "ECDSA"} => kt.good

NewKey(name, p) == [name |-> name, kt |-> p.kt, v |-> p.v, exp |-> p.exp, pw |-> p.pw]

\* SecretKeyParams::generate
GenerateKey(p) ==
    [secret |-> TRUE, primary |-> NewKey(PrimaryName, p), uid |-> p.uid, uids |-> p.uids,
     attrs |-> p.attrs, flags |-> p.flags, prefs |-> p.prefs, rkey |-> p.rkey, pubsubs |-> <<>>,
     secsubs |-> [i \in DOMAIN p.subkeys |->
                    [key |-> NewKey(SubkeyNames[i], p.subkeys[i]), flags |-> p.subkeys[i].flags]]]

-----------------------------------------------------------------------------
(* Signatures.                                                             *)

\* The hashed subpackets: IsPrimary, KeyFlags, preferences, RevocationKey
\* and IssuerFingerprint.
NoSub == [primary |-> FALSE, flags |-> {}, prefs |-> "none", rkey |-> FALSE, fp |-> "none"]

CertTypes == {"CertGeneric", "CertPositive", "CertRevocation"}

\* hash_signature_data: signatures of the old versions have no subpackets.
HashOf(v, typ, sub, parts) ==
    [parts |-> parts, typ |-> typ, sub |-> IF v = "V3" THEN NoSub ELSE sub]

Signature(v, typ, sub, issuers, by, parts) ==
    [v |-> v, typ |-> typ, sub |-> sub, issuers |-> issuers,
     value |-> [by |-> by.name, hash |-> HashOf(v, typ, sub, parts)]]

\* What a certification hashes: the key, a prefix for the kind of packet
\* (not in the old versions) and the packet's content.
\* Mutant: no prefix.
CertPartsBare(v, key, tag, id) == <<key.name, id>>
CertParts(v, key, tag, id) == IF v = "V3" THEN <<key.name, id>> ELSE <<key.name, tag, id>>

\* sign_key_binding: the signing key first.
\* Mutant: the other way round.
BindingPartsSwapped(signer, key) == <<key.name, signer.name>>
BindingParts(signer, key) == <<signer.name, key.name>>

KeyParts(key) == <<key.name>>

\* match_identity
MatchIdentity(s, key) ==
    LET named == s.issuers \cup ({s.sub.fp} \ {"none"}) IN
    named = {} \/ key.name \in named

SignatureVerifies(s, key, parts) ==
    s.value = [by |-> key.name, hash |-> HashOf(s.v, s.typ, s.sub, parts)]

\* verify_third_party_certification
VerifyThirdParty(s, signee, signer, tag, id) ==
    /\ MatchIdentity(s, signer)
    /\ SignatureVerifies(s, signer, CertParts(s.v, signee, tag, id))

VerifyCertification(s, key, tag, id) == VerifyThirdParty(s, key, key, tag, id)

\* verify_key_binding_internal: the primary key first, whoever signs.
VerifyBinding(s, signer, signee, backsig) ==
    SignatureVerifies(s, signer, IF backsig THEN <<signee.name, signer.name>>
                                 ELSE <<signer.name, signee.name>>)

VerifyKey(s, key) == MatchIdentity(s, key) /\ SignatureVerifies(s, key, KeyParts(key))

-----------------------------------------------------------------------------
(* Signing a key.                                                          *)

\* fingerprint() and key_id() of keys that are not of version 4.
NamePanics(k) == k.v = "V5" \/ (k.v = "V3" /\ k.kt.alg # "Rsa")

\* to_writer_old() of a key that is hashed.
HashKey(k) ==
    CASE k.v = "V3" /\ ~k.exp -> "panic"
      [] k.v = "V5" -> "err"
      [] OTHER -> "ok"

\* unlock(), and the algorithms create_signature knows.
CanSign(k, pw) == (k.pw = "" \/ k.pw = pw) /\ k.kt.alg # "ECDH"

Least(is) == CHOOSE i \in is : \A j \in is : i <= j

\* The first result that is not "ok", if there is one.
FirstBad(rs) ==
    LET bad == { i \in DOMAIN rs : rs[i] # "ok" } IN
    IF bad = {} THEN "ok" ELSE rs[Least(bad)]

SubKeysOf(u) == u.pubsubs \o u.secsubs

\* What sign() of a SecretKey or PublicKey returns: the users come first, so
\* the signing key is needed before any subkey is looked at.
SignResult(u, signer, pw) ==
    IF NamePanics(signer) THEN "panic"
    ELSE FirstBad(<<HashKey(signer), IF CanSign(signer, pw) THEN "ok" ELSE "err">> \o
                  [i \in DOMAIN SubKeysOf(u) |-> HashKey(SubKeysOf(u)[i].key)])

UserSub(u, signer, primary) ==
    [primary |-> primary, flags |-> u.flags, prefs |-> u.prefs,
     rkey |-> primary /\ u.rkey, fp |-> signer.name]

SignUser(u, signer, id, primary) ==
    [id |-> id,
     sigs |-> <<Signature("V4", "CertGeneric", UserSub(u, signer, primary), {signer.name}, signer,
                          CertParts("V4", signer, "UserId", id))>>]

SignAttribute(signer, id) ==
    [id |-> id, sigs |-> <<Signature("V4", "CertGeneric", NoSub, {signer.name}, signer,
                                     CertParts("V4", signer, "UserAttribute", id))>>]

SignSubkey(signer, s) ==
    [key |-> s.key,
     sigs |-> <<Signature("V4", "SubkeyBinding", [NoSub EXCEPT !.flags = s.flags, !.fp = signer.name],
                          {signer.name}, signer, BindingParts(signer, s.key))>>]

\* KeyDetails::sign and the sign() of the subkeys; nothing is revoked.
SignKey(u, signer) ==
    [secret |-> u.secret, primary |-> u.primary, revs |-> <<>>, directs |-> <<>>,
     users |-> <<SignUser(u, signer, u.uid, TRUE)>> \o
               [i \in DOMAIN u.uids |-> SignUser(u, signer, u.uids[i], FALSE)],
     attrs |-> [i \in DOMAIN u.attrs |-> SignAttribute(signer, u.attrs[i])],
     pubsubs |-> [i \in DOMAIN u.pubsubs |-> SignSubkey(signer, u.pubsubs[i])],
     secsubs |-> [i \in DOMAIN u.secsubs |-> SignSubkey(signer, u.secsubs[i])]]

-----------------------------------------------------------------------------
(* A signed key.                                                           *)

\* SignedUser::verify, SignedUserAttribute::verify and verify of a subkey: all
\* signatures, and at least one.
VerifyUser(user, key) ==
    /\ user.sigs # <<>>
    /\ \A s \in Range(user.sigs) : VerifyCertification(s, key, "UserId", user.id)

VerifyAttribute(attr, key) ==
    /\ attr.sigs # <<>>
    /\ \A s \in Range(attr.sigs) : VerifyCertification(s, key, "UserAttribute", attr.id)

VerifySubkey(sub, key) ==
    /\ sub.sigs # <<>>
    /\ \A s \in Range(sub.sigs) : VerifyBinding(s, key, sub.key, FALSE)

\* SignedKeyDetails::verify, and verify() of the certificate.
VerifyDetails(c) ==
    /\ \A i \in DOMAIN c.users : VerifyUser(c.users[i], c.primary)
    /\ \A i \in DOMAIN c.attrs : VerifyAttribute(c.attrs[i], c.primary)
    /\ \A s \in Range(c.revs) \cup Range(c.directs) : VerifyKey(s, c.primary)

VerifySubkeys(subs, key) == \A i \in DOMAIN subs : VerifySubkey(subs[i], key)

VerifyCert(c) ==
    /\ VerifyDetails(c)
    /\ VerifySubkeys(c.pubsubs, c.primary)
    /\ VerifySubkeys(c.secsubs, c.primary)

\* SignedUser::verify_third_party: all signatures of the user.
VerifyUserThirdParty(user, signee, signer) ==
    /\ user.sigs # <<>>
    /\ \A s \in Range(user.sigs) : VerifyThirdParty(s, signee, signer, "UserId", user.id)

\* The new() of users, subkeys and keys: signatures of the wrong type are
\* dropped, and then what has none.
OfTypes(sigs, types) == Select(sigs, { j \in DOMAIN sigs : sigs[j].typ \in types })

Retain(components, types) ==
    LET typed == [i \in DOMAIN components |->
                    [components[i] EXCEPT !.sigs = OfTypes(@, types)]] IN
    Select(typed, { i \in DOMAIN typed : typed[i].sigs # <<>> })

BindingTypes == {"SubkeyBinding", "SubkeyRevocation"}

New(c) ==
    [c EXCEPT !.users = Retain(@, CertTypes), !.attrs = Retain(@, CertTypes),
              !.pubsubs = Retain(@, BindingTypes), !.secsubs = Retain(@, BindingTypes)]

\* SignedPublicKey::new: what has no signature is dropped.
WithSignatures(subs) == Select(subs, { i \in DOMAIN subs : subs[i].sigs # <<>> })

\* From<SignedSecretKey> for SignedPublicKey: users and attributes are moved as
\* they are, and only the signatures of the secret subkeys are looked at.
IntoPublic(c) ==
    [c EXCEPT !.secret = FALSE, !.secsubs = <<>>,
              !.pubsubs = WithSignatures(@) \o Retain(c.secsubs, BindingTypes)]

IsPrimary(user) == \E s \in Range(user.sigs) : s.sub.primary

\* Where the users marked primary are.
Primaries(c) == { i \in DOMAIN c.users : IsPrimary(c.users[i]) }

\* The expect() calls of as_unsigned.
AsUnsignedPanics(c) ==
    \/ c.users = <<>>
    \/ \E i \in DOMAIN SubKeysOf(c) : SubKeysOf(c)[i].sigs = <<>>
    \/ Primaries(c) = {} /\ Head(c.users).sigs = <<>>

PrimaryUser(c) == c.users[IF Primaries(c) = {} THEN 1 ELSE Least(Primaries(c))]

\* Who is left beside the primary user.
\* Mutant: everybody.
OtherUsersAll(c) == c.users
OtherUsers(c) == Select(c.users, DOMAIN c.users \ Primaries(c))

UnsignedSubkeys(subs) ==
    [i \in DOMAIN subs |-> [key |-> subs[i].key, flags |-> Head(subs[i].sigs).sub.flags]]

\* SignedPublicKey::as_unsigned, and public_key() of a SignedSecretKey.
AsUnsigned(c) ==
    LET sub == Head(PrimaryUser(c).sigs).sub
        others == OtherUsers(c) IN
    [secret |-> FALSE, primary |-> c.primary, uid |-> PrimaryUser(c).id,
     uids |-> [i \in DOMAIN others |-> others[i].id],
     attrs |-> [i \in DOMAIN c.attrs |-> c.attrs[i].id],
     flags |-> sub.flags, prefs |-> sub.prefs, rkey |-> sub.rkey,
     pubsubs |-> UnsignedSubkeys(SubKeysOf(c)), secsubs |-> <<>>]

-----------------------------------------------------------------------------
(* What is done to a key, step by step.                                    *)

NoKey == [secret |-> FALSE]

Init ==
    /\ stage = "start" /\ asked \in Params
    /\ unsigned = NoKey /\ cert = NoKey
    /\ pool = <<>> /\ made = {} /\ fresh = FALSE /\ kept = TRUE /\ edits = 0

\* build() and generate(); a subkey whose curve is unsupported fails too.
Generate ==
    /\ stage = "start"
    /\ IF /\ Validate(asked) /\ Generates(asked.kt)
          /\ \A i \in DOMAIN asked.subkeys : Generates(asked.subkeys[i].kt)
       THEN stage' = "unsigned" /\ unsigned' = GenerateKey(asked)
       ELSE stage' = "failed" /\ UNCHANGED unsigned
    /\ UNCHANGED <<asked, cert, pool, made, fresh, kept, edits>>

\* What the signer means to say with the signatures of sign().
Statements(c, signer) ==
    {[by |-> signer.name, about |-> <<signer.name, "UserId", c.users[i].id>>,
      typ |-> "CertGeneric", sub |-> c.users[i].sigs[1].sub] : i \in DOMAIN c.users}
    \cup
    {[by |-> signer.name, about |-> <<signer.name, "UserAttribute", c.attrs[i].id>>,
      typ |-> "CertGeneric", sub |-> NoSub] : i \in DOMAIN c.attrs}
    \cup
    {[by |-> signer.name, about |-> <<signer.name, "Subkey", SubKeysOf(c)[i].key.name>>,
      typ |-> "SubkeyBinding", sub |-> SubKeysOf(c)[i].sigs[1].sub] : i \in DOMAIN SubKeysOf(c)}

\* SecretKey::sign (signer is its primary key) and PublicKey::sign.
Sign(signer, pw) ==
    /\ stage = "unsigned"
    /\ CASE SignResult(unsigned, signer, pw) = "ok" ->
              /\ stage' = "signed" /\ cert' = SignKey(unsigned, signer)
              /\ made' = made \cup Statements(cert', signer)
              /\ fresh' = (signer = unsigned.primary)
         [] SignResult(unsigned, signer, pw) = "err" ->
              stage' = "failed" /\ UNCHANGED <<cert, made, fresh>>
         [] SignResult(unsigned, signer, pw) = "panic" ->
              stage' = "panicked" /\ UNCHANGED <<cert, made, fresh>>
    /\ UNCHANGED <<asked, unsigned, pool, kept, edits>>

SignSecretKey(pw) == unsigned.secret /\ Sign(unsigned.primary, pw)

SignPublicKey(signer, pw) ==
    stage = "unsigned" /\ ~unsigned.secret /\ Sign(signer, pw)

Edit == stage = "signed" /\ edits < MaxEdits /\ edits' = edits + 1

SignedPublic ==
    /\ Edit /\ cert.secret
    /\ cert' = IntoPublic(cert)
    /\ UNCHANGED <<stage, asked, unsigned, pool, made, fresh, kept>>

Unsign ==
    /\ Edit
    /\ kept' = (kept /\ \E i \in DOMAIN cert.users : Primaries(cert) = {i})
    /\ IF AsUnsignedPanics(cert)
       THEN stage' = "panicked" /\ UNCHANGED unsigned
       ELSE stage' = "unsigned" /\ unsigned' = AsUnsigned(cert)
    /\ UNCHANGED <<asked, cert, pool, made, fresh>>

\* Write the certificate and read it back.
Reload ==
    /\ Edit
    /\ cert' = New(cert) /\ cert' # cert
    /\ fresh' = FALSE
    /\ UNCHANGED <<stage, asked, unsigned, pool, made, kept>>

Owner == cert.primary

Loose(s, by, about) ==
    /\ pool' = <<s>>
    /\ made' = made \cup {[by |-> by.name, about |-> about, typ |-> s.typ, sub |-> s.sub]}
    /\ UNCHANGED <<stage, asked, unsigned, cert, fresh, kept>>

\* UserId::sign_third_party and the like: a certification of one's own or
\* somebody else's user ID or attribute.
Certify(signer, signee, tag, id, typ, v, sub) ==
    /\ Edit /\ pool = <<>> /\ CanSign(signer, signer.pw) /\ HashKey(signee) = "ok"
    /\ v = "V3" => sub = NoSub
    /\ Loose(Signature(v, typ, sub, {signer.name}, signer, CertParts(v, signee, tag, id)),
             signer, <<signee.name, tag, id>>)

\* SignatureConfig::sign_key, and sign() of a key packet.
SignKeyItself(signer, key, typ) ==
    /\ Edit /\ pool = <<>> /\ CanSign(signer, signer.pw) /\ HashKey(key) = "ok"
    /\ Loose(Signature("V4", typ, NoSub, {signer.name}, signer, KeyParts(key)),
             signer, IF typ \in {"KeyRevocation", "Key"} THEN <<key.name>>
                     ELSE <<signer.name, "Subkey", key.name>>)

\* SignatureConfig::sign_key_binding
SignKeyBinding(signer, key, typ) ==
    /\ Edit /\ pool = <<>> /\ CanSign(signer, signer.pw)
    /\ ~NamePanics(signer) /\ HashKey(signer) = "ok" /\ HashKey(key) = "ok"
    /\ Loose(Signature("V4", typ, NoSub, {signer.name}, signer, BindingParts(signer, key)),
             signer, <<signer.name, "Subkey", key.name>>)

Components == {"users", "attrs", "pubsubs", "secsubs"}

\* The loose signature put behind a component, first or last.
Place(field, i, first) ==
    /\ Edit /\ pool # <<>> /\ i \in DOMAIN cert[field]
    /\ cert' = [cert EXCEPT ![field][i].sigs = IF first THEN pool \o @ ELSE @ \o pool]
    /\ pool' = <<>> /\ fresh' = FALSE /\ kept' = (kept /\ ~first)
    /\ UNCHANGED <<stage, asked, unsigned, made>>

\* ... or behind the key itself.
PlaceOnKey(field) ==
    /\ Edit /\ pool # <<>>
    /\ cert' = [cert EXCEPT ![field] = @ \o pool]
    /\ pool' = <<>> /\ fresh' = FALSE
    /\ UNCHANGED <<stage, asked, unsigned, made, kept>>

Take(field, i) ==
    /\ Edit /\ pool = <<>> /\ i \in DOMAIN cert[field] /\ cert[field][i].sigs # <<>>
    /\ pool' = <<Head(cert[field][i].sigs)>>
    /\ cert' = [cert EXCEPT ![field][i].sigs = Tail(@)]
    /\ fresh' = FALSE /\ kept' = FALSE
    /\ UNCHANGED <<stage, asked, unsigned, made>>

\* A certificate is left alone, or there is none.
Done ==
    /\ stage \in {"failed", "panicked"} \/ (stage = "signed" /\ edits = MaxEdits)
    /\ UNCHANGED vars

PrimarySub == [NoSub EXCEPT !.primary = TRUE]

MakeCertification ==
    \E signer, signee \in {Owner, ThirdKey} : \E typ \in {"CertPositive", "CertRevocation"} :
    \E v \in Versions : \E sub \in {NoSub, PrimarySub} :
        \/ \E i \in DOMAIN cert.users :
              Certify(signer, signee, "UserId", cert.users[i].id, typ, v, sub)
        \/ \E i \in DOMAIN cert.attrs :
              Certify(signer, signee, "UserAttribute", cert.attrs[i].id, typ, v, sub)

MakeKeySignature ==
    \E signer, key \in {Owner, ThirdKey} : \E typ \in {"KeyRevocation", "Key"} :
        SignKeyItself(signer, key, typ)

MakeBinding ==
    \E i \in DOMAIN SubKeysOf(cert) :
        LET key == SubKeysOf(cert)[i].key IN
        \/ SignKeyItself(Owner, key, "SubkeyBinding") \/ SignKeyItself(key, Owner, "KeyBinding")
        \/ \E signer \in {Owner, ThirdKey} : \E typ \in BindingTypes : SignKeyBinding(signer, key, typ)
        \/ SignKeyBinding(key, Owner, "KeyBinding")

Rearrange ==
    \/ \E field \in Components : \E i \in DOMAIN cert[field] :
          Take(field, i) \/ \E first \in BOOLEAN : Place(field, i, first)
    \/ \E field \in {"revs", "directs"} : PlaceOnKey(field)

Next ==
    \/ Generate
    \/ \E pw \in {"right", "wrong"} : SignSecretKey(pw)
    \/ /\ stage = "unsigned"
       /\ \E pw \in {"right", "wrong"} : \E k \in {unsigned.primary, ThirdKey} : SignPublicKey(k, pw)
    \/ SignedPublic \/ Unsign \/ Reload
    \/ stage = "signed" /\ (MakeCertification \/ MakeKeySignature \/ MakeBinding \/ Rearrange)
    \/ Done

Spec == Init /\ [][Next]_vars

-----------------------------------------------------------------------------
(* Properties.                                                             *)

\* The key meant to say this with signature s, where it stands now.  A
\* certification of the old versions does not say of which kind of packet.
SaidBy(s, key, about) ==
    \E m \in made :
        /\ m.by = key.name /\ m.typ = s.typ /\ m.sub = s.sub
        /\ m.about = about
           \/ (s.v = "V3" /\ Len(m.about) = 3 /\ m.about[1] = about[1] /\ m.about[3] = about[3])

\* A certificate that verify() accepts carries only what its primary key
\* signed, about the very user, attribute, subkey or key it stands behind
\* and with these subpackets, wherever signatures were moved to; and a user
\* that verify_third_party accepts was certified by that signer for that
\* certificate.
VerifiedIsGenuine ==
    stage = "signed" =>
    LET name == cert.primary.name IN
    /\ VerifyCert(cert) =>
        /\ \A i \in DOMAIN cert.users : \A s \in Range(cert.users[i].sigs) :
              SaidBy(s, cert.primary, <<name, "UserId", cert.users[i].id>>)
        /\ \A i \in DOMAIN cert.attrs : \A s \in Range(cert.attrs[i].sigs) :
              SaidBy(s, cert.primary, <<name, "UserAttribute", cert.attrs[i].id>>)
        /\ \A i \in DOMAIN SubKeysOf(cert) : \A s \in Range(SubKeysOf(cert)[i].sigs) :
              SaidBy(s, cert.primary, <<name, "Subkey", SubKeysOf(cert)[i].key.name>>)
        /\ \A s \in Range(cert.revs) \cup Range(cert.directs) : SaidBy(s, cert.primary, <<name>>)
    /\ \A i \in DOMAIN cert.users :
        VerifyUserThirdParty(cert.users[i], cert.primary, ThirdKey) =>
        \A s \in Range(cert.users[i].sigs) :
            SaidBy(s, ThirdKey, <<name, "UserId", cert.users[i].id>>)

\* What sign() returns verifies, as a secret key, made public, and signed
\* again after as_unsigned().
SignedVerifies == stage = "signed" /\ fresh => VerifyCert(cert)

\* Signing, publishing, unsigning and signing again keep the users (the
\* primary user first and no one twice), the attributes, the flags, the
\* preferences and the subkeys with their flags as generate() was asked for,
\* as long as one user is marked primary and no self-signature was moved.
ResignKeeps ==
    stage = "signed" /\ fresh /\ kept =>
    LET sub == cert.users[1].sigs[1].sub
        subkeys == SubKeysOf(cert) IN
    /\ [i \in DOMAIN cert.users |-> cert.users[i].id] = <<asked.uid>> \o asked.uids
    /\ IsPrimary(cert.users[1])
    /\ [i \in DOMAIN cert.attrs |-> cert.attrs[i].id] = asked.attrs
    /\ sub.flags = asked.flags /\ sub.prefs = asked.prefs /\ sub.rkey = asked.rkey
    /\ [i \in DOMAIN subkeys |-> subkeys[i].sigs[1].sub.flags] =
       [i \in DOMAIN asked.subkeys |-> asked.subkeys[i].flags]

\* The flags of a signed primary key promise only what its algorithm can do:
\* what validate() lets through, sign() refuses.
FlagsAreHonest ==
    stage = "signed" /\ fresh /\ kept =>
    LET flags == cert.users[1].sigs[1].sub.flags
        alg == cert.primary.kt.alg IN
    /\ "encrypt" \in flags => alg \in {"Rsa", "ECDH"}
    /\ flags \cap {"sign", "certify"} # {} => alg # "ECDH"
=============================================================================
