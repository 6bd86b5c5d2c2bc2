----------------------------- MODULE MessageOps -----------------------------
(***************************************************************************)
(* The operations on a message: sign, compress, encrypt, decrypt,          *)
(* decompress, verify and get_content of src/composed/message/types.rs,    *)
(* with the session key packets and the encrypted data they rest on.       *)
(*                                                                         *)
(* A message is the sequence of its layers, the outermost first and a      *)
(* literal at the end; what a layer encloses is the tail behind it.  The   *)
(* octets of a message (to_bytes) are the message itself: that the parser  *)
(* reads back what was written is a property of MessageParser.  A hash is  *)
(* what was hashed.  A session key is a number, its algorithm one of a few *)
(* classes: AES stands for the ciphers there are, Misfit for one of them   *)
(* whose keys are longer than the key in hand, and Short for a decrypted   *)
(* session key packet of fewer octets than an algorithm and a checksum.    *)
(*                                                                         *)
(* A sender puts layers around a literal; on the way the message may be    *)
(* damaged once; a recipient takes layers off, with right and wrong keys   *)
(* and passwords.                                                          *)
(***************************************************************************)
EXTENDS Integers, Sequences, FiniteSets, Functions

CONSTANTS
    Certs,      \* the certificates (SignedSecretKey)
    KeysOf,     \* the keys of each, the primary key first
    SignKeys,   \* keys whose algorithm can sign
    CryptKeys,  \* keys whose algorithm can encrypt and decrypt
    Passwords,
    Lock,       \* the password of each key
    Literals,   \* the literals to begin with
    Foreign,    \* layers another implementation may add
    Recipients, \* lists of keys to encrypt to
    MaxLayers   \* how many layers a sender adds

Keys == UNION { Range(KeysOf[c]) : c \in Certs }

ASSUME KeysAssumption ==
    /\ KeysOf \in [Certs -> Seq(SignKeys \cup CryptKeys)]
    /\ \A c, d \in Certs : c # d => Range(KeysOf[c]) \cap Range(KeysOf[d]) = {}
    /\ Lock \in [Keys -> Passwords]
    /\ Recipients \subseteq Seq(Keys) \ {<<>>} /\ MaxLayers \in Nat

Algs == {"AES", "Misfit", "Other", "Plaintext"}
PkAlgs == Algs \cup {"Short"}
Modes == {"Binary", "Text"}
Endings == {"crlf", "lf"}

\* mode, line endings and data of a LiteralData packet.
Literal == [t : {"Literal"}, mode : Modes, le : Endings, data : {"good", "changed"}]

ASSUME LiteralsAssumption == Literals \subseteq Literal

\* A session key encrypted to a key, or with a password (direct: the key
\* derived from the password is the session key).
Pkesk(id, alg, key) == [e |-> "pk", id |-> id, alg |-> alg, key |-> key, ok |-> TRUE]
Skesk(v, pw, alg, direct, key) ==
    [e |-> "pw", v |-> v, pw |-> pw, alg |-> alg, direct |-> direct, key |-> key]

Esk ==
    [e : {"pk"}, id : Keys, alg : PkAlgs, key : Int, ok : BOOLEAN]
    \cup [e : {"pw"}, v : {4, 5, 6}, pw : Passwords, alg : Algs, direct : BOOLEAN, key : Int]

\* Encrypted data: SED, or SEIPD of version 1 or 2; extra: the plaintext has
\* a second message behind the first.
Encrypted ==
    [t : {"Encrypted"}, esk : Seq(Esk), kind : {"SED", "V1", "V2"}, alg : Algs, key : Int,
     state : {"whole", "flipped", "cut", "stub"}, extra : BOOLEAN]

EncryptedLayer(esk, kind, alg, key) ==
    [t |-> "Encrypted", esk |-> esk, kind |-> kind, alg |-> alg, key |-> key,
     state |-> "whole", extra |-> FALSE]

Compressed == [t : {"Compressed"}, alg : {"Uncompressed", "ZIP", "ZLIB", "BZip2"}]
CompressedLayer(alg) == [t |-> "Compressed", alg |-> alg]

\* Another implementation encrypts with a cipher there is, and its packets
\* hold the session key, numbered 0 (rPGP's own are numbered from 1).
ASSUME ForeignAssumption ==
    \A l \in Foreign :
       \/ l \in Compressed
       \/ /\ l \in Encrypted /\ l.state = "whole" /\ l.alg = "AES" /\ l.key = 0
          /\ \A i \in 1..Len(l.esk) : l.esk[i].key = 0

VARIABLES
    phase,   \* "sending" or "receiving"
    msg,     \* the message in hand
    sent,    \* the message as it was sent
    intact,  \* nothing happened to it on the way
    opened,  \* a decryption has succeeded
    last,    \* the last operation, its arguments and its result
    signed   \* what was signed, and with which key

vars == <<phase, msg, sent, intact, opened, last, signed>>

Idle == [op |-> "none", certs |-> <<>>, pw |-> "", res |-> "ok", ids |-> {}]

-----------------------------------------------------------------------------
(* Signing and verifying.                                                  *)

IsBinary(l) == l.mode = "Binary"

Content(l) == [data |-> l.data, le |-> l.le]

\* Normalized, to CRLF, of a literal's data.
NormalizedContent(c) == [c EXCEPT !.le = "crlf"]

\* What a signature on message m covers: a literal's data, or else octets.
\* Mutant: always the data of the literal inside.
SignedContentInside(m) == Content(m[Len(m)])
SignedContent(m) == IF m[1].t = "Literal" THEN Content(m[1]) ELSE [bytes |-> m]

SignatureTyp(m) == IF m[1].t = "Literal" /\ ~IsBinary(m[1]) THEN "Text" ELSE "Binary"

\* SignatureConfig::sign hashes the data as it is.
HashToSign(typ, content) == [typ |-> typ, content |-> content]

\* Signature::verify normalises text first.
\* Mutant: it does so for binary data too.
HashNormalised(typ, content) ==
    [typ |-> typ, content |-> IF "le" \in DOMAIN content THEN NormalizedContent(content) ELSE content]
HashToVerify(typ, content) ==
    [typ |-> typ, content |-> IF typ = "Text" THEN NormalizedContent(content) ELSE content]

Unlocks(k, pw) == Lock[k] = pw

\* create_signature
CanSign(k, pw) == Unlocks(k, pw) /\ k \in SignKeys

SignedLayer(m, k) ==
    [t |-> "Signed", by |-> k, typ |-> SignatureTyp(m),
     hash |-> HashToSign(SignatureTyp(m), SignedContent(m))]

\* match_identity, the hash, and then the key's own check.
SignatureVerifies(s, k, content) == s.by = k /\ s.hash = HashToVerify(s.typ, content)

\* The message inside compressed data, for the algorithms there are.
Decompressable(alg) == alg \in {"Uncompressed", "ZIP", "ZLIB"}

VerifySigned(m, k) == m[1].t = "Signed" /\ SignatureVerifies(m[1], k, SignedContent(Tail(m)))

\* verify(): of a signed message, or of one inside one compression.
Verify(m, k) ==
    IF m[1].t = "Compressed"
    THEN Decompressable(m[1].alg) /\ VerifySigned(Tail(m), k)
    ELSE VerifySigned(m, k)

\* What is inside the signatures.
Unsigned(m) ==
    LET i == CHOOSE j \in 1..Len(m) :
               m[j].t # "Signed" /\ \A n \in 1..(j - 1) : m[n].t = "Signed" IN
    SubSeq(m, i, Len(m))

NoContent == [data |-> "", le |-> ""]

GetLiteral(m) ==
    LET core == Unsigned(m)[1] IN
    IF core.t = "Literal" THEN Content(core) ELSE NoContent

\* get_content(), errors as no content.
GetContent(m) ==
    IF m[1].t = "Compressed"
    THEN IF Decompressable(m[1].alg) /\ m[2].t # "Compressed" THEN GetLiteral(Tail(m)) ELSE NoContent
    ELSE GetLiteral(m)

-----------------------------------------------------------------------------
(* Encrypted data and session keys.                                        *)

BlockSize(alg) == IF alg \in {"AES", "Misfit"} THEN 16 ELSE 0

PlainSessionKey(v, alg, key) == [v |-> v, alg |-> alg, key |-> key]

\* decrypt_with_iv: longer than the prefix, a cipher there is, a key that fits.
Decipherable(e, k) == e.state # "stub" /\ k.alg \notin {"Other", "Misfit"}

\* decrypt_protected: too short for the prefix is an error, too short for
\* the MDC is a slice out of range; then the MDC must be right.
\* Mutant: the MDC is not looked at.
DecryptUnchecked(e, k) ==
    IF ~Decipherable(e, k) THEN "err"
    ELSE IF e.state = "cut" THEN "panic"
    ELSE "ok"
\* Mutant: a key of the wrong size is unwrapped instead of handed on.
DecryptUnwrapped(e, k) ==
    IF k.alg = "Misfit" THEN "panic"
    ELSE IF ~Decipherable(e, k) THEN "err"
    ELSE IF e.state = "cut" THEN "panic"
    ELSE IF e.state = "flipped" \/ k.key # e.key \/ k.alg # e.alg THEN "err"
    ELSE "ok"
DecryptProtected(e, k) ==
    IF ~Decipherable(e, k) THEN "err"
    ELSE IF e.state = "cut" THEN "panic"
    ELSE IF e.state = "flipped" \/ k.key # e.key \/ k.alg # e.alg THEN "err"
    ELSE "ok"

\* decrypt, of data without protection: resynchronisation is not there.
DecryptResync(e, k) ==
    IF Decipherable(e, k) THEN "panic" ELSE "err"

\* The chunks of version 2: too short for the tags is a slice out of range.
DecryptChunks(e, k) ==
    IF e.state \in {"stub", "cut"} THEN "panic"
    ELSE IF e.state = "flipped" \/ k.key # e.key \/ e.extra THEN "err"
    ELSE "ok"

\* Edata::decrypt, and the first message of the plaintext.
EdataDecrypt(e, k) ==
    CASE k.v = 4 /\ k.alg = "Plaintext" -> "err"
      [] k.v = 4 /\ k.alg # "Plaintext" /\ e.kind = "SED" -> DecryptResync(e, k)
      [] k.v = 4 /\ k.alg # "Plaintext" /\ e.kind = "V1" -> DecryptProtected(e, k)
      [] k.v = 4 /\ k.alg # "Plaintext" /\ e.kind = "V2" -> "err"
      [] k.v = 5 -> "err"
      [] k.v = 6 /\ e.kind = "SED" -> "err"
      [] k.v = 6 /\ e.kind = "V1" -> "panic"
      [] k.v = 6 /\ e.kind = "V2" -> DecryptChunks(e, k)

\* The algorithm that both signs and encrypts is RSA.  Its session keys are
\* sliced by the size of their algorithm, those of ECDH by their own length:
\* fewer than three octets are out of range for either, and so is a key that
\* is shorter than its algorithm's for RSA.
IsRsa(k) == k \in SignKeys /\ k \in CryptKeys
SessionKeyPanics(p, pw) ==
    /\ Unlocks(p.id, pw) /\ p.id \in CryptKeys /\ p.ok
    /\ p.alg = "Short" \/ (IsRsa(p.id) /\ p.alg = "Misfit")

\* decrypt_session_key, of a PKESK
CanDecryptSessionKey(p, pw) ==
    /\ Unlocks(p.id, pw) /\ p.id \in CryptKeys /\ p.ok /\ p.alg \notin {"Plaintext", "Short"}
    /\ IsRsa(p.id) => p.alg = "AES"

\* The session keys an encrypted one may give.  A wrong password, or a changed
\* packet, gives any algorithm in version 4, and an error from 5 on.
SkeskDecrypt(p, pw) ==
    IF p.alg = "Other" THEN {}
    ELSE IF pw = p.pw /\ p.key # -1 THEN {PlainSessionKey(p.v, p.alg, p.key)}
    ELSE IF p.v = 4 THEN { PlainSessionKey(4, a, -1) : a \in Algs }
    ELSE {}

\* The session keys a password may give for an SKESK.
DecryptSessionKeyWithPassword(p, pw) ==
    IF p.alg = "Plaintext" THEN {}
    ELSE IF p.direct THEN {PlainSessionKey(4, p.alg, IF pw = p.pw THEN p.key ELSE -1)}
    ELSE SkeskDecrypt(p, pw)

\* The first packet for a key of the certificate; the others are not tried.
FirstPacket(esk, c) ==
    { esk[i] : i \in { j \in 1..Len(esk) :
        /\ esk[j].e = "pk" /\ esk[j].id \in Range(KeysOf[c])
        /\ \A n \in 1..(j - 1) : esk[n].e = "pk" => esk[n].id \notin Range(KeysOf[c]) } }

\* The packets found for a list of certificates.  Which of them comes first,
\* and whether one is found twice, makes no difference: the session keys must
\* all be the same.
ValidKeys(esk, cs) == UNION { FirstPacket(esk, c) : c \in Range(cs) }

\* Of these, the ones whose session key can be decrypted.
\* Mutant: all or none.
SessionKeysAllOrNone(valid, pw) ==
    IF \A p \in valid : CanDecryptSessionKey(p, pw) THEN valid ELSE {}
SessionKeys(valid, pw) == { p \in valid : CanDecryptSessionKey(p, pw) }

Consistent(ps) == \A p, q \in ps : p.key = q.key /\ p.alg = q.alg

\* The keys decrypt() reports.
Reported(opening) == { p.id : p \in opening }

\* A message with the literal's data changed.
Changed(m) == [m EXCEPT ![Len(m)].data = "changed"]

\* What decrypting gives, if it is not refused.
Plaintext(m, k) ==
    IF m[1].state = "whole" /\ k.key = m[1].key THEN Tail(m) ELSE Changed(Tail(m))

-----------------------------------------------------------------------------
(* The sender.                                                             *)

\* After an error, and behind a layer of another implementation, there are no
\* more.
Sending == phase = "sending" /\ Len(msg) <= MaxLayers /\ last.res = "ok" /\ last.op # "foreign"
Adds(layer) == msg' = <<layer>> \o msg
Tried(op, res) == last' = [Idle EXCEPT !.op = op, !.res = res]

Init ==
    /\ phase = "sending"
    /\ \E l \in Literals : msg = <<l>>
    /\ sent = <<>> /\ intact = TRUE /\ opened = FALSE
    /\ last = Idle /\ signed = {}

Sign(k, pw) ==
    /\ Sending
    /\ IF CanSign(k, pw)
       THEN Adds(SignedLayer(msg, k)) /\ signed' = signed \cup {[by |-> k, msg |-> msg]} /\ Tried("sign", "ok")
       ELSE Tried("sign", "err") /\ UNCHANGED <<msg, signed>>
    /\ UNCHANGED <<phase, sent, intact, opened>>

Compress(alg) ==
    /\ Sending
    /\ IF Decompressable(alg) THEN Adds(CompressedLayer(alg)) /\ Tried("compress", "ok")
                             ELSE Tried("compress", "err") /\ UNCHANGED msg
    /\ UNCHANGED <<phase, sent, intact, opened, signed>>

\* PublicKeyTrait::encrypt
CanEncrypt(k) == k \in CryptKeys

\* encrypt_symmetric: without a block size the quick check is out of range.
EncryptSymmetric(op, esk, alg) ==
    IF BlockSize(alg) = 0
    THEN Tried(op, "panic") /\ UNCHANGED msg
    ELSE Adds(EncryptedLayer(esk, "V1", alg, Len(msg))) /\ Tried(op, "ok")

\* SymKeyEncryptedSessionKey::encrypt
SkeskEncrypts(salted, alg) == salted /\ alg # "Other"

EncryptToKeys(ks, alg) ==
    /\ Sending
    /\ IF \A k \in Range(ks) : CanEncrypt(k)
       THEN EncryptSymmetric("encrypt", [i \in 1..Len(ks) |-> Pkesk(ks[i], alg, Len(msg))], alg)
       ELSE Tried("encrypt", "err") /\ UNCHANGED msg
    /\ UNCHANGED <<phase, sent, intact, opened, signed>>

EncryptWithPassword(pw, salted, alg) ==
    /\ Sending
    /\ IF SkeskEncrypts(salted, alg)
       THEN EncryptSymmetric("encrypt", <<Skesk(4, pw, alg, FALSE, Len(msg))>>, alg)
       ELSE Tried("encrypt", "err") /\ UNCHANGED msg
    /\ UNCHANGED <<phase, sent, intact, opened, signed>>

\* Another implementation adds the outermost layer.
AddForeign(l) ==
    /\ Sending
    /\ Adds(l) /\ Tried("foreign", "ok")
    /\ UNCHANGED <<phase, sent, intact, opened, signed>>

\* What may become of a message on the way: the data of a literal nothing
\* encloses, a signature inside another, ciphertext, a session key packet.
Without(s, i) == SubSeq(s, 1, i - 1) \o SubSeq(s, i + 1, Len(s))

DamagedEncrypted(e) ==
    { [e EXCEPT !.state = d] : d \in {"flipped", "cut", "stub"} }
    \cup { [e EXCEPT !.esk = Without(@, i)] : i \in 1..Len(e.esk) }
    \cup { [e EXCEPT !.esk[i].key = -1] : i \in 1..Len(e.esk) }
    \cup { [e EXCEPT !.esk[i].ok = FALSE] : i \in { j \in 1..Len(e.esk) : e.esk[j].e = "pk" } }

Damaged(m) ==
    LET core == Len(m) - Len(Unsigned(m)) + 1 IN
    (CASE m[core].t = "Literal" ->
            { Changed(m) } \cup { [m EXCEPT ![core].le = e] : e \in Endings \ {m[core].le} }
       [] m[core].t = "Encrypted" -> { [m EXCEPT ![core] = e] : e \in DamagedEncrypted(m[core]) }
       [] OTHER -> {})
    \cup { Without(m, i) : i \in 2..(core - 1) }

Send(m) ==
    /\ phase = "sending" /\ last.res # "panic"
    /\ phase' = "receiving" /\ sent' = msg /\ msg' = m /\ intact' = (m = msg)
    /\ last' = Idle
    /\ UNCHANGED <<opened, signed>>

-----------------------------------------------------------------------------
(* The recipient.                                                          *)

Receiving == phase = "receiving" /\ last.res # "panic"

Decrypted(op, cs, pw, res, ids, m) ==
    /\ last' = [op |-> op, certs |-> cs, pw |-> pw, res |-> res, ids |-> ids]
    /\ msg' = IF res = "ok" THEN m ELSE msg
    /\ opened' = (opened \/ res = "ok")
    /\ UNCHANGED <<phase, sent, intact, signed>>

\* decrypt() of encrypted message m: result, keys reported, session key.
DecryptOutcome(m, cs, pw) ==
    LET valid == ValidKeys(m[1].esk, cs)
        opening == SessionKeys(valid, pw)
        refused(res) == [res |-> res, ids |-> {}, key |-> PlainSessionKey(4, "Other", -1)] IN
    IF valid = {} THEN refused("missing")
    ELSE IF \E p \in valid : SessionKeyPanics(p, pw) THEN refused("panic")
    ELSE IF opening = {} \/ ~Consistent(opening) THEN refused("err")
    ELSE LET first == CHOOSE p \in opening : TRUE
             key == PlainSessionKey(4, first.alg, first.key)
             res == EdataDecrypt(m[1], key) IN
         [res |-> res, ids |-> IF res = "ok" THEN Reported(opening) ELSE {}, key |-> key]

Decrypt(cs, pw) ==
    /\ Receiving
    /\ LET m == Unsigned(msg) IN
       IF m[1].t # "Encrypted" THEN Decrypted("decrypt", cs, pw, "err", {}, msg)
       ELSE LET o == DecryptOutcome(m, cs, pw) IN
            Decrypted("decrypt", cs, pw, o.res, o.ids, Plaintext(m, o.key))

\* The session keys from a password: only the first password packet is tried.
FirstPasswordPacket(esk) ==
    { esk[i] : i \in { j \in 1..Len(esk) :
        esk[j].e = "pw" /\ \A n \in 1..(j - 1) : esk[n].e # "pw" } }

PasswordKeys(m, pw) ==
    UNION { DecryptSessionKeyWithPassword(p, pw) : p \in FirstPasswordPacket(m[1].esk) }

DecryptWithPassword(pw) ==
    /\ Receiving
    /\ LET m == Unsigned(msg)
           keys == IF m[1].t = "Encrypted" THEN PasswordKeys(m, pw) ELSE {} IN
       IF keys = {} THEN Decrypted("password", <<>>, pw, "err", {}, msg)
       ELSE \E k \in keys : Decrypted("password", <<>>, pw, EdataDecrypt(m[1], k), {}, Plaintext(m, k))

Decompress ==
    /\ Receiving /\ msg[1].t = "Compressed"
    /\ IF Decompressable(msg[1].alg) THEN msg' = Tail(msg) /\ Tried("decompress", "ok")
                                    ELSE msg' = msg /\ Tried("decompress", "err")
    /\ UNCHANGED <<phase, sent, intact, opened, signed>>

CertLists == { cs \in UNION { [1..n -> Certs] : n \in 1..Cardinality(Certs) } : IsInjective(cs) }

Next ==
    \/ \E k \in Keys, pw \in Passwords : Sign(k, pw)
    \/ \E alg \in {"ZIP", "BZip2"} : Compress(alg)
    \/ \E ks \in Recipients, alg \in {"AES", "Plaintext"} : EncryptToKeys(ks, alg)
    \/ \E pw \in Passwords, salted \in BOOLEAN, alg \in {"AES", "Other", "Plaintext"} :
          EncryptWithPassword(pw, salted, alg)
    \/ \E l \in Foreign : AddForeign(l)
    \/ \E m \in {msg} \cup Damaged(msg) : Send(m)
    \/ \E cs \in CertLists, pw \in Passwords : Decrypt(cs, pw)
    \/ \E pw \in Passwords : DecryptWithPassword(pw)
    \/ Decompress

Spec == Init /\ [][Next]_vars

-----------------------------------------------------------------------------
(* Properties.                                                             *)

\* Whatever was damaged, a message that came out of a decryption is one the
\* sender put in, to the last octet (decrypt_protected, the chunks' tags).
PlaintextIsOriginal ==
    opened => \E i \in 1..Len(sent) : msg = SubSeq(sent, i, Len(sent))

\* The signature verify() looks at.
Inner(m) == IF m[1].t = "Compressed" THEN Tail(m) ELSE m

\* Equal up to the line endings that a text signature does not cover.
SameSigned(m, n) ==
    \/ m = n
    \/ Len(m) = 1 /\ Len(n) = 1 /\ ~IsBinary(m[1]) /\ NormalizedContent(Content(m[1])) = NormalizedContent(Content(n[1]))

\* What verifies was signed with that key, with all the layers it has:
\* verify() never accepts a changed text or a signature taken out.
VerifiedIsSigned ==
    phase = "receiving" =>
    \A k \in Keys : Verify(msg, k) => \E s \in signed : s.by = k /\ SameSigned(Tail(Inner(msg)), s.msg)

\* The literal is as LiteralData::from_str and from_bytes make it.
StoredNormalised(m) == IsBinary(m[Len(m)]) \/ m[Len(m)].le = "crlf"

\* A signature on an undamaged message verifies with its key, inside
\* encryption and one compression too.
SignedVerifies ==
    phase = "receiving" /\ intact /\ StoredNormalised(msg) /\ Inner(msg)[1].t = "Signed"
    /\ (msg[1].t = "Compressed" => Decompressable(msg[1].alg))
    => Verify(msg, Inner(msg)[1].by)

\* Certificates that the message has at most one packet for.
Unambiguous(esk, cs) ==
    \A c \in Range(cs), i, j \in 1..Len(esk) :
       /\ esk[i].e = "pk" /\ esk[i].id \in Range(KeysOf[c])
       /\ esk[j].e = "pk" /\ esk[j].id \in Range(KeysOf[c])
       => i = j

\* Whoever gives, among others, a key that fits a packet, with its password,
\* reads an undamaged message: keys that do not work do no harm.
OpenedByRightKey ==
    LET m == Unsigned(msg)
        mine == UNION { Range(KeysOf[c]) : c \in Range(last'.certs) } IN
    (/\ intact /\ last'.op = "decrypt" /\ m[1].t = "Encrypted" /\ m[1].kind = "V1"
     /\ \A p \in Range(m[1].esk) : p.alg = m[1].alg
     /\ Unambiguous(m[1].esk, last'.certs)
     /\ \E p \in Range(m[1].esk) : p.e = "pk" /\ p.id \in mine /\ CanDecryptSessionKey(p, last'.pw))
    => last'.res = "ok"
RightKeyOpens == [][OpenedByRightKey]_vars

\* A decryption that succeeds names, and needs, keys of the caller that the
\* sender encrypted to and that the password unlocks.
OpenedByRecipients ==
    last'.op = "decrypt" /\ last'.res = "ok" =>
       /\ last'.ids # {}
       /\ \A k \in last'.ids :
            /\ Unlocks(k, last'.pw)
            /\ \E c \in Range(last'.certs) : k \in Range(KeysOf[c])
            /\ \E p \in Range(Unsigned(msg)[1].esk) : p.e = "pk" /\ p.id = k /\ p.ok
OnlyRecipientsOpen == [][OpenedByRecipients]_vars

\* decrypt() succeeds with the right keys among others and only with those.
KeysOpen == RightKeyOpens /\ OnlyRecipientsOpen

\* What rPGP itself added, signatures around compressed data left out.
Plain(m) ==
    /\ \A i \in 1..Len(m) :
         /\ m[i].t = "Compressed" => Decompressable(m[i].alg)
         /\ m[i].t = "Encrypted" => m[i].kind = "V1" /\ m[i].key > 0
    /\ \A i \in 1..(Len(m) - 1) : m[i].t = "Signed" => m[i + 1].t # "Compressed"

\* No undamaged message is a dead end: its content can be read, or it can
\* be decompressed, or some key or password that the sender used decrypts it.
NoDeadEnd ==
    (phase = "receiving" /\ intact /\ Plain(msg) /\ last.res # "panic") =>
    \/ GetContent(msg) = Content(msg[Len(msg)])
    \/ msg[1].t = "Compressed"
    \/ LET m == Unsigned(msg) IN
       /\ m[1].t = "Encrypted"
       /\ \E pw \in Passwords :
            \/ \E c \in Certs : DecryptOutcome(m, <<c>>, pw).res = "ok"
            \/ \E k \in PasswordKeys(m, pw) : EdataDecrypt(m[1], k) = "ok"

\* decrypt() and decrypt_with_password() do not panic on what rPGP itself wrote
\* and nobody damaged, whatever keys and passwords are tried: a session key
\* from a wrong password, of any algorithm and size, is refused by an error.
\* (Damaged data, unprotected data and packets of other implementations do
\* make them panic.)
IntactNeverPanics ==
    phase = "receiving" /\ intact /\ Plain(msg) => last.res # "panic"

\* What arrives undamaged is of use: its signatures verify and its content
\* can be got at.
IntactIsReadable == SignedVerifies /\ NoDeadEnd

=============================================================================
