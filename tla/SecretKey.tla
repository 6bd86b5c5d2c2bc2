------------------------------ MODULE SecretKey ------------------------------
(***************************************************************************)
(* Key packets and the protection of their secret part:                    *)
(* src/packet/{public,secret}_key_{macro,parser}.rs, src/types/params/,    *)
(* src/types/s2k.rs, src/crypto/{sym,hash,checksum,public_key}.rs.         *)
(*                                                                         *)
(* A packet is a sequence of octets.  The cipher and the hash functions    *)
(* are symbolic: an encrypted octet is Opaque and `cipher' remembers what  *)
(* was encrypted and with which key; a key is the sequence of octet        *)
(* streams that were hashed to make it; a SHA-1 digest is twenty symbols   *)
(* that depend on the octets they were computed over.                      *)
(***************************************************************************)
EXTENDS Octets

CONSTANTS
    Keys,       \* key material: [alg, pub, mpis]
    Versions,   \* the key versions that are tried
    Syms,       \* identifiers of symmetric algorithms
    S2ks,       \* string-to-key specifiers, as octets
    Passwords,  \* passwords, as octets
    ExpBias,    \* EXPBIAS (6 in the code)
    MaxDamage   \* bound on the octets a transport damages

ASSUME BiasIsNat == ExpBias \in Nat /\ MaxDamage \in Nat

VARIABLES
    stage,   \* "start", "key", "deriving", "done" or "panic"
    key,     \* the SecretKey or PublicKey the program holds
    wire,    \* the octets of the packet in transit
    read,    \* the octets `key' was parsed from
    job,     \* the derivation of a key in progress
    cipher,  \* what the encrypted octets stand for
    made,    \* how the key was made
    result   \* what the last operation returned

vars == <<stage, key, wire, read, job, cipher, made, result>>

-----------------------------------------------------------------------------
(* Algorithms                                                              *)

Opaque == 256
Damaged == 257
NoExpiration == -1
Created == <<0, 0, 1, 0>>

RSA == 1..3
ElgamalSign == 16
DSA == 17
ECDH == 18
ECDSA == 19
Elgamal == 20
EdDSA == 22

\* The curves, by the octet that stands for their object identifier.
Curve25519 == 1
Ed25519 == 2
P256 == 3
Brainpool == 4
OtherCurve == 9

\* The octets that ecc_curve_from_oid knows as an object identifier.
Oids == {<<c>> : c \in {Curve25519, Ed25519, P256, Brainpool, OtherCurve}}

\* ECCCurve::secret_key_length
SecretKeyLength(curve) == IF curve \in {Curve25519, Ed25519, P256, Brainpool} THEN 32 ELSE 0

\* SymmetricKeyAlgorithm::block_size and key_size
BlockSize(sym) == CASE sym \in 1..4 -> 8 [] sym \in 7..13 -> 16 [] OTHER -> 0
KeySize(sym) ==
    CASE sym \in {1, 3, 4, 7, 11} -> 16 [] sym \in {2, 8, 12} -> 24
      [] sym \in {9, 10, 13} -> 32 [] OTHER -> 0

\* HashAlgorithm::digest_size; a hash without a size has no hasher.
DigestSize(hash) ==
    CASE hash = 1 -> 16 [] hash \in {2, 3} -> 20 [] hash = 11 -> 28 [] hash \in {8, 12} -> 32
      [] hash = 9 -> 48 [] hash \in {10, 14} -> 64 [] OTHER -> 0

\* AeadAlgorithm::nonce_size
NonceSize(aead) == CASE aead = 1 -> 16 [] aead = 2 -> 15 [] aead = 3 -> 12 [] OTHER -> 0

\* calculate_simple and calculate_sha1
SimpleChecksum(s) ==
    LET sum[i \in 0..Len(s)] == IF i = 0 THEN 0 ELSE (sum[i - 1] + s[i]) % 65536
    IN U16(sum[Len(s)])
Sha1(s) ==
    LET digest[i \in 0..Len(s)] == IF i = 0 THEN Len(s) ELSE (digest[i - 1] * 31 + s[i]) % 65521
        symbol == 300 + digest[Len(s)]
    IN [i \in 1..20 |-> symbol]

-----------------------------------------------------------------------------
(* Key material                                                            *)

\* Where the n-th integer of s ends: -1 when s is too short.
MpisEnd(s, n) ==
    LET end[i \in 0..n] ==
          IF i = 0 THEN 0
          ELSE IF end[i - 1] = -1 \/ MpiSize(Drop(s, end[i - 1])) = 0 THEN -1
          ELSE end[i - 1] + MpiSize(Drop(s, end[i - 1]))
    IN end[n]

Mpis(s, n) == [i \in 1..n |-> MpiValue(Drop(s, MpisEnd(s, i - 1)))]
MpisWriter(mpis) ==
    LET octets[i \in 0..Len(mpis)] == IF i = 0 THEN <<>> ELSE octets[i - 1] \o MpiWriter(mpis[i])
    IN octets[Len(mpis)]

HasCurve(alg) == alg \in {ECDH, ECDSA, EdDSA}

\* rsa, dsa, elgamal, ecdsa, eddsa, ecdh and unknown
PublicMpis(alg) ==
    CASE alg \in RSA -> 2 [] alg = DSA -> 4 [] alg \in {Elgamal, ElgamalSign} -> 3
      [] HasCurve(alg) -> 1 [] OTHER -> 0
OidEnd(alg, s) ==
    IF ~HasCurve(alg) THEN 0
    ELSE IF s = <<>> THEN -1
    ELSE IF Len(s) < 1 + s[1] \/ SubSeq(s, 2, 1 + s[1]) \notin Oids THEN -1 ELSE 1 + s[1]
KdfSize(alg) == IF alg = ECDH THEN 4 ELSE 0

\* EcdsaPublicParams::try_from_mpi: the room there is for a point; whether it
\* lies on the curve is a matter of its number, which is opaque here.
PointFits(alg, oid, p) == alg = ECDSA /\ oid = <<P256>> => Len(p) <= 65

\* parse_pub_fields: how many octets are taken (-1: none of them) and what they say
PublicEnd(alg, s) ==
    LET oid == OidEnd(alg, s)
        mpis == IF oid = -1 THEN -1 ELSE MpisEnd(Drop(s, oid), PublicMpis(alg))
    IN IF mpis = -1 \/ Len(s) < oid + mpis + KdfSize(alg) THEN -1
       ELSE IF HasCurve(alg) /\ ~PointFits(alg, SubSeq(s, 2, oid), MpiValue(Drop(s, oid))) THEN -1
       ELSE IF alg = ECDH /\ s[oid + mpis + 2] # 1 THEN -1
       ELSE oid + mpis + KdfSize(alg)

PublicParams(alg, s) ==
    LET oid == OidEnd(alg, s)
        end == PublicEnd(alg, s)
    IN [oid |-> SubSeq(s, 2, oid), mpis |-> Mpis(Drop(s, oid), PublicMpis(alg)),
        kdf |-> IF alg = ECDH THEN <<s[end - 1], s[end]>> ELSE <<>>]

\* PublicParams::to_writer
PublicParamsWriter(alg, pub) ==
    (IF HasCurve(alg) THEN <<Len(pub.oid)>> \o pub.oid ELSE <<>>)
    \o MpisWriter(pub.mpis)
    \o (IF alg = ECDH THEN <<3, 1>> \o pub.kdf ELSE <<>>)

\* parse_secret_params: the number of integers, 0 for an algorithm it does not know
SecretMpis(alg) ==
    CASE alg \in RSA -> 4 [] alg \in {DSA, Elgamal, ECDH, ECDSA, EdDSA} -> 1 [] OTHER -> 0

ParsesPlain(alg, s) == SecretMpis(alg) > 0 /\ MpisEnd(s, SecretMpis(alg)) # -1

-----------------------------------------------------------------------------
(* Secret parameters: usage 0 is PlainSecretParams, the others are         *)
(* EncryptedSecretParams with the S2kParams the usage stands for.          *)

Plain(mpis) ==
    [usage |-> 0, sym |-> 0, aead |-> 0, s2k |-> <<>>, iv |-> <<>>, data |-> <<>>, mpis |-> mpis]
Locked(usage, sym, aead, s2k, iv, data) ==
    [usage |-> usage, sym |-> sym, aead |-> aead, s2k |-> s2k, iv |-> iv, data |-> data,
     mpis |-> <<>>]

\* s2k_parser: the octets of a specifier; an unknown type takes all there are.
S2kSize(s) ==
    IF s = <<>> THEN -1
    ELSE LET size == CASE s[1] = 0 -> 2 [] s[1] = 1 -> 10 [] s[1] = 3 -> 11 [] s[1] = 4 -> 20
                       [] OTHER -> Len(s)
         IN IF Len(s) < size THEN -1 ELSE size

\* The octets before the specifier, and the nonce or initialization vector after it.
HeadSize(usage) == CASE usage \in 1..252 -> 1 [] usage = 253 -> 3 [] OTHER -> 2
HasS2k(usage) == usage \in 253..255
IvSize(usage, sym, aead) == IF usage = 253 THEN NonceSize(aead) ELSE BlockSize(sym)

\* parse_secret_fields of an encrypted key, and of one that is not.  What is
\* read as usage 255 is kept as S2kParams::Cfb.
ReadUsage(usage) == IF usage = 255 THEN 254 ELSE usage

LockedFields(s) ==
    LET usage == s[1]
        head == HeadSize(usage)
        sym == IF usage < 253 THEN usage ELSE IF Len(s) > 1 THEN s[2] ELSE 0
        aead == IF usage = 253 /\ Len(s) > 2 THEN s[3] ELSE 0
        s2k == IF HasS2k(usage) THEN S2kSize(Drop(s, head)) ELSE 0
        iv == head + s2k
        data == iv + IvSize(usage, sym, aead)
    IN IF Len(s) < head \/ s2k = -1 \/ Len(s) < data THEN {}
       ELSE {Locked(ReadUsage(usage), sym, aead, SubSeq(s, head + 1, iv),
                    SubSeq(s, iv + 1, data), Drop(s, data))}

SecretFields(alg, s) ==
    IF s = <<>> THEN {}
    ELSE IF s[1] # 0 THEN LockedFields(s)
    ELSE IF ParsesPlain(alg, Drop(s, 1)) THEN {Plain(Mpis(Drop(s, 1), SecretMpis(alg)))} ELSE {}

\* Mutant: the mode of an AEAD protected key is not written.
SecretParamsWriterNoMode(sec) ==
    IF sec.usage = 0
    THEN <<0>> \o MpisWriter(sec.mpis) \o SimpleChecksum(MpisWriter(sec.mpis))
    ELSE <<sec.usage>>
         \o (IF HasS2k(sec.usage) THEN <<sec.sym>> ELSE <<>>)
         \o sec.s2k \o sec.iv \o sec.data

\* SecretParams::to_writer
SecretParamsWriter(sec) ==
    IF sec.usage = 0
    THEN <<0>> \o MpisWriter(sec.mpis) \o SimpleChecksum(MpisWriter(sec.mpis))
    ELSE <<sec.usage>>
         \o (IF HasS2k(sec.usage) THEN <<sec.sym>> ELSE <<>>)
         \o (IF sec.usage = 253 THEN <<sec.aead>> ELSE <<>>)
         \o sec.s2k \o sec.iv \o sec.data

-----------------------------------------------------------------------------
(* Packets                                                                 *)

NoSecret == Plain(<<>>)
Packet(secret, version, expiration, alg, pub, sec) ==
    [secret |-> secret, version |-> version, expiration |-> expiration, alg |-> alg, pub |-> pub,
     sec |-> sec]

Old(version) == version \in {2, 3}

\* to_writer; to_writer_old expects an expiration.
WriteFails(k) == ~Old(k.version) /\ k.version # 4
WritePanics(k) == Old(k.version) /\ k.expiration = NoExpiration
PacketWriter(k) ==
    <<k.version>> \o Created
    \o (IF Old(k.version) THEN U16(k.expiration) ELSE <<>>)
    \o <<k.alg>> \o PublicParamsWriter(k.alg, k.pub)
    \o (IF k.secret THEN SecretParamsWriter(k.sec) ELSE <<>>)

\* public_key_parser::parse, then PublicKey::new
OnlyRsa(version, alg) == Old(version) => alg \in RSA

\* from_slice: the packets (at most one) that the octets are read as
PacketsOf(secret, s) ==
    LET head == IF s # <<>> /\ Old(s[1]) THEN 8 ELSE 6
        alg == s[head]
        body == Drop(s, head)
        rest == Drop(body, PublicEnd(alg, body))
        exp == IF Old(s[1]) THEN BeU16(SubSeq(s, 6, 7)) ELSE NoExpiration
    IN IF Len(s) < head \/ (~Old(s[1]) /\ s[1] # 4) THEN {}
       ELSE IF PublicEnd(alg, body) = -1 THEN {}
       ELSE IF secret
       THEN {Packet(TRUE, s[1], exp, alg, PublicParams(alg, body), sec) : sec \in SecretFields(alg, rest)}
       ELSE IF OnlyRsa(s[1], alg)
       THEN {Packet(FALSE, s[1], exp, alg, PublicParams(alg, body), NoSecret)} ELSE {}

-----------------------------------------------------------------------------
(* String-to-key                                                           *)

S2kHash(s2k) == s2k[2]
S2kSalt(s2k) == IF s2k[1] \in {1, 3} THEN SubSeq(s2k, 3, 10) ELSE <<>>

\* decode_count
DecodeCount(coded) == (16 + (coded % 16)) * 2 ^ ((coded \div 16) + ExpBias)

Rounds(size, digest) == (size + digest - 1) \div digest

DerivedKey(by, streams, size) == [by |-> by, streams |-> streams, size |-> size]
NoKey == DerivedKey(0, <<>>, 0)

\* The key RFC 4880 (3.7.1) asks for: what other implementations use.
StreamOf(s2k, pw) ==
    LET set == S2kSalt(s2k) \o pw
        count == DecodeCount(s2k[11])
    IN IF s2k[1] # 3 THEN set
       ELSE [i \in 1..(IF count < Len(set) THEN Len(set) ELSE count) |-> set[((i - 1) % Len(set)) + 1]]
KeyOf(s2k, pw, size) ==
    IF s2k[1] = 4 THEN DerivedKey(-1, <<s2k, pw>>, size)
    ELSE IF s2k[1] \notin {0, 1, 3} \/ DigestSize(S2kHash(s2k)) = 0 THEN NoKey
    ELSE DerivedKey(S2kHash(s2k),
                    [r \in 1..Rounds(size, DigestSize(S2kHash(s2k))) |->
                       Zeros(r - 1) \o StreamOf(s2k, pw)], size)

\* The Argon2 branch of derive_key: min_m, then argon2::Params::new (external),
\* which wants eight blocks of memory for each lane and a key of four octets or
\* more: for the algorithm `plaintext', whose keys have none, it is an error.
Log2Ceil(p) == CHOOSE e \in 0..8 : p <= 2 ^ e /\ \A f \in 0..8 : p <= 2 ^ f => e <= f
Argon2Derives(s2k, size) ==
    LET t == s2k[18]
        p == s2k[19]
        m == s2k[20]
    IN m >= Log2Ceil(p) /\ m <= 31 /\ t >= 1 /\ p >= 1 /\ m >= 3 + Log2Ceil(p) /\ size >= 4

NoJob == [op |-> "none", pw |-> <<>>, sec |-> NoSecret, round |-> 0, count |-> 0, fed |-> <<>>,
          streams |-> <<>>]
Job(op, pw, sec) == [NoJob EXCEPT !.op = op, !.pw = pw, !.sec = sec]

Hashes(job0) == job0.sec.s2k[1] \in {0, 1, 3}
JobDigest == DigestSize(S2kHash(job.sec.s2k))
JobRounds == IF JobDigest = 0 THEN 0 ELSE Rounds(KeySize(job.sec.sym), JobDigest)
JobSet == S2kSalt(job.sec.s2k) \o job.pw

\* derive_key fails on the specifiers it does not implement, and panics when it
\* allocates one octet for each of the usize::MAX rounds of a hash without a size.
DeriveFails ==
    IF job.sec.s2k[1] = 4 THEN ~Argon2Derives(job.sec.s2k, KeySize(job.sec.sym)) ELSE ~Hashes(job)
DerivePanics == Hashes(job) /\ JobDigest = 0 /\ KeySize(job.sec.sym) > 0
Derived ==
    IF Hashes(job) THEN DerivedKey(S2kHash(job.sec.s2k), job.streams, KeySize(job.sec.sym))
    ELSE KeyOf(job.sec.s2k, job.pw, KeySize(job.sec.sym))

NextRound(j) == [j EXCEPT !.round = @ + 1, !.streams = Append(@, j.fed), !.fed = <<>>, !.count = 0]

\* One round of the loop for Simple and Salted.
HashOnce ==
    /\ job.round < JobRounds
    /\ job.sec.s2k[1] \in {0, 1}
    /\ job' = NextRound([job EXCEPT !.fed = Zeros(job.round) \o JobSet])
    /\ UNCHANGED <<stage, key, wire, read, cipher, made, result>>

\* A round of IteratedAndSalted: the prefix and the count, whole sets, the rest.
StartRound ==
    /\ job.round < JobRounds
    /\ job.sec.s2k[1] = 3
    /\ job.count = 0
    /\ LET count == DecodeCount(job.sec.s2k[11])
       IN job' = [job EXCEPT !.fed = Zeros(job.round),
                             !.count = IF count < Len(JobSet) THEN Len(JobSet) ELSE count]
    /\ UNCHANGED <<stage, key, wire, read, cipher, made, result>>

FeedSet ==
    /\ job.count > Len(JobSet)
    /\ job' = [job EXCEPT !.fed = @ \o JobSet, !.count = @ - Len(JobSet)]
    /\ UNCHANGED <<stage, key, wire, read, cipher, made, result>>

\* Mutant: a rest that ends within the salt is hashed with the whole salt.
RestOfWholeSalt(salt, pw, count) ==
    salt \o (IF count < Len(salt) THEN <<>> ELSE Take(pw, count - Len(salt)))

\* The rest that is hashed is shorter than a set (or one whole set).
RestOf(salt, pw, count) ==
    IF count < Len(salt) THEN Take(salt, count) ELSE salt \o Take(pw, count - Len(salt))

FeedRest ==
    /\ job.count > 0
    /\ job.count <= Len(JobSet)
    /\ job' = NextRound([job EXCEPT !.fed = @ \o RestOf(S2kSalt(job.sec.s2k), job.pw, job.count)])
    /\ UNCHANGED <<stage, key, wire, read, cipher, made, result>>

-----------------------------------------------------------------------------
(* The cipher                                                              *)

NoCipher == [sym |-> 0, key |-> NoKey, iv |-> <<>>, plain |-> <<>>]

\* encrypt_with_iv_regular, decrypt_with_iv_regular
CipherFails(sym, k, iv) ==
    sym # 0 /\ (KeySize(sym) = 0 \/ k.size # KeySize(sym) \/ Len(iv) # BlockSize(sym))
Encrypted(sym, plain) == IF sym = 0 THEN plain ELSE [i \in DOMAIN plain |-> Opaque]

\* What octets decrypt to with another key, or when they are damaged: some of
\* these read as key material, some have the right two octet sum.
Garbage(n) ==
    LET bodies == {[i \in 1..(n - 2) |-> CASE i = 2 -> 8 [] i = 3 -> 9 [] OTHER -> 0],
                   [i \in 1..(n - 2) |-> 255]}
    IN IF n < 2 THEN {[i \in 1..n |-> 255]}
       ELSE {b \o SimpleChecksum(b) : b \in bodies} \cup {[i \in 1..n |-> 255]}

Plaintexts(sec, k) ==
    IF sec.sym = 0 THEN {sec.data}
    ELSE IF /\ sec.data = Encrypted(cipher.sym, cipher.plain)
            /\ sec.sym = cipher.sym /\ k = cipher.key /\ sec.iv = cipher.iv
    THEN {cipher.plain} ELSE Garbage(Len(sec.data))

\* The checksum that EncryptedSecretParams::unlock looks for, and its size.
SumSize(usage) == IF usage = 254 THEN 20 ELSE 2
SumOf(usage, s) == IF usage = 254 THEN Sha1(s) ELSE SimpleChecksum(s)

\* PlainSecretParamsRef::as_repr.  RsaPrivateKey::from_components and validate
\* (external) accept the numbers that belong to the public key.
AsRepr(k, mpis) ==
    LET curve == k.pub.oid[1]
        fits == Len(mpis[1]) <= SecretKeyLength(curve)
    IN CASE k.alg \in RSA -> Len(made.mpis) = 4 /\ \A i \in 1..3 : mpis[i] = made.mpis[i]
         [] k.alg = ECDH -> curve \in {Curve25519, P256} /\ fits
         [] k.alg = EdDSA -> curve = Ed25519 /\ fits
         [] k.alg = ECDSA -> curve = P256 /\ Len(mpis[1]) \in 24..32
         [] k.alg = DSA -> TRUE
         [] OTHER -> FALSE

\* Mutant: the checksum is cut off and not compared.
UnlockedFromUnchecked(k, plain) ==
    LET body == Take(plain, Len(plain) - SumSize(k.sec.usage))
        mpis == Mpis(body, SecretMpis(k.alg))
    IN IF Len(plain) < SumSize(k.sec.usage) THEN {}
       ELSE IF ~ParsesPlain(k.alg, body) THEN {}
       ELSE IF ~AsRepr(k, mpis) THEN {} ELSE {mpis}

\* PlainSecretParams::from_slice, then as_repr
UnlockedFrom(k, plain) ==
    LET size == SumSize(k.sec.usage)
        body == Take(plain, Len(plain) - size)
        mpis == Mpis(body, SecretMpis(k.alg))
    IN IF Len(plain) < size THEN {}
       ELSE IF Drop(plain, Len(body)) # SumOf(k.sec.usage, body) THEN {}
       ELSE IF ~ParsesPlain(k.alg, body) THEN {}
       ELSE IF ~AsRepr(k, mpis) THEN {} ELSE {mpis}

-----------------------------------------------------------------------------
(* Operations                                                              *)

Answer(op, kind, pw, mpis) == [op |-> op, kind |-> kind, pw |-> pw, mpis |-> mpis]
NoResult == Answer("none", "none", <<>>, <<>>)

NoPacket == Packet(FALSE, 4, NoExpiration, 0, [oid |-> <<>>, mpis |-> <<>>, kdf |-> <<>>], NoSecret)

Init ==
    /\ stage = "start"
    /\ key = NoPacket /\ wire = <<>> /\ read = <<>>
    /\ job = NoJob /\ cipher = NoCipher
    /\ made = [by |-> "none", usage |-> 0, sym |-> 0, s2k |-> <<>>, pw |-> <<>>, mpis |-> <<>>,
               damage |-> 0]
    /\ result = NoResult

\* KeyType::generate and the packet SecretKeyParams::generate makes of it.  A
\* password given to encrypt() starts the derivation of a key.
Generates(m) ==
    \/ m.alg \in {1, DSA}
    \/ m.alg = EdDSA /\ Len(m.mpis[1]) <= 32
    \/ m.alg \in {ECDH, ECDSA} /\ m.pub.oid # <<Brainpool>>

Generate(m, version, expiration) ==
    /\ Generates(m)
    /\ key' = Packet(TRUE, version, expiration, m.alg, m.pub, Plain(m.mpis))
    /\ made' = [made EXCEPT !.by = "us", !.mpis = m.mpis]
    /\ stage' = "key"
    /\ UNCHANGED <<wire, read, job, cipher, result>>

\* PlainSecretParams::encrypt: only S2kParams::Cfb, and only for the default version
IvOf(usage, sym, aead) == [i \in 1..IvSize(usage, sym, aead) |-> 200]
Protect(pw, usage, sym, s2k) ==
    /\ key.secret /\ key.sec.usage = 0 /\ made.by = "us" /\ wire = <<>> /\ read = <<>>
    /\ IF usage = 254
       THEN /\ job' = Job("encrypt", pw, Locked(254, sym, 0, s2k, IvOf(254, sym, 0), <<>>))
            /\ stage' = "deriving"
            /\ UNCHANGED result
       ELSE /\ result' = Answer("encrypt", "error", pw, <<>>)
            /\ stage' = "done"
            /\ UNCHANGED job
    /\ UNCHANGED <<key, wire, read, cipher, made>>

FinishEncrypt ==
    LET plain == MpisWriter(key.sec.mpis) \o Sha1(MpisWriter(key.sec.mpis))
        sec == job.sec
    IN /\ job.op = "encrypt"
       /\ job.round = JobRounds \/ ~Hashes(job)
       /\ job' = NoJob
       /\ IF DeriveFails \/ CipherFails(sec.sym, Derived, sec.iv)
          THEN /\ result' = Answer("encrypt", "error", job.pw, <<>>)
               /\ stage' = "done"
               /\ UNCHANGED <<key, cipher, made>>
          ELSE /\ key' = [key EXCEPT !.sec = [sec EXCEPT !.data = Encrypted(sec.sym, plain)]]
               /\ cipher' = [sym |-> sec.sym, key |-> Derived, iv |-> sec.iv, plain |-> plain]
               /\ made' = [made EXCEPT !.usage = 254, !.sym = sec.sym, !.s2k = sec.s2k, !.pw = job.pw]
               /\ stage' = "key"
               /\ UNCHANGED result
       /\ UNCHANGED <<wire, read>>

\* Write the packet, and read it or another one.
Write ==
    /\ wire = <<>>
    /\ IF WritePanics(key) THEN stage' = "panic" /\ UNCHANGED <<wire, result>>
       ELSE IF WriteFails(key)
       THEN stage' = "done" /\ result' = Answer("codec", "error", <<>>, <<>>) /\ UNCHANGED wire
       ELSE wire' = PacketWriter(key) /\ UNCHANGED <<stage, result>>
    /\ UNCHANGED <<key, read, job, cipher, made>>

Read ==
    /\ wire # <<>>
    /\ IF PacketsOf(key.secret, wire) = {}
       THEN stage' = "done" /\ result' = Answer("codec", "error", <<>>, <<>>) /\ UNCHANGED <<key, wire, read>>
       ELSE /\ \E k \in PacketsOf(key.secret, wire) : key' = k
            /\ read' = wire /\ wire' = <<>>
            /\ UNCHANGED <<stage, result>>
    /\ UNCHANGED <<job, cipher, made>>

\* SecretKey::public_key
IntoPublic ==
    /\ key.secret /\ wire = <<>>
    /\ key' = [key EXCEPT !.secret = FALSE, !.sec = NoSecret]
    /\ read' = <<>>
    /\ UNCHANGED <<stage, wire, job, cipher, made, result>>

\* SecretKey::unlock and EncryptedSecretParams::unlock up to the derivation
Unlock(pw) ==
    /\ key.secret /\ wire = <<>>
    /\ CASE key.sec.usage = 0 ->
              /\ stage' = "done"
              /\ result' = (IF AsRepr(key, key.sec.mpis) THEN Answer("unlock", "ok", pw, key.sec.mpis)
                            ELSE Answer("unlock", "error", pw, <<>>))
              /\ UNCHANGED job
         [] key.sec.usage = 253 ->
              stage' = "done" /\ result' = Answer("unlock", "error", pw, <<>>) /\ UNCHANGED job
         [] key.sec.usage \in 1..252 ->
              \* the digest of the password is the key, whatever the algorithm
              /\ stage' = "deriving"
              /\ job' = Job("legacy", pw, key.sec)
              /\ UNCHANGED result
         [] OTHER ->
              stage' = "deriving" /\ job' = Job("unlock", pw, key.sec) /\ UNCHANGED result
    /\ UNCHANGED <<key, wire, read, cipher, made>>

LegacyKey(pw) == DerivedKey(1, <<pw>>, 16)

\* The rest of EncryptedSecretParams::unlock, with the key.
Open(k) ==
    /\ IF CipherFails(job.sec.sym, k, job.sec.iv)
       THEN result' = Answer("unlock", "error", job.pw, <<>>)
       ELSE \E plain \in Plaintexts(job.sec, k) :
              LET mpis == UnlockedFrom(key, plain)
              IN result' = (IF mpis = {} THEN Answer("unlock", "error", job.pw, <<>>)
                            ELSE Answer("unlock", "ok", job.pw, CHOOSE v \in mpis : TRUE))
    /\ stage' = "done"
    /\ job' = NoJob
    /\ UNCHANGED <<key, wire, read, cipher, made>>

FinishUnlock ==
    /\ job.op = "unlock"
    /\ job.round = JobRounds \/ ~Hashes(job)
    /\ IF DeriveFails
       THEN /\ result' = Answer("unlock", "error", job.pw, <<>>) /\ stage' = "done" /\ job' = NoJob
            /\ UNCHANGED <<key, wire, read, cipher, made>>
       ELSE Open(Derived)

FinishLegacy == job.op = "legacy" /\ Open(LegacyKey(job.pw))

\* Mutant: the checksum is taken for a SHA-1 digest whatever the usage is.
ChecksumSha1 ==
    /\ key.secret /\ wire = <<>>
    /\ stage' = IF key.sec.usage # 0 /\ Len(key.sec.data) < 20 THEN "panic" ELSE "done"
    /\ UNCHANGED <<key, wire, read, job, cipher, made, result>>

\* SecretParams::checksum: the last octets, if there are enough
Checksum ==
    /\ key.secret /\ wire = <<>>
    /\ stage' = IF key.sec.usage # 0 /\ Len(key.sec.data) < SumSize(key.sec.usage)
                THEN "panic" ELSE "done"
    /\ UNCHANGED <<key, wire, read, job, cipher, made, result>>

-----------------------------------------------------------------------------
(* The outside: keys of other implementations, and a transport.            *)

\* A key as RFC 4880 (5.5.3) has it, protected with a password or not.
Foreign(m, secret, version, usage, sym, s2k, pw) ==
    LET body == MpisWriter(m.mpis)
        iv == IvOf(usage, sym, 2)
        k == IF usage = 0 THEN NoKey ELSE IF usage \in 1..252 THEN LegacyKey(pw) ELSE KeyOf(s2k, pw, KeySize(sym))
        plain == body \o SumOf(usage, body)
        spec == IF HasS2k(usage) THEN s2k ELSE <<>>
        sec == IF usage = 0 THEN Plain(m.mpis)
               ELSE Locked(usage, sym, 2, spec, iv, Encrypted(sym, plain))
        exp == IF Old(version) THEN 5 ELSE NoExpiration
    IN /\ usage \in 1..252 => usage = sym
       /\ key' = [NoPacket EXCEPT !.secret = secret]
       /\ wire' = PacketWriter(Packet(secret, version, exp, m.alg, m.pub, sec))
       /\ cipher' = [sym |-> sym, key |-> k, iv |-> iv, plain |-> plain]
       /\ made' = [by |-> "other", usage |-> IF secret THEN usage ELSE 0, sym |-> sym, s2k |-> spec,
                   pw |-> pw, mpis |-> m.mpis, damage |-> 0]
       /\ stage' = "key"
       /\ UNCHANGED <<read, job, result>>

\* EncryptedSecretParams::new by an application, which has the usage of its own.
Assemble ==
    /\ stage = "key" /\ made.by = "other" /\ made.usage = 255 /\ read # <<>> /\ wire = <<>>
    /\ key.secret /\ key.sec.usage = 254
    /\ key' = [key EXCEPT !.sec.usage = 255]
    /\ UNCHANGED <<stage, wire, read, job, cipher, made, result>>

\* A transport changes one octet of the secret part, or loses the end of the packet.
SecretStart ==
    LET head == IF Old(wire[1]) THEN 8 ELSE 6
    IN head + PublicEnd(wire[head], Drop(wire, head))
Damage ==
    /\ wire # <<>> /\ key.secret /\ made.damage < MaxDamage
    /\ made' = [made EXCEPT !.damage = @ + 1]
    /\ \/ \E i \in {SecretStart + 1, SecretStart + 4, Len(wire)} \cap DOMAIN wire :
            wire' = [wire EXCEPT ![i] = IF @ >= Opaque THEN Damaged ELSE (@ + 1) % 256]
       \/ \E n \in {3, 25} : n < Len(wire) /\ wire' = Take(wire, Len(wire) - n)
    /\ UNCHANGED <<stage, key, read, job, cipher, result>>

Begin ==
    \E m \in Keys, version \in Versions :
        \/ \E expiration \in {NoExpiration, 5} : Generate(m, version, expiration)
        \/ Foreign(m, FALSE, version, 0, 0, <<>>, <<>>)
        \/ Foreign(m, TRUE, version, 0, 0, <<>>, <<>>)
        \/ \E sym \in Syms \ {0}, pw \in Passwords : Foreign(m, TRUE, version, sym, sym, <<>>, pw)
        \/ \E usage \in 253..255, sym \in Syms, s2k \in S2ks, pw \in Passwords :
             Foreign(m, TRUE, version, usage, sym, s2k, pw)

DeriveAborts ==
    /\ DerivePanics
    /\ stage' = "panic"
    /\ UNCHANGED <<job, key, wire, read, cipher, made, result>>

Derive ==
    \/ job.op # "legacy" /\ DeriveAborts
    \/ /\ job.op # "legacy" /\ ~DerivePanics
       /\ HashOnce \/ StartRound \/ FeedSet \/ FeedRest \/ FinishEncrypt \/ FinishUnlock
    \/ FinishLegacy

Use ==
    \/ \E pw \in Passwords, usage \in {0, 254, 255}, sym \in Syms, s2k \in S2ks :
         Protect(pw, usage, sym, s2k)
    \/ Write \/ Read \/ IntoPublic \/ Checksum \/ Damage \/ Assemble
    \/ \E pw \in Passwords : Unlock(pw)

Next ==
    \/ stage = "start" /\ Begin
    \/ stage = "key" /\ Use
    \/ stage = "deriving" /\ Derive

Spec == Init /\ [][Next]_vars

-----------------------------------------------------------------------------
(* Properties                                                              *)

\* What the code says it can open: not usage 253, whose unlock is not
\* implemented, usage 255 only while it is not taken for 254, and Argon2 only
\* for an algorithm that has a key.
HashKnown(s2k) == s2k[1] \in {0, 1, 3} /\ DigestSize(S2kHash(s2k)) > 0
Argon2Sound(s2k) == s2k[1] = 4 /\ s2k[18] > 0 /\ s2k[19] > 0 /\ s2k[20] \in (3 + Log2Ceil(s2k[19]))..31
Protected ==
    CASE made.usage = 0 -> TRUE
      [] made.usage \in 1..252 -> KeySize(made.sym) = 16
      [] made.usage \in {254, 255} ->
           /\ key.sec.usage = made.usage
           /\ made.sym # 0 => KeySize(made.sym) > 0
           /\ HashKnown(made.s2k) \/ (Argon2Sound(made.s2k) /\ KeySize(made.sym) > 0)
      [] OTHER -> FALSE
Supported ==
    \/ key.alg \in RSA \cup {DSA}
    \/ /\ <<key.alg, key.pub.oid>> \in
             {<<ECDH, <<Curve25519>>>>, <<ECDH, <<P256>>>>, <<EdDSA, <<Ed25519>>>>}
       /\ Len(made.mpis[1]) <= 32
    \/ key.alg = ECDSA /\ key.pub.oid = <<P256>> /\ Len(made.mpis[1]) \in 24..32

\* The password a key was protected with gives back exactly the secret it
\* protects, through every string-to-key specifier, algorithm, version and any
\* number of writes and reads, for the keys of this library and of others
\* (derive_key, EncryptedSecretParams::unlock).
RightPasswordUnlocks ==
    result.op = "unlock" /\ result.pw = made.pw /\ made.damage = 0 /\ Supported /\ Protected
    => result.kind = "ok" /\ result.mpis = made.mpis

\* What is unlocked is the secret that was protected, and only its password
\* unlocks it, even after damage; the exceptions are the modes that only have a
\* two octet sum, the algorithm `plaintext', and a plain key, whose checksum
\* from_slice does not look at (EncryptedSecretParams::unlock, PlainSecretParams).
UnlockedIsGenuine ==
    result.op = "unlock" /\ result.kind = "ok" =>
        \/ /\ result.mpis = made.mpis
           /\ result.pw = made.pw \/ key.sec.usage = 0 \/ key.sec.sym = 0
        \/ key.sec.usage = 0 /\ made.damage > 0
        \/ key.sec.usage \in 1..252 \cup {255}

\* What is written reads as the key it was written from, and what was read is
\* written as the same octets, which is what fingerprints hash; except usage
\* 255, which turns into 254, the expiration of a version 4 key, which is not
\* written, old public keys that are not RSA, which are
\* refused, and the fields of an unknown algorithm, which are dropped
\* (SecretKey::to_writer, from_slice).
RoundTrip ==
    wire # <<>> /\ key.alg # 0 /\ made.damage = 0 =>
        /\ PacketsOf(key.secret, wire) =
             IF ~key.secret /\ Old(key.version) /\ key.alg \notin RSA THEN {}
             ELSE {[key EXCEPT !.sec.usage = IF @ = 255 THEN 254 ELSE @,
                               !.expiration = IF key.version = 4 THEN NoExpiration ELSE @]}
        /\ read # <<>> =>
             wire = read \/ made.usage = 255 \/ PublicMpis(key.alg) = 0

\* The panics: an old key without an expiration is written, a key is derived
\* with a hash that has no size, the checksum is asked for of a key with less data
\* than a checksum: a damaged one, one whose usage 255 has become 254, one whose
\* data were taken for an unknown specifier (to_writer_old, derive_key, EncryptedSecretParams::checksum).
PanicsAreKnown ==
    stage = "panic" =>
        \/ Old(key.version) /\ key.expiration = NoExpiration
        \/ job.op # "none" /\ ~HashKnown(job.sec.s2k)
        \/ made.damage > 0
        \/ made.usage = 255 /\ key.sec.usage = 254
        \/ key.sec.data = <<>> /\ key.sec.s2k[1] \notin {0, 1, 3, 4}

=============================================================================
