------------------------------ MODULE KeyParser ------------------------------
(***************************************************************************)
(* Transferable keys: the parsers generated by key_parser! (src/composed/  *)
(* signed_key/key_parser_macros.rs) for public and for secret keys, the    *)
(* iterator over mixed key rings (PubPrivIterator of signed_key/parse.rs), *)
(* the constructors that drop unsigned parts, and Serialize for keys.      *)
(*                                                                         *)
(* written is the packet sequence as its author wrote it; the packets in   *)
(* ignored are those filter_parsed_packet_results drops because their      *)
(* version or curve is not supported; packets is what is left for the key  *)
(* parser.  A consumer calls next() until None (round 1); then a key it    *)
(* was given is written and parsed again (round 2).                        *)
(***************************************************************************)
EXTENDS Integers, Sequences, SequencesExt, Selection

CONSTANTS
    Inputs,      \* records [written, ignored]: a packet sequence, ids dropped
    Modes        \* the iterators to use, of AllModes

AllModes == {"SignedPublicKeyParser", "SignedSecretKeyParser", "PubPrivIterator"}

PrimaryTags == {"PublicKey", "SecretKey"}
UserTags == {"UserId", "UserAttribute"}
SubkeyTags == {"PublicSubkey", "SecretSubkey"}
ItemTag == PrimaryTags \cup UserTags \cup SubkeyTags \cup {"Signature", "Other", "Err"}

\* "Cert" stands for the types of is_certification, "Other" for the rest.
SigType == {"KeyRevocation", "SubkeyBinding", "SubkeyRevocation", "Cert", "Other", "none"}

\* v4 means something in a primary key, typ in a signature.  An item with tag
\* "Err" is an error of the packet iterator.
Item == [id : Nat, tag : ItemTag, v4 : BOOLEAN, typ : SigType]

\* A user, attribute or subkey with its signatures.
Part == [packet : Item, signatures : Seq(Item)]

Container == {"UserId", "UserAttribute", "PublicSubkey", "SecretSubkey"}

\* parts[c] are the vectors users, user_attributes, public_subkeys and
\* secret_subkeys, named by the tag of the packets they hold.
Key == [primary : Seq(Item), revocations : Seq(Item), directs : Seq(Item),
        parts : [Container -> Seq(Part)]]

NoKey == [primary |-> <<>>, revocations |-> <<>>, directs |-> <<>>,
          parts |-> [c \in Container |-> <<>>]]

Result == [r : {"Ok", "Err"}, key : Key, cause : Seq(Item)]

ASSUME InputsAssumption ==
    \A x \in Inputs : x.written \in Seq(Item) /\ x.ignored \in SUBSET Nat
ASSUME ModesAssumption == Modes \subseteq AllModes

VARIABLES
    input,     \* the input of this round
    mode,      \* which iterator runs
    packets,   \* what the filter leaves of the input
    pos,       \* how many packets were taken
    pc,        \* where next() is
    keyTag,    \* the primary tag the running parser looks for
    key,       \* the key under construction
    cur,       \* the container whose last part collects signatures
    inner,     \* PubPrivIterator still has its packets
    out,       \* what the consumer was given in this round
    round,
    first      \* the key of round 1 that round 2 parses again

vars == <<input, mode, packets, pos, pc, keyTag, key, cur, inner, out, round, first>>

-----------------------------------------------------------------------------
(* Constructors and writer                                                 *)

\* Vec::retain, for signatures: those of the given types stay.
Retain(sigs, types) == Select(sigs, { i \in DOMAIN sigs : sigs[i].typ \in types })

\* SignedUser::new and SignedUserAttribute::new keep only certifications.
RetainCertifications(part) ==
    [part EXCEPT !.signatures = Retain(@, {"Cert"})]

\* SignedPublicSubKey::new and SignedSecretSubKey::new keep only bindings and
\* revocations.
\* Mutant: revocations of the subkey are taken for foreign signatures.
RetainBindingsOnly(part) ==
    [part EXCEPT !.signatures = Retain(@, {"SubkeyBinding"})]
RetainBindings(part) ==
    [part EXCEPT !.signatures = Retain(@, {"SubkeyBinding", "SubkeyRevocation"})]

SignedParts(ps) == Select(ps, { i \in DOMAIN ps : ps[i].signatures # <<>> })

\* SignedKeyDetails::new drops users and attributes without a signature.
NewDetails(k, c) ==
    SignedParts([i \in DOMAIN k.parts[c] |-> RetainCertifications(k.parts[c][i])])

\* SignedPublicKey::new and SignedSecretKey::new drop subkeys without one.
NewSubkeys(k, c) ==
    SignedParts([i \in DOMAIN k.parts[c] |-> RetainBindings(k.parts[c][i])])

NewKey(k) ==
    [k EXCEPT !.parts = [c \in Container |-> IF c \in UserTags THEN NewDetails(k, c)
                                                              ELSE NewSubkeys(k, c)]]

SerializeParts(ps) ==
    FlattenSeq([i \in DOMAIN ps |-> <<ps[i].packet>> \o ps[i].signatures])

SerializeDetails(k) ==
    k.revocations \o k.directs
    \o SerializeParts(k.parts["UserId"])
    \o SerializeParts(k.parts["UserAttribute"])

\* Mutant: subkeys are written before the details.
SerializeSubkeysFirst(k) ==
    k.primary
    \o SerializeParts(k.parts["PublicSubkey"])
    \o SerializeParts(k.parts["SecretSubkey"])
    \o SerializeDetails(k)

Serialize(k) ==
    k.primary
    \o SerializeDetails(k)
    \o SerializeParts(k.parts["PublicSubkey"])
    \o SerializeParts(k.parts["SecretSubkey"])

\* filter_parsed_packet_results, for packets of unsupported versions.
Delivered(x) ==
    Select(x.written, { i \in DOMAIN x.written : x.written[i].id \notin x.ignored })

-----------------------------------------------------------------------------

Peek == packets[pos + 1]
AtEnd == pos = Len(packets)
PeekIn(tags) == ~AtEnd /\ Peek.tag \in tags

\* Public keys have public subkeys only, secret keys have both kinds.
SubkeyTagsOf(tag) == IF tag = "PublicKey" THEN {"PublicSubkey"} ELSE SubkeyTags

GiveErr(cause) ==
    out' = Append(out, [r |-> "Err", key |-> NoKey, cause |-> cause])

\* next() of a key parser begins.
Begin(tag) ==
    /\ pc' = "search"
    /\ keyTag' = tag
    /\ cur' = "none"

CallKeyParser ==
    /\ pc = "idle" /\ mode # "PubPrivIterator"
    /\ Begin(IF mode = "SignedPublicKeyParser" THEN "PublicKey" ELSE "SecretKey")
    /\ UNCHANGED <<input, mode, packets, pos, key, inner, out, round, first>>

\* PubPrivIterator::next peeks to choose the parser.  Its packets are put back
\* behind a key, and behind a packet that starts none, but not behind an error.
CallPubPriv ==
    /\ pc = "idle" /\ mode = "PubPrivIterator"
    /\ \/ /\ inner /\ PeekIn(PrimaryTags)
          /\ Begin(Peek.tag)
          /\ UNCHANGED <<inner, out>>
       \/ /\ inner /\ PeekIn({"Err"})
          /\ GiveErr(<<Peek>>)
          /\ inner' = FALSE
          /\ UNCHANGED <<pc, keyTag, cur>>
       \/ /\ ~(inner /\ PeekIn(PrimaryTags \cup {"Err"}))
          /\ inner' = (inner /\ ~AtEnd)
          /\ pc' = "exhausted"
          /\ UNCHANGED <<keyTag, cur, out>>
    /\ UNCHANGED <<input, mode, packets, pos, key, round, first>>

\* Ignore packets until one is the primary key.
SearchSkip ==
    /\ pc = "search" /\ PeekIn(ItemTag \ {keyTag, "Err"})
    /\ pos' = pos + 1
    /\ UNCHANGED <<input, mode, packets, pc, keyTag, key, cur, inner, out, round, first>>

\* The vectors of the key start empty.
FreshKey(p) == [NoKey EXCEPT !.primary = <<p>>]

SearchPrimary ==
    /\ pc = "search" /\ PeekIn({keyTag})
    /\ pos' = pos + 1
    /\ key' = FreshKey(Peek)
    /\ pc' = "signatures"
    /\ UNCHANGED <<input, mode, packets, keyTag, cur, inner, out, round, first>>

SearchErr ==
    /\ pc = "search" /\ PeekIn({"Err"})
    /\ pos' = pos + 1
    /\ GiveErr(<<Peek>>)
    /\ pc' = "idle"
    /\ UNCHANGED <<input, mode, packets, keyTag, key, cur, inner, round, first>>

SearchEnd ==
    /\ pc = "search" /\ AtEnd
    /\ pc' = "exhausted"
    /\ UNCHANGED <<input, mode, packets, pos, keyTag, key, cur, inner, out, round, first>>

\* Signatures on the primary key.
PrimarySignature ==
    /\ pc = "signatures" /\ PeekIn({"Signature"})
    /\ pos' = pos + 1
    /\ key' = IF Peek.typ = "KeyRevocation"
              THEN [key EXCEPT !.revocations = Append(@, Peek)]
              ELSE [key EXCEPT !.directs = Append(@, Peek)]
    /\ UNCHANGED <<input, mode, packets, pc, keyTag, cur, inner, out, round, first>>

PrimarySignaturesEnd ==
    /\ pc = "signatures" /\ ~PeekIn({"Signature"})
    /\ pc' = "users"
    /\ UNCHANGED <<input, mode, packets, pos, keyTag, key, cur, inner, out, round, first>>

\* A part starts; the signatures that follow are its own.
TakePart ==
    /\ pos' = pos + 1
    /\ cur' = Peek.tag
    /\ key' = [key EXCEPT !.parts[Peek.tag] =
                 Append(@, [packet |-> Peek, signatures |-> <<>>])]

User ==
    /\ pc = "users" /\ PeekIn(UserTags)
    /\ TakePart
    /\ UNCHANGED <<input, mode, packets, pc, keyTag, inner, out, round, first>>

\* The part the loop over signatures belongs to.
\* Mutant: signatures are pushed to the first part of the container.
FirstPart(ps) == 1
OpenPart(ps) == Len(ps)

PartSignature ==
    /\ pc \in {"users", "subkeys"} /\ cur # "none" /\ PeekIn({"Signature"})
    /\ pos' = pos + 1
    /\ key' = [key EXCEPT
                 !.parts[cur][OpenPart(key.parts[cur])].signatures = Append(@, Peek)]
    /\ UNCHANGED <<input, mode, packets, pc, keyTag, cur, inner, out, round, first>>

UsersEnd ==
    /\ pc = "users"
    /\ ~PeekIn(UserTags) /\ ~(cur # "none" /\ PeekIn({"Signature"}))
    /\ pc' = "subkeys"
    /\ cur' = "none"
    /\ UNCHANGED <<input, mode, packets, pos, keyTag, key, inner, out, round, first>>

Subkey ==
    /\ pc = "subkeys" /\ PeekIn(SubkeyTagsOf(keyTag))
    /\ key.primary[1].v4
    /\ TakePart
    /\ UNCHANGED <<input, mode, packets, pc, keyTag, inner, out, round, first>>

\* Only V4 keys can have subkeys: the packet is taken, the key is given up.
SubkeyRejected ==
    /\ pc = "subkeys" /\ PeekIn(SubkeyTagsOf(keyTag))
    /\ ~key.primary[1].v4
    /\ pos' = pos + 1
    /\ GiveErr(<<>>)
    /\ pc' = "idle"
    /\ UNCHANGED <<input, mode, packets, keyTag, key, cur, inner, round, first>>

\* Whatever comes next is not of this key, and stays for the next call.
LeavesTheNext == pos

SubkeysEnd ==
    /\ pc = "subkeys"
    /\ ~PeekIn(SubkeyTagsOf(keyTag)) /\ ~(cur # "none" /\ PeekIn({"Signature"}))
    /\ pos' = LeavesTheNext
    /\ out' = Append(out, [r |-> "Ok", key |-> NewKey(key), cause |-> <<>>])
    /\ pc' = "idle"
    /\ UNCHANGED <<input, mode, packets, keyTag, key, cur, inner, round, first>>

\* A key of round 1 is written out and parsed again.
Reparse ==
    /\ pc = "exhausted" /\ round = 1
    /\ \E i \in DOMAIN out :
          /\ out[i].r = "Ok"
          /\ first' = out[i].key
          /\ packets' = Serialize(out[i].key)
          /\ input' = [written |-> packets', ignored |-> {}]
    /\ round' = 2
    /\ pos' = 0
    /\ pc' = "idle"
    /\ inner' = TRUE
    /\ out' = <<>>
    /\ UNCHANGED <<mode, keyTag, key, cur>>

-----------------------------------------------------------------------------

Init ==
    /\ input \in Inputs
    /\ mode \in Modes
    /\ packets = Delivered(input)
    /\ pos = 0
    /\ pc = "idle"
    /\ keyTag = "PublicKey"
    /\ key = NoKey
    /\ cur = "none"
    /\ inner = TRUE
    /\ out = <<>>
    /\ round = 1
    /\ first = NoKey

Next ==
    \/ CallKeyParser
    \/ CallPubPriv
    \/ SearchSkip
    \/ SearchPrimary
    \/ SearchErr
    \/ SearchEnd
    \/ PrimarySignature
    \/ PrimarySignaturesEnd
    \/ User
    \/ PartSignature
    \/ UsersEnd
    \/ Subkey
    \/ SubkeyRejected
    \/ SubkeysEnd
    \/ Reparse

Spec == Init /\ [][Next]_vars

-----------------------------------------------------------------------------
(* Properties                                                              *)

\* The written packet a signature follows, signatures in between left out.
Owner(s, i) == s[Max({ j \in 1..i : j < i /\ s[j].tag # "Signature" })]

\* p is the owner the author gave to the signature sig.
OwnedBy(sig, p) ==
    \E i \in DOMAIN input.written :
       input.written[i] = sig /\ i > 1
          /\ (\E j \in 1..i : j < i /\ input.written[j].tag # "Signature")
          /\ Owner(input.written, i) = p

Attributed(k) ==
    /\ \A i \in DOMAIN k.revocations : OwnedBy(k.revocations[i], k.primary[1])
    /\ \A i \in DOMAIN k.directs : OwnedBy(k.directs[i], k.primary[1])
    /\ \A c \in Container : \A i \in DOMAIN k.parts[c] :
          \A j \in DOMAIN k.parts[c][i].signatures :
             OwnedBy(k.parts[c][i].signatures[j], k.parts[c][i].packet)

\* Unless the filter dropped one of the packets that signatures follow, every
\* signature of a returned key is attached to the packet it was written for.
SignaturesStayWithOwner ==
    (\A i \in DOMAIN input.written :
        input.written[i].id \in input.ignored => input.written[i].tag = "Signature")
    => \A i \in DOMAIN out : out[i].r = "Ok" => Attributed(out[i].key)

\* What a transferable key looks like, said without a parser: the block of a
\* primary key runs up to the next primary key.
BlockEnd(s, i) ==
    Min({ j \in (i + 1)..(Len(s) + 1) : j = Len(s) + 1 \/ s[j].tag \in PrimaryTags })

\* The signatures right behind the packet at i.
SignaturesBehind(s, i) ==
    { m \in (i + 1)..Len(s) : \A j \in (i + 1)..m : s[j].tag = "Signature" }

\* Users and attributes come before subkeys of the kinds allowed, and there is
\* nothing else; only a V4 key has subkeys.
Orderly(s, i) ==
    LET e == BlockEnd(s, i) IN
    /\ \A j \in (i + 1)..(e - 1) :
          s[j].tag \in UserTags \cup SubkeyTagsOf(s[i].tag) \cup {"Signature"}
    /\ \A j, k \in (i + 1)..(e - 1) :
          s[j].tag \in SubkeyTags /\ s[k].tag \in UserTags => k < j
    /\ \A j \in (i + 1)..(e - 1) : s[j].tag \in SubkeyTags => s[i].v4

PartAt(s, i, types) ==
    [packet |-> s[i],
     signatures |-> Select(s, { m \in SignaturesBehind(s, i) : s[m].typ \in types })]

PartsOf(s, i, c) ==
    LET types == IF c \in SubkeyTags THEN {"SubkeyBinding", "SubkeyRevocation"} ELSE {"Cert"} IN
    Select([j \in DOMAIN s |-> PartAt(s, j, types)],
           { j \in (i + 1)..(BlockEnd(s, i) - 1) :
                s[j].tag = c /\ PartAt(s, j, types).signatures # <<>> })

KeyAt(s, i) ==
    [primary |-> <<s[i]>>,
     revocations |-> PartAt(s, i, {"KeyRevocation"}).signatures,
     directs |-> PartAt(s, i, SigType \ {"KeyRevocation"}).signatures,
     parts |-> [c \in Container |-> PartsOf(s, i, c)]]

Wanted ==
    CASE mode = "SignedPublicKeyParser" -> {"PublicKey"}
      [] mode = "SignedSecretKeyParser" -> {"SecretKey"}
      [] mode = "PubPrivIterator" -> PrimaryTags

\* A ring of orderly keys is read completely: one key per primary key of the
\* wanted kind, each with every signed part, in order, nothing lost or moved.
KeyRingComplete ==
    pc = "exhausted" /\ (Len(packets) > 0 => packets[1].tag \in PrimaryTags)
       /\ (\A i \in DOMAIN packets : packets[i].tag \in PrimaryTags => Orderly(packets, i)) =>
       out = Select([i \in DOMAIN packets |->
                       [r |-> "Ok", key |-> KeyAt(packets, i), cause |-> <<>>]],
                    { i \in DOMAIN packets : packets[i].tag \in Wanted })

\* An error of the packet iterator is never lost behind a peek nor reported
\* twice: the key parsers hand on each one, in order.
ErrorsReported ==
    pc = "exhausted" /\ mode # "PubPrivIterator" =>
       FlattenSeq([i \in DOMAIN out |-> out[i].cause])
          = Select(packets, { i \in DOMAIN packets : packets[i].tag = "Err" })

\* A returned key holds only packets of its own block.
OneBlock ==
    \A n \in DOMAIN out : out[n].r = "Ok" =>
       \E i \in DOMAIN packets :
          /\ <<packets[i]>> = out[n].key.primary
          /\ \A p \in ToSet(Serialize(out[n].key)) :
                \E j \in i..(BlockEnd(packets, i) - 1) : packets[j] = p

\* Writing a parsed key and parsing it again gives the same key: what the
\* constructors drop and the order in which Serialize writes lose nothing more.
RoundTrip ==
    pc = "exhausted" /\ round = 2 =>
       out = <<[r |-> "Ok", key |-> first, cause |-> <<>>]>>

\* A key never takes a packet of its neighbours, nor a part of it a signature
\* of another part (the loops of key_parser_macros.rs).
OwnPacketsOnly == OneBlock /\ SignaturesStayWithOwner

\* A ring is read to its end: every key with all it has, every error.
RingComplete == KeyRingComplete /\ ErrorsReported

=============================================================================
