------------------------- MODULE CertificatesProofs -------------------------
(***************************************************************************)
(* Proofs about certificates, for every set of parameters, every number of *)
(* users, attributes and subkeys and every number of edits: what verify()  *)
(* accepts was signed as it stands, what sign() returns verifies, and what *)
(* is signed anew is what was asked for.                                   *)
(***************************************************************************)
EXTENDS Certificates, SelectionProofs

-----------------------------------------------------------------------------
(* Types.  A certificate over a set S of signatures holds no others.       *)

SignatureTypes == CertTypes \cup BindingTypes \cup {"KeyBinding", "Key", "KeyRevocation"}

\* User IDs and the contents of attributes, and preferences.
Ids == UNION { {p.uid} \cup Range(p.uids) \cup Range(p.attrs) : p \in Params }
Prefs == { p.prefs : p \in Params } \cup {"none"}

Sub == [primary : BOOLEAN, flags : SUBSET Flags, prefs : Prefs, rkey : BOOLEAN, fp : KeyNames \cup {"none"}]

\* What may be hashed.
Tags == {"UserId", "UserAttribute"}
Parts == Seq(KeyNames \cup Ids \cup Tags)

Sig ==
    [v : {"V3", "V4"}, typ : SignatureTypes, sub : Sub, issuers : SUBSET KeyNames,
     value : [by : KeyNames, hash : [parts : Parts, typ : SignatureTypes, sub : Sub]]]

KeyCalled(names) ==
    [name : names, kt : KeyType, v : {"V3", "V4", "V5"}, exp : BOOLEAN, pw : STRING]
PrimaryKeys == KeyCalled({PrimaryName})
Subkeys == KeyCalled(Range(SubkeyNames))
AnyKey == KeyCalled(KeyNames)

UnsignedSubkey == [key : Subkeys, flags : SUBSET Flags]
UnsignedKey ==
    [secret : BOOLEAN, primary : PrimaryKeys, uid : Ids, uids : Seq(Ids), attrs : Seq(Ids),
     flags : SUBSET Flags, prefs : Prefs, rkey : BOOLEAN,
     pubsubs : Seq(UnsignedSubkey), secsubs : Seq(UnsignedSubkey)]

Named(S) == [id : Ids, sigs : Seq(S)]
Bound(S) == [key : Subkeys, sigs : Seq(S)]
CertOf(S) ==
    [secret : BOOLEAN, primary : PrimaryKeys, revs : Seq(S), directs : Seq(S),
     users : Seq(Named(S)), attrs : Seq(Named(S)),
     pubsubs : Seq(Bound(S)), secsubs : Seq(Bound(S))]

-----------------------------------------------------------------------------
(* The inductive invariant.                                                *)

\* Signature s says what its maker meant with m: the hash it carries is that
\* of a certification, of a binding, of a key, or, from the sign() of the key
\* packets, of the other key of a binding alone.
Backs(m, s) ==
    /\ m.by = s.value.by /\ m.typ = s.typ /\ m.sub = s.sub
    /\ \/ \E a \in KeyNames, tag \in Tags, id \in Ids :
            /\ m.about = <<a, tag, id>>
            /\ s.value.hash.parts = IF s.v = "V3" THEN <<a, id>> ELSE <<a, tag, id>>
       \/ \E n \in KeyNames :
            /\ s.v = "V4" /\ m.about = <<m.by, "Subkey", n>>
            /\ s.value.hash.parts = <<m.by, n>>
       \/ \E n \in KeyNames :
            /\ s.v = "V4" /\ m.about = <<n>>
            /\ s.value.hash.parts = <<n>>
       \/ \E n \in KeyNames :
            /\ n # m.by
            /\ s.v = "V4" /\ m.about = <<m.by, "Subkey", n>>
            /\ s.value.hash.parts = <<n>>

Backed(ms) == { s \in Sig : \E m \in ms : Backs(m, s) }

\* Nothing but signatures that were made is anywhere.
Held ==
    /\ asked \in Params /\ fresh \in BOOLEAN /\ kept \in BOOLEAN
    /\ stage = "unsigned" => unsigned \in UnsignedKey
    /\ stage = "signed" => cert \in CertOf(Backed(made))
    /\ pool \in Seq(Backed(made))

\* What validate() and sign() let through.
Passed ==
    /\ stage \in {"unsigned", "signed"} => Validate(asked)
    /\ stage = "unsigned" => unsigned.primary.kt = asked.kt
    /\ stage = "signed" => cert.primary.kt = asked.kt
    /\ fresh => asked.kt.alg # "ECDH"

\* The parts of a key that is not signed are those asked for ...
SameUnsigned(p, u) ==
    /\ u.uid = p.uid /\ u.uids = p.uids /\ u.attrs = p.attrs
    /\ u.flags = p.flags /\ u.prefs = p.prefs /\ u.rkey = p.rkey
    /\ Len(SubKeysOf(u)) = Len(p.subkeys)
    /\ \A i \in 1..Len(p.subkeys) : SubKeysOf(u)[i].flags = p.subkeys[i].flags

\* ... and so are those of a certificate, where the first signature behind a
\* component is the one that sign() put there.
First(component, types) == component.sigs # <<>> /\ component.sigs[1].typ \in types
AllFirst(c, types) == \A i \in 1..Len(c) : First(c[i], types)

SameUsers(p, users) ==
    /\ Len(users) = Len(p.uids) + 1
    /\ AllFirst(users, CertTypes)
    /\ users[1].id = p.uid
    /\ \A i \in 1..Len(p.uids) : users[i + 1].id = p.uids[i]
    /\ LET sub == users[1].sigs[1].sub IN
       /\ sub.primary = TRUE /\ sub.flags = p.flags /\ sub.prefs = p.prefs
       /\ sub.rkey = p.rkey

SameAttrs(p, attrs) ==
    /\ Len(attrs) = Len(p.attrs)
    /\ AllFirst(attrs, CertTypes)
    /\ \A i \in 1..Len(attrs) : attrs[i].id = p.attrs[i]

SameSubkeys(p, subs) ==
    /\ Len(subs) = Len(p.subkeys)
    /\ AllFirst(subs, BindingTypes)
    /\ \A i \in 1..Len(subs) : subs[i].sigs[1].sub.flags = p.subkeys[i].flags

SameSigned(p, c) == SameUsers(p, c.users) /\ SameAttrs(p, c.attrs) /\ SameSubkeys(p, SubKeysOf(c))

Same ==
    kept => /\ stage = "unsigned" => SameUnsigned(asked, unsigned)
            /\ stage = "signed" => SameSigned(asked, cert)

CInv == Held /\ Passed /\ SignedVerifies /\ Same

-----------------------------------------------------------------------------
(* new(): what is dropped when a certificate is put together.              *)

\* A set of components whose signatures, from S, can be replaced.
Replaceable(U, S) ==
    \A u \in U : /\ "sigs" \in DOMAIN u /\ u.sigs \in Seq(S)
                 /\ \A q \in Seq(S) : [u EXCEPT !.sigs = q] \in U

\* The filter of signature types keeps signatures that were there, and the
\* first one if its type is right.
LEMMA OfTypesFacts ==
    ASSUME NEW S, NEW sigs \in Seq(S), NEW types
    PROVE  /\ OfTypes(sigs, types) \in Seq(S)
           /\ \A j \in 1..Len(OfTypes(sigs, types)) : \E i \in 1..Len(sigs) : OfTypes(sigs, types)[j] = sigs[i]
           /\ (sigs # <<>> /\ sigs[1].typ \in types) =>
                 OfTypes(sigs, types) # <<>> /\ OfTypes(sigs, types)[1] = sigs[1]
<1> DEFINE P == { j \in DOMAIN sigs : sigs[j].typ \in types }
<1>1. OfTypes(sigs, types) = Select(sigs, P)
  BY DEF OfTypes
<1>2. ASSUME sigs # <<>>, sigs[1].typ \in types PROVE 1 \in P /\ Len(sigs) >= 1
  <2>1. Len(sigs) >= 1 /\ DOMAIN sigs = 1..Len(sigs)
    BY <1>2
  <2>2. 1 \in DOMAIN sigs
    BY <2>1
  <2>3. QED
    BY <1>2, <2>1, <2>2
<1> HIDE DEF P
<1> DEFINE r == Select(sigs, P)
<1>3. /\ r \in Seq(S)
      /\ \A j \in 1..Len(r) : \E i \in 1..Len(sigs) : i \in P /\ r[j] = sigs[i]
      /\ 1 \in P /\ Len(sigs) >= 1 => Len(r) >= 1 /\ r[1] = sigs[1]
  BY SelectFacts
<1> HIDE DEF r
<1>4. Len(r) >= 1 => r # <<>>
  OBVIOUS
<1>5. OfTypes(sigs, types) = r
  BY <1>1 DEF r
<1>6. QED
  BY <1>2, <1>3, <1>4, <1>5

\* One component with its signatures filtered.
Typed(u, types) == [u EXCEPT !.sigs = OfTypes(@, types)]

\* The filter of signature types changes nothing but a component's signatures.
LEMMA TypedFacts ==
    ASSUME NEW S, NEW U, Replaceable(U, S), NEW u \in U, NEW types
    PROVE  /\ Typed(u, types) \in U
           /\ Typed(u, types) = [u EXCEPT !.sigs = OfTypes(u.sigs, types)]
           /\ OfTypes(u.sigs, types) \in Seq(S)
<1>1. u.sigs \in Seq(S)
  BY DEF Replaceable
<1>2. OfTypes(u.sigs, types) \in Seq(S)
  BY <1>1, OfTypesFacts
<1>3. Typed(u, types) = [u EXCEPT !.sigs = OfTypes(u.sigs, types)]
  BY DEF Typed
<1>4. QED
  BY <1>2, <1>3 DEF Replaceable

\* Every component has a signature of the right type, and keeps its place.
EveryTyped(c, types) == \A i \in 1..Len(c) : Typed(c[i], types).sigs # <<>>
InPlace(c, types) ==
    /\ Len(Retain(c, types)) = Len(c)
    /\ \A j \in 1..Len(c) : Retain(c, types)[j] = Typed(c[j], types)

\* new() of the components: each one that is left was there, has a signature,
\* and lost only signatures; where every one has a signature of the right type
\* none is lost or changes its place.
LEMMA RetainFacts ==
    ASSUME NEW S, NEW U, Replaceable(U, S), NEW c \in Seq(U), NEW types
    PROVE  /\ Retain(c, types) \in Seq(U)
           /\ \A j \in 1..Len(Retain(c, types)) :
                \E i \in 1..Len(c) : Retain(c, types)[j] = Typed(c[i], types)
                                     /\ Retain(c, types)[j].sigs # <<>>
           /\ EveryTyped(c, types) => InPlace(c, types)
<1> DEFINE t == [i \in DOMAIN c |-> Typed(c[i], types)]
           P == { i \in DOMAIN t : t[i].sigs # <<>> }
<1>1. Retain(c, types) = Select(t, P)
  BY DEF Retain, Typed
<1>2. DOMAIN c = 1..Len(c) /\ Len(c) \in Nat /\ \A i \in 1..Len(c) : c[i] \in U
  OBVIOUS
<1>3. \A i \in 1..Len(c) : Typed(c[i], types) \in U
  BY <1>2, TypedFacts
<1>4. t \in Seq(U) /\ Len(t) = Len(c) /\ \A i \in 1..Len(c) : t[i] = Typed(c[i], types)
  BY <1>2, <1>3
<1>5. \A i \in 1..Len(c) : i \in P <=> Typed(c[i], types).sigs # <<>>
  BY <1>2, <1>4
<1> HIDE DEF t, P
<1> DEFINE r == Select(t, P)
<1>6. /\ r \in Seq(U)
      /\ \A j \in 1..Len(r) : \E i \in 1..Len(t) : i \in P /\ r[j] = t[i]
  BY <1>4, SelectFacts
<1>7. ASSUME EveryTyped(c, types) PROVE r = t
  <2>1. \A i \in 1..Len(t) : i \in P
    BY <1>4, <1>5, <1>7 DEF EveryTyped
  <2>2. QED
    BY <1>4, <2>1, SelectAll
<1> HIDE DEF r
<1>8. Retain(c, types) = r
  BY <1>1 DEF r
<1>9. ASSUME NEW j \in 1..Len(r) PROVE \E i \in 1..Len(c) : r[j] = Typed(c[i], types) /\ r[j].sigs # <<>>
  <2>1. PICK i \in 1..Len(t) : i \in P /\ r[j] = t[i]
    BY <1>6
  <2>2. QED
    BY <1>4, <1>5, <2>1
<1>10. EveryTyped(c, types) => InPlace(c, types)
  BY <1>4, <1>7, <1>8 DEF InPlace
<1>11. QED
  BY <1>6, <1>8, <1>9, <1>10

\* Users and attributes, and subkeys, are such components.
LEMMA ComponentsReplaceable ==
    ASSUME NEW S
    PROVE  Replaceable(Named(S), S) /\ Replaceable(Bound(S), S)
BY DEF Replaceable, Named, Bound

\* new() of a certificate keeps its type, and does nothing but filter the
\* components.
LEMMA NewFacts ==
    ASSUME NEW S, NEW c \in CertOf(S)
    PROVE  /\ New(c) \in CertOf(S)
           /\ New(c).users = Retain(c.users, CertTypes)
           /\ New(c).attrs = Retain(c.attrs, CertTypes)
           /\ New(c).pubsubs = Retain(c.pubsubs, BindingTypes)
           /\ New(c).secsubs = Retain(c.secsubs, BindingTypes)
           /\ New(c).revs = c.revs /\ New(c).directs = c.directs
           /\ New(c).primary = c.primary /\ New(c).secret = c.secret
<1>1. /\ c.users \in Seq(Named(S)) /\ c.attrs \in Seq(Named(S))
      /\ c.pubsubs \in Seq(Bound(S)) /\ c.secsubs \in Seq(Bound(S))
  BY DEF CertOf
<1>2. /\ Retain(c.users, CertTypes) \in Seq(Named(S)) /\ Retain(c.attrs, CertTypes) \in Seq(Named(S))
      /\ Retain(c.pubsubs, BindingTypes) \in Seq(Bound(S))
      /\ Retain(c.secsubs, BindingTypes) \in Seq(Bound(S))
  BY <1>1, RetainFacts, ComponentsReplaceable
<1>3. QED
  BY <1>2 DEF New, CertOf

\* The components new() leaves behind a key hold signatures that were there.
LEMMA RetainSigs ==
    ASSUME NEW S, NEW U, Replaceable(U, S), NEW c \in Seq(U), NEW types,
           NEW j \in 1..Len(Retain(c, types))
    PROVE  \E i \in 1..Len(c) :
             /\ Retain(c, types)[j] = [c[i] EXCEPT !.sigs = OfTypes(c[i].sigs, types)]
             /\ OfTypes(c[i].sigs, types) # <<>>
             /\ OfTypes(c[i].sigs, types) \in Seq(S)
             /\ \A n \in 1..Len(OfTypes(c[i].sigs, types)) :
                  \E k \in 1..Len(c[i].sigs) : OfTypes(c[i].sigs, types)[n] = c[i].sigs[k]
<1>1. PICK i \in 1..Len(c) : Retain(c, types)[j] = Typed(c[i], types)
                             /\ Retain(c, types)[j].sigs # <<>>
  BY RetainFacts
<1>2. c[i] \in U /\ c[i].sigs \in Seq(S) /\ "sigs" \in DOMAIN c[i]
  BY DEF Replaceable
<1>3. /\ Typed(c[i], types) = [c[i] EXCEPT !.sigs = OfTypes(c[i].sigs, types)]
      /\ OfTypes(c[i].sigs, types) \in Seq(S)
  BY <1>2, TypedFacts
<1>4. Typed(c[i], types).sigs = OfTypes(c[i].sigs, types)
  BY <1>2, <1>3
<1>5. OfTypes(c[i].sigs, types) # <<>>
  BY <1>1, <1>4
<1>6. \A n \in 1..Len(OfTypes(c[i].sigs, types)) :
         \E k \in 1..Len(c[i].sigs) : OfTypes(c[i].sigs, types)[n] = c[i].sigs[k]
  BY <1>2, OfTypesFacts
<1>7. Retain(c, types)[j] = [c[i] EXCEPT !.sigs = OfTypes(c[i].sigs, types)]
  BY <1>1, <1>3
<1>8. QED
  BY <1>3, <1>5, <1>6, <1>7, Zenon

\* A certificate over fewer signatures is one over more.
LEMMA CertOfGrows ==
    ASSUME NEW S, NEW T, S \subseteq T
    PROVE  /\ \A q \in Seq(S) : q \in Seq(T)
           /\ \A c \in CertOf(S) : c \in CertOf(T)
<1>1. \A q \in Seq(S) : q \in Seq(T)
  OBVIOUS
<1>2. \A q \in Named(S) : q \in Named(T)
  BY <1>1 DEF Named
<1>3. \A q \in Bound(S) : q \in Bound(T)
  BY <1>1 DEF Bound
<1>4. \A q \in Seq(Named(S)) : q \in Seq(Named(T))
  BY <1>2
<1>5. \A q \in Seq(Bound(S)) : q \in Seq(Bound(T))
  BY <1>3
<1>6. ASSUME NEW c \in CertOf(S) PROVE c \in CertOf(T)
  BY <1>1, <1>4, <1>5, <1>6 DEF CertOf
<1>7. QED
  BY <1>1, <1>6

\* A signature that is backed stays so when more is signed.
LEMMA BackedGrows ==
    ASSUME NEW A, NEW B, A \subseteq B
    PROVE  Backed(A) \subseteq Backed(B)
BY DEF Backed

-----------------------------------------------------------------------------
(* What verifies still does when it is filtered or made public.            *)

\* Signatures that were all there are among those that were there.
LEMMA RangeOfSigs ==
    ASSUME NEW S, NEW q \in Seq(S), NEW r \in Seq(S),
           \A n \in 1..Len(q) : \E k \in 1..Len(r) : q[n] = r[k]
    PROVE  Range(q) \subseteq Range(r)
<1>1. DOMAIN q = 1..Len(q) /\ DOMAIN r = 1..Len(r)
  OBVIOUS
<1>2. QED
  BY <1>1 DEF Range

\* Users and attributes that verify still do after new(), which drops signatures
\* and users but adds none.
LEMMA RetainUsersVerify ==
    ASSUME NEW S, NEW c \in Seq(Named(S)), NEW key
    PROVE  /\ (\A i \in DOMAIN c : VerifyUser(c[i], key)) =>
                \A i \in DOMAIN Retain(c, CertTypes) : VerifyUser(Retain(c, CertTypes)[i], key)
           /\ (\A i \in DOMAIN c : VerifyAttribute(c[i], key)) =>
                \A i \in DOMAIN Retain(c, CertTypes) : VerifyAttribute(Retain(c, CertTypes)[i], key)
<1> DEFINE r == Retain(c, CertTypes)
<1>1. r \in Seq(Named(S))
  BY RetainFacts, ComponentsReplaceable
<1>2. DOMAIN c = 1..Len(c) /\ DOMAIN r = 1..Len(r)
  BY <1>1
<1>3. ASSUME NEW j \in 1..Len(r)
      PROVE  \E i \in 1..Len(c) : r[j].id = c[i].id /\ r[j].sigs # <<>> /\ Range(r[j].sigs) \subseteq Range(c[i].sigs)
  <2>1. PICK i \in 1..Len(c) :
             /\ r[j] = [c[i] EXCEPT !.sigs = OfTypes(c[i].sigs, CertTypes)]
             /\ OfTypes(c[i].sigs, CertTypes) # <<>>
             /\ OfTypes(c[i].sigs, CertTypes) \in Seq(S)
             /\ \A n \in 1..Len(OfTypes(c[i].sigs, CertTypes)) :
                  \E k \in 1..Len(c[i].sigs) : OfTypes(c[i].sigs, CertTypes)[n] = c[i].sigs[k]
    BY RetainSigs, ComponentsReplaceable
  <2>2. c[i] \in Named(S)
    OBVIOUS
  <2>3. c[i].sigs \in Seq(S)
    BY <2>2 DEF Named
  <2>4. r[j].id = c[i].id /\ r[j].sigs = OfTypes(c[i].sigs, CertTypes)
    BY <2>1, <2>2 DEF Named
  <2>5. Range(r[j].sigs) \subseteq Range(c[i].sigs)
    BY <2>1, <2>3, <2>4, RangeOfSigs
  <2>6. QED
    BY <2>1, <2>4, <2>5
<1> HIDE DEF r
<1>4. (\A i \in DOMAIN c : VerifyUser(c[i], key)) => \A i \in DOMAIN r : VerifyUser(r[i], key)
  BY <1>2, <1>3 DEF VerifyUser
<1>5. (\A i \in DOMAIN c : VerifyAttribute(c[i], key)) => \A i \in DOMAIN r : VerifyAttribute(r[i], key)
  BY <1>2, <1>3 DEF VerifyAttribute
<1>6. QED
  BY <1>4, <1>5 DEF r

\* So do subkeys.
LEMMA RetainSubkeysVerify ==
    ASSUME NEW S, NEW c \in Seq(Bound(S)), NEW key, VerifySubkeys(c, key)
    PROVE  VerifySubkeys(Retain(c, BindingTypes), key)
<1> DEFINE r == Retain(c, BindingTypes)
<1>1. r \in Seq(Bound(S))
  BY RetainFacts, ComponentsReplaceable
<1>2. DOMAIN c = 1..Len(c) /\ DOMAIN r = 1..Len(r)
  BY <1>1
<1>3. ASSUME NEW j \in 1..Len(r)
      PROVE  \E i \in 1..Len(c) : r[j].key = c[i].key /\ r[j].sigs # <<>> /\ Range(r[j].sigs) \subseteq Range(c[i].sigs)
  <2>1. PICK i \in 1..Len(c) :
             /\ r[j] = [c[i] EXCEPT !.sigs = OfTypes(c[i].sigs, BindingTypes)]
             /\ OfTypes(c[i].sigs, BindingTypes) # <<>>
             /\ OfTypes(c[i].sigs, BindingTypes) \in Seq(S)
             /\ \A n \in 1..Len(OfTypes(c[i].sigs, BindingTypes)) :
                  \E k \in 1..Len(c[i].sigs) : OfTypes(c[i].sigs, BindingTypes)[n] = c[i].sigs[k]
    BY RetainSigs, ComponentsReplaceable
  <2>2. c[i] \in Bound(S)
    OBVIOUS
  <2>3. c[i].sigs \in Seq(S)
    BY <2>2 DEF Bound
  <2>4. r[j].key = c[i].key /\ r[j].sigs = OfTypes(c[i].sigs, BindingTypes)
    BY <2>1, <2>2 DEF Bound
  <2>5. Range(r[j].sigs) \subseteq Range(c[i].sigs)
    BY <2>1, <2>3, <2>4, RangeOfSigs
  <2>6. QED
    BY <2>1, <2>4, <2>5
<1> HIDE DEF r
<1>4. VerifySubkeys(r, key)
  BY <1>2, <1>3 DEF VerifySubkeys, VerifySubkey
<1>5. QED
  BY <1>4 DEF r

\* new() never makes a certificate fail.
LEMMA NewVerifies ==
    ASSUME NEW S, NEW c \in CertOf(S), VerifyCert(c)
    PROVE  VerifyCert(New(c))
<1>1. /\ c.users \in Seq(Named(S)) /\ c.attrs \in Seq(Named(S))
      /\ c.pubsubs \in Seq(Bound(S)) /\ c.secsubs \in Seq(Bound(S))
  BY DEF CertOf
<1>n. /\ New(c).users = Retain(c.users, CertTypes) /\ New(c).attrs = Retain(c.attrs, CertTypes)
      /\ New(c).revs = c.revs /\ New(c).directs = c.directs /\ New(c).primary = c.primary
  BY NewFacts
<1>u. \A i \in DOMAIN New(c).users : VerifyUser(New(c).users[i], New(c).primary)
  BY <1>1, <1>n, RetainUsersVerify DEF VerifyCert, VerifyDetails
<1>a. \A i \in DOMAIN New(c).attrs : VerifyAttribute(New(c).attrs[i], New(c).primary)
  BY <1>1, <1>n, RetainUsersVerify DEF VerifyCert, VerifyDetails
<1>2. VerifyDetails(New(c))
  BY <1>n, <1>u, <1>a DEF VerifyCert, VerifyDetails
<1>3. VerifySubkeys(New(c).pubsubs, New(c).primary) /\ VerifySubkeys(New(c).secsubs, New(c).primary)
  BY <1>1, NewFacts, RetainSubkeysVerify DEF VerifyCert
<1>4. QED
  BY <1>2, <1>3 DEF VerifyCert

\* The positions of two sequences, one behind the other.
IsJoined(X, a, b, s) ==
    /\ s \in Seq(X) /\ Len(s) = Len(a) + Len(b)
    /\ \A i \in 1..Len(a) : s[i] = a[i]
    /\ \A i \in 1..Len(b) : s[Len(a) + i] = b[i]
    /\ \A i \in 1..Len(s) : i \in 1..Len(a) \/ \E k \in 1..Len(b) : i = Len(a) + k
    /\ \A i \in 1..Len(a) : i \in 1..Len(s)
    /\ \A i \in 1..Len(b) : Len(a) + i \in 1..Len(s)

\* Two lists joined: every element of one or the other, in its place.
LEMMA Joined ==
    ASSUME NEW X, NEW a \in Seq(X), NEW b \in Seq(X), NEW s, s = a \o b
    PROVE  IsJoined(X, a, b, s)
<1>1. /\ s \in Seq(X) /\ Len(s) = Len(a) + Len(b)
      /\ \A i \in 1..Len(a) : s[i] = a[i]
      /\ \A i \in 1..Len(b) : s[Len(a) + i] = b[i]
  OBVIOUS
<1>2. ASSUME NEW m \in Nat, NEW n \in Nat, NEW i \in 1..(m + n), i \notin 1..m
      PROVE  \E k \in 1..n : i = m + k
  <2>1. i - m \in 1..n /\ i = m + (i - m)
    BY <1>2
  <2>2. QED
    BY <2>1
<1>3. Len(a) \in Nat /\ Len(b) \in Nat
  OBVIOUS
<1>4. ASSUME NEW i \in 1..Len(s), i \notin 1..Len(a)
      PROVE  \E k \in 1..Len(b) : i = Len(a) + k
  <2>1. i \in 1..(Len(a) + Len(b))
    BY <1>1
  <2>2. QED
    BY <1>2, <1>3, <1>4, <2>1, Zenon
<1>5. /\ \A i \in 1..Len(a) : i \in 1..Len(s)
      /\ \A i \in 1..Len(b) : Len(a) + i \in 1..Len(s)
  <2>1. Len(a) \in Nat /\ Len(b) \in Nat /\ Len(s) = Len(a) + Len(b)
    BY <1>1
  <2>2. \A m, n, t \in Nat : t = m + n => (\A i \in 1..m : i \in 1..t) /\ (\A i \in 1..n : m + i \in 1..t)
    OBVIOUS
  <2>3. QED
    BY <1>1, <2>1, <2>2
<1>6. QED
  BY <1>1, <1>4, <1>5 DEF IsJoined

\* The subkeys of a key, signed or not.
LEMMA SubKeysFacts ==
    ASSUME NEW X, NEW c, c.pubsubs \in Seq(X), c.secsubs \in Seq(X)
    PROVE  IsJoined(X, c.pubsubs, c.secsubs, SubKeysOf(c))
<1>1. SubKeysOf(c) = c.pubsubs \o c.secsubs
  BY DEF SubKeysOf
<1>2. QED
  BY <1>1, Joined

\* new() of a public key drops the subkeys without a signature, and nothing
\* where there is none.
LEMMA WithSignaturesFacts ==
    ASSUME NEW S, NEW subs \in Seq(Bound(S))
    PROVE  /\ WithSignatures(subs) \in Seq(Bound(S))
           /\ (\A i \in 1..Len(subs) : subs[i].sigs # <<>>) => WithSignatures(subs) = subs
<1> DEFINE P == { i \in DOMAIN subs : subs[i].sigs # <<>> }
<1>1. WithSignatures(subs) = Select(subs, P)
  BY DEF WithSignatures
<1>2. ASSUME \A i \in 1..Len(subs) : subs[i].sigs # <<>>
      PROVE  \A i \in 1..Len(subs) : i \in P
  BY <1>2
<1> HIDE DEF P
<1>3. Select(subs, P) \in Seq(Bound(S))
  BY SelectFacts
<1>4. (\A i \in 1..Len(subs) : i \in P) => Select(subs, P) = subs
  BY SelectAll
<1>5. QED
  BY <1>1, <1>2, <1>3, <1>4

\* The public key has the same users, attributes and signatures of the key
\* itself; its subkeys are those that have a signature.
LEMMA PublicFacts ==
    ASSUME NEW S, NEW c \in CertOf(S)
    PROVE  /\ IntoPublic(c) \in CertOf(S)
           /\ IntoPublic(c).users = c.users /\ IntoPublic(c).attrs = c.attrs
           /\ IntoPublic(c).revs = c.revs /\ IntoPublic(c).directs = c.directs
           /\ IntoPublic(c).primary = c.primary
           /\ IntoPublic(c).pubsubs = WithSignatures(c.pubsubs) \o Retain(c.secsubs, BindingTypes)
           /\ IntoPublic(c).secsubs = <<>>
           /\ SubKeysOf(IntoPublic(c)) = IntoPublic(c).pubsubs
<1>1. c.pubsubs \in Seq(Bound(S)) /\ c.secsubs \in Seq(Bound(S))
  BY DEF CertOf
<1> DEFINE all == WithSignatures(c.pubsubs) \o Retain(c.secsubs, BindingTypes)
<1>2. WithSignatures(c.pubsubs) \in Seq(Bound(S)) /\ Retain(c.secsubs, BindingTypes) \in Seq(Bound(S))
  BY <1>1, WithSignaturesFacts, RetainFacts, ComponentsReplaceable
<1>3. all \in Seq(Bound(S)) /\ all \o <<>> = all /\ <<>> \in Seq(Bound(S))
  BY <1>2
<1>4. IntoPublic(c) = [c EXCEPT !.secret = FALSE, !.secsubs = <<>>, !.pubsubs = all]
  BY DEF IntoPublic
<1> HIDE DEF all
<1>5. /\ IntoPublic(c) \in CertOf(S)
      /\ IntoPublic(c).users = c.users /\ IntoPublic(c).attrs = c.attrs
      /\ IntoPublic(c).revs = c.revs /\ IntoPublic(c).directs = c.directs
      /\ IntoPublic(c).primary = c.primary
      /\ IntoPublic(c).pubsubs = all /\ IntoPublic(c).secsubs = <<>>
  BY <1>3, <1>4 DEF CertOf
<1>6. SubKeysOf(IntoPublic(c)) = all
  BY <1>3, <1>5 DEF SubKeysOf
<1>7. QED
  BY <1>5, <1>6 DEF all

\* Making a key public never makes it fail.
LEMMA PublicVerifies ==
    ASSUME NEW S, NEW c \in CertOf(S), VerifyCert(c)
    PROVE  VerifyCert(IntoPublic(c))
<1> DEFINE a == c.pubsubs  b == Retain(c.secsubs, BindingTypes)  t == IntoPublic(c).pubsubs
<1>0. c.pubsubs \in Seq(Bound(S)) /\ c.secsubs \in Seq(Bound(S))
  BY DEF CertOf
<1>1. VerifyDetails(IntoPublic(c))
  BY PublicFacts DEF VerifyCert, VerifyDetails
<1>2. VerifySubkeys(a, c.primary) /\ VerifySubkeys(b, c.primary)
  BY <1>0, RetainSubkeysVerify DEF VerifyCert
<1>3. ASSUME NEW i \in 1..Len(c.pubsubs) PROVE c.pubsubs[i].sigs # <<>>
  <2>1. i \in DOMAIN c.pubsubs
    BY <1>0
  <2>2. VerifySubkey(c.pubsubs[i], c.primary)
    BY <1>2, <2>1 DEF VerifySubkeys
  <2>3. QED
    BY <2>2 DEF VerifySubkey
<1>4. b \in Seq(Bound(S))
  BY <1>0, RetainFacts, ComponentsReplaceable
<1>5. t = a \o b
  <2>1. WithSignatures(c.pubsubs) = c.pubsubs
    BY <1>0, <1>3, WithSignaturesFacts
  <2>2. IntoPublic(c).pubsubs = WithSignatures(c.pubsubs) \o Retain(c.secsubs, BindingTypes)
    BY PublicFacts
  <2>3. QED
    BY <2>1, <2>2
<1> HIDE DEF a, b, t
<1>6. IsJoined(Bound(S), a, b, t)
  BY <1>0, <1>4, <1>5, Joined DEF a
<1>7. DOMAIN a = 1..Len(a) /\ DOMAIN b = 1..Len(b) /\ DOMAIN t = 1..Len(t)
  BY <1>0, <1>4, <1>6 DEF IsJoined, a
<1>8. VerifySubkeys(t, c.primary)
  <2>1. ASSUME NEW i \in 1..Len(t) PROVE VerifySubkey(t[i], c.primary)
    <3>1. CASE i \in 1..Len(a)
      BY <1>2, <1>6, <1>7, <3>1 DEF IsJoined, VerifySubkeys
    <3>2. CASE i \notin 1..Len(a)
      <4>1. PICK k \in 1..Len(b) : i = Len(a) + k
        BY <1>6, <3>2 DEF IsJoined
      <4>2. t[i] = b[k] /\ k \in DOMAIN b
        BY <1>6, <1>7, <4>1 DEF IsJoined
      <4>3. QED
        BY <1>2, <4>2 DEF VerifySubkeys
    <3>3. QED
      BY <3>1, <3>2
  <2>2. QED
    BY <1>7, <2>1 DEF VerifySubkeys
<1>9. VerifySubkeys(<<>>, c.primary)
  BY DEF VerifySubkeys
<1>10. QED
  BY <1>1, <1>8, <1>9, PublicFacts DEF VerifyCert, t

-----------------------------------------------------------------------------
(* What is kept when a certificate is filtered or made public.             *)

SameFirsts(c, r, types) ==
    /\ Len(r) = Len(c)
    /\ \A i \in 1..Len(c) :
         /\ First(r[i], types)
         /\ r[i] = [c[i] EXCEPT !.sigs = OfTypes(c[i].sigs, types)]
         /\ r[i].sigs[1] = c[i].sigs[1]

\* new() keeps all components, in their places, when their first signatures are
\* of the right types.
LEMMA RetainKeeps ==
    ASSUME NEW S, NEW U, Replaceable(U, S), NEW c \in Seq(U), NEW types, AllFirst(c, types)
    PROVE  SameFirsts(c, Retain(c, types), types)
<1> DEFINE r == Retain(c, types)
<1>1. ASSUME NEW i \in 1..Len(c)
      PROVE  /\ Typed(c[i], types) = [c[i] EXCEPT !.sigs = OfTypes(c[i].sigs, types)]
             /\ Typed(c[i], types).sigs # <<>>
             /\ Typed(c[i], types).sigs[1] = c[i].sigs[1]
  <2>1. c[i] \in U /\ c[i].sigs \in Seq(S) /\ "sigs" \in DOMAIN c[i]
    BY DEF Replaceable
  <2>2. Typed(c[i], types) = [c[i] EXCEPT !.sigs = OfTypes(c[i].sigs, types)]
    BY <2>1, TypedFacts
  <2>3. Typed(c[i], types).sigs = OfTypes(c[i].sigs, types)
    BY <2>1, <2>2
  <2>4. c[i].sigs # <<>> /\ c[i].sigs[1].typ \in types
    BY DEF First, AllFirst
  <2>5. OfTypes(c[i].sigs, types) # <<>> /\ OfTypes(c[i].sigs, types)[1] = c[i].sigs[1]
    BY <2>1, <2>4, OfTypesFacts
  <2>6. QED
    BY <2>2, <2>3, <2>5
<1>a. EveryTyped(c, types)
  BY <1>1 DEF EveryTyped
<1>b. InPlace(c, types)
  BY <1>a, RetainFacts
<1>2. Len(r) = Len(c) /\ \A j \in 1..Len(c) : r[j] = Typed(c[j], types)
  BY <1>b DEF InPlace
<1> HIDE DEF r
<1>3. \A i \in 1..Len(c) :
         /\ First(r[i], types)
         /\ r[i] = [c[i] EXCEPT !.sigs = OfTypes(c[i].sigs, types)]
         /\ r[i].sigs[1] = c[i].sigs[1]
  <2>1. ASSUME NEW i \in 1..Len(c)
        PROVE  r[i] = Typed(c[i], types) /\ First(c[i], types)
    BY <1>2 DEF AllFirst
  <2>2. QED
    BY <1>1, <2>1 DEF First
<1>4. QED
  BY <1>2, <1>3 DEF r, SameFirsts

\* Where the first signatures are right new() keeps users and attributes in
\* their places ...
LEMMA RetainNamed ==
    ASSUME NEW S, NEW c \in Seq(Named(S)), NEW types, AllFirst(c, types)
    PROVE  /\ Len(Retain(c, types)) = Len(c)
           /\ AllFirst(Retain(c, types), types)
           /\ \A i \in 1..Len(c) :
                /\ Retain(c, types)[i].id = c[i].id
                /\ Retain(c, types)[i].sigs[1] = c[i].sigs[1]
<1>1. Replaceable(Named(S), S)
  BY ComponentsReplaceable
<1>2. SameFirsts(c, Retain(c, types), types)
  BY <1>1, RetainKeeps
<1>3. \A i \in 1..Len(c) : c[i] \in Named(S)
  OBVIOUS
<1>4. \A i \in 1..Len(c) : Retain(c, types)[i].id = c[i].id
  BY <1>2, <1>3 DEF Named, SameFirsts
<1>5. QED
  BY <1>2, <1>4 DEF SameFirsts, AllFirst

\* ... and subkeys.
LEMMA RetainBound ==
    ASSUME NEW S, NEW c \in Seq(Bound(S)), NEW types, AllFirst(c, types)
    PROVE  /\ Len(Retain(c, types)) = Len(c)
           /\ AllFirst(Retain(c, types), types)
           /\ \A i \in 1..Len(c) : Retain(c, types)[i].sigs[1] = c[i].sigs[1]
<1>1. Replaceable(Bound(S), S)
  BY ComponentsReplaceable
<1>2. SameFirsts(c, Retain(c, types), types)
  BY <1>1, RetainKeeps
<1>3. QED
  BY <1>2 DEF SameFirsts, AllFirst

\* new() keeps what was asked for, as long as the first signatures are right.
LEMMA RetainUsersSame ==
    ASSUME NEW S, NEW p \in Param, NEW users \in Seq(Named(S)), SameUsers(p, users)
    PROVE  SameUsers(p, Retain(users, CertTypes))
<1> DEFINE r == Retain(users, CertTypes)
<1>1. /\ Len(r) = Len(users) /\ AllFirst(r, CertTypes)
      /\ \A i \in 1..Len(users) : r[i].id = users[i].id /\ r[i].sigs[1] = users[i].sigs[1]
  BY RetainNamed DEF SameUsers
<1> HIDE DEF r
<1>2. Len(p.uids) \in Nat
  BY DEF Param
<1>3. 1 \in 1..Len(users) /\ \A i \in 1..Len(p.uids) : i + 1 \in 1..Len(users)
  BY <1>2 DEF SameUsers
<1>4. SameUsers(p, r)
  BY <1>1, <1>3 DEF SameUsers
<1>5. QED
  BY <1>4 DEF r

\* The attributes too.
LEMMA RetainAttrsSame ==
    ASSUME NEW S, NEW p \in Param, NEW attrs \in Seq(Named(S)), SameAttrs(p, attrs)
    PROVE  SameAttrs(p, Retain(attrs, CertTypes))
<1> DEFINE r == Retain(attrs, CertTypes)
<1>1. /\ Len(r) = Len(attrs) /\ AllFirst(r, CertTypes)
      /\ \A i \in 1..Len(attrs) : r[i].id = attrs[i].id
  BY RetainNamed DEF SameAttrs
<1> HIDE DEF r
<1>2. SameAttrs(p, r)
  BY <1>1 DEF SameAttrs
<1>3. QED
  BY <1>2 DEF r

\* Subkeys in two lists, the second or both of them filtered, and joined.
LEMMA RetainSubkeysSame ==
    ASSUME NEW S, NEW p \in Param, NEW a \in Seq(Bound(S)), NEW b \in Seq(Bound(S)),
           NEW s, s = a \o b, SameSubkeys(p, s),
           NEW u \in {a, Retain(a, BindingTypes)},
           NEW t, t = u \o Retain(b, BindingTypes)
    PROVE  SameSubkeys(p, t)
<1> DEFINE v == Retain(b, BindingTypes)
<1>1. u \in Seq(Bound(S)) /\ v \in Seq(Bound(S))
  BY RetainFacts, ComponentsReplaceable
<1>2. IsJoined(Bound(S), a, b, s) /\ IsJoined(Bound(S), u, v, t)
  BY <1>1, Joined
<1>3. AllFirst(a, BindingTypes) /\ AllFirst(b, BindingTypes)
  <2>1. ASSUME NEW i \in 1..Len(a) PROVE First(a[i], BindingTypes)
    <3>1. s[i] = a[i] /\ i \in 1..Len(s)
      BY <1>2 DEF IsJoined
    <3>2. QED
      BY <3>1 DEF SameSubkeys, AllFirst
  <2>2. ASSUME NEW i \in 1..Len(b) PROVE First(b[i], BindingTypes)
    <3>1. s[Len(a) + i] = b[i] /\ Len(a) + i \in 1..Len(s)
      BY <1>2 DEF IsJoined
    <3>2. QED
      BY <3>1 DEF SameSubkeys, AllFirst
  <2>3. QED
    BY <2>1, <2>2 DEF AllFirst
<1>4. /\ Len(u) = Len(a) /\ AllFirst(u, BindingTypes)
      /\ \A i \in 1..Len(a) : u[i].sigs[1] = a[i].sigs[1]
  BY <1>3, RetainBound
<1>5. /\ Len(v) = Len(b) /\ AllFirst(v, BindingTypes)
      /\ \A i \in 1..Len(b) : v[i].sigs[1] = b[i].sigs[1]
  BY <1>3, RetainBound
<1> HIDE DEF v
<1>6. Len(t) = Len(s)
  BY <1>2, <1>4, <1>5 DEF IsJoined
<1>7. ASSUME NEW i \in 1..Len(s)
      PROVE  First(t[i], BindingTypes) /\ t[i].sigs[1] = s[i].sigs[1]
  <2>1. CASE i \in 1..Len(a)
    BY <1>2, <1>4, <2>1 DEF IsJoined, AllFirst
  <2>2. CASE i \notin 1..Len(a)
    <3>1. PICK k \in 1..Len(b) : i = Len(a) + k
      BY <1>2, <2>2 DEF IsJoined
    <3>2. s[i] = b[k] /\ t[i] = v[k]
      BY <1>2, <1>4, <1>5, <3>1 DEF IsJoined
    <3>3. QED
      BY <1>5, <3>2 DEF AllFirst
  <2>3. QED
    BY <2>1, <2>2
<1>8. QED
  BY <1>6, <1>7 DEF SameSubkeys, AllFirst

\* new() of a certificate that holds what was asked for loses none of it.
LEMMA NewSame ==
    ASSUME NEW S, NEW p \in Param, NEW c \in CertOf(S), SameSigned(p, c)
    PROVE  SameSigned(p, New(c))
<1>1. /\ c.users \in Seq(Named(S)) /\ c.attrs \in Seq(Named(S))
      /\ c.pubsubs \in Seq(Bound(S)) /\ c.secsubs \in Seq(Bound(S))
  BY DEF CertOf
<1>2. SameUsers(p, New(c).users)
  BY <1>1, NewFacts, RetainUsersSame DEF SameSigned
<1>3. SameAttrs(p, New(c).attrs)
  BY <1>1, NewFacts, RetainAttrsSame DEF SameSigned
<1>4. SubKeysOf(c) = c.pubsubs \o c.secsubs
  BY DEF SubKeysOf
<1>5. SubKeysOf(New(c)) = Retain(c.pubsubs, BindingTypes) \o Retain(c.secsubs, BindingTypes)
  BY NewFacts DEF SubKeysOf
<1>6. SameSubkeys(p, SubKeysOf(New(c)))
  BY <1>1, <1>4, <1>5, RetainSubkeysSame DEF SameSigned
<1>7. QED
  BY <1>2, <1>3, <1>6 DEF SameSigned

\* Nor does making it public.
LEMMA PublicSame ==
    ASSUME NEW S, NEW p \in Param, NEW c \in CertOf(S), SameSigned(p, c)
    PROVE  SameSigned(p, IntoPublic(c))
<1> DEFINE a == c.pubsubs  b == c.secsubs  t == IntoPublic(c).pubsubs
<1>1. a \in Seq(Bound(S)) /\ b \in Seq(Bound(S))
  BY DEF CertOf
<1>2. SubKeysOf(c) = a \o b /\ SameSubkeys(p, SubKeysOf(c))
  BY DEF SubKeysOf, SameSigned
<1>3. IsJoined(Bound(S), a, b, SubKeysOf(c))
  BY <1>1, <1>2, Joined
<1>4. ASSUME NEW i \in 1..Len(a) PROVE a[i].sigs # <<>>
  <2>1. i \in 1..Len(SubKeysOf(c)) /\ SubKeysOf(c)[i] = a[i]
    BY <1>3 DEF IsJoined
  <2>2. QED
    BY <1>2, <2>1 DEF SameSubkeys, AllFirst, First
<1>5. t = a \o Retain(b, BindingTypes)
  <2>1. WithSignatures(c.pubsubs) = c.pubsubs
    BY <1>1, <1>4, WithSignaturesFacts
  <2>2. IntoPublic(c).pubsubs = WithSignatures(c.pubsubs) \o Retain(c.secsubs, BindingTypes)
    BY PublicFacts
  <2>3. QED
    BY <2>1, <2>2
<1>6. a \in {a, Retain(a, BindingTypes)}
  OBVIOUS
<1> HIDE DEF a, b, t
<1>7. SameSubkeys(p, t)
  BY <1>1, <1>2, <1>5, <1>6, RetainSubkeysSame
<1>8. QED
  BY <1>7, PublicFacts DEF SameSigned, t

-----------------------------------------------------------------------------
(* Signatures, as they are made.                                           *)

\* A signature without subpackets.
LEMMA NoSubType == NoSub \in Sub
<1>1. {} \in SUBSET Flags /\ FALSE \in BOOLEAN
  OBVIOUS
<1>2. "none" \in Prefs /\ "none" \in KeyNames \cup {"none"}
  BY DEF Prefs
<1>3. QED
  BY <1>1, <1>2 DEF NoSub, Sub

\* SignatureConfig::sign_*: the fields of what comes out.
SignedAs(s, v, typ, sub, issuers, by, parts) ==
    /\ s \in Sig /\ s.v = v /\ s.typ = typ /\ s.sub = sub /\ s.issuers = issuers
    /\ s.value = [by |-> by.name, hash |-> HashOf(v, typ, sub, parts)]
    /\ s.value.by = by.name /\ s.value.hash.parts = parts

\* A signature config that is signed keeps its fields, and its value is the
\* signing key and the hash.
LEMMA SignatureFacts ==
    ASSUME NEW v \in {"V3", "V4"}, NEW typ \in SignatureTypes, NEW sub \in Sub,
           NEW issuers \in SUBSET KeyNames, NEW by, by.name \in KeyNames, NEW parts \in Parts,
           NEW s, s = Signature(v, typ, sub, issuers, by, parts)
    PROVE  SignedAs(s, v, typ, sub, issuers, by, parts)
<1>1. HashOf(v, typ, sub, parts) \in [parts : Parts, typ : SignatureTypes, sub : Sub]
  BY NoSubType DEF HashOf
<1>2. HashOf(v, typ, sub, parts).parts = parts
  BY DEF HashOf
<1>3. s = [v |-> v, typ |-> typ, sub |-> sub, issuers |-> issuers,
           value |-> [by |-> by.name, hash |-> HashOf(v, typ, sub, parts)]]
  BY DEF Signature
<1>4. s \in Sig
  BY <1>1, <1>3 DEF Sig
<1>5. QED
  BY <1>2, <1>3, <1>4 DEF SignedAs

\* The names of the keys that sign, and what cannot be one.
LEMMA NamesFacts ==
    /\ PrimaryName \in KeyNames
    /\ ThirdKey.name \in KeyNames /\ ThirdKey.name # PrimaryName
    /\ \A k \in PrimaryKeys : k.name = PrimaryName /\ k.name \in KeyNames
    /\ \A k \in Subkeys : k.name \in KeyNames /\ k.name # PrimaryName /\ k.name # ThirdKey.name
    /\ Ids \cap KeyNames = {}
<1>1. ThirdKey.name # PrimaryName
  BY KeysAssumption
<1>2. Range(SubkeyNames) \cap {PrimaryName, ThirdKey.name} = {}
  BY KeysAssumption
<1>3. Ids \cap KeyNames = {}
  BY ParamsAssumption DEF Ids
<1>4. \A k \in PrimaryKeys : k.name = PrimaryName
  BY DEF PrimaryKeys, KeyCalled
<1>5. \A k \in Subkeys : k.name \in Range(SubkeyNames)
  BY DEF Subkeys, KeyCalled
<1>6. QED
  BY <1>1, <1>2, <1>3, <1>4, <1>5 DEF KeyNames

\* A certification is backed by the statement that goes with it.
LEMMA CertificationBacked ==
    ASSUME NEW v \in {"V3", "V4"}, NEW typ \in SignatureTypes, NEW sub \in Sub,
           NEW signer, signer.name \in KeyNames, NEW signee, signee.name \in KeyNames,
           NEW tag \in Tags, NEW id \in Ids,
           NEW s, s = Signature(v, typ, sub, {signer.name}, signer, CertParts(v, signee, tag, id)),
           NEW m, m = [by |-> signer.name, about |-> <<signee.name, tag, id>>, typ |-> typ, sub |-> sub]
    PROVE  s \in Sig /\ Backs(m, s)
<1> DEFINE parts == CertParts(v, signee, tag, id)
           X == KeyNames \cup Ids \cup Tags
<1>1. signee.name \in X /\ id \in X /\ tag \in X
  OBVIOUS
<1>2. parts = IF v = "V3" THEN <<signee.name, id>> ELSE <<signee.name, tag, id>>
  BY DEF CertParts
<1>3. parts \in Parts
  <2> HIDE DEF X
  <2>1. parts \in Seq(X)
    BY <1>1, <1>2
  <2>2. QED
    BY <2>1 DEF Parts, X
<1> HIDE DEF parts
<1>4. s = Signature(v, typ, sub, {signer.name}, signer, parts)
  BY DEF parts
<1>5. /\ s \in Sig /\ s.v = v /\ s.typ = typ /\ s.sub = sub
      /\ s.value.by = signer.name /\ s.value.hash.parts = parts
  <2>1. {signer.name} \in SUBSET KeyNames
    OBVIOUS
  <2>2. SignedAs(s, v, typ, sub, {signer.name}, signer, parts)
    BY <1>3, <1>4, <2>1, SignatureFacts
  <2>3. QED
    BY <2>2 DEF SignedAs
<1>6. m.by = signer.name /\ m.about = <<signee.name, tag, id>> /\ m.typ = typ /\ m.sub = sub
  OBVIOUS
<1>7. \E a \in KeyNames, g \in Tags, i \in Ids :
         /\ m.about = <<a, g, i>>
         /\ s.value.hash.parts = IF s.v = "V3" THEN <<a, i>> ELSE <<a, g, i>>
  BY <1>2, <1>5, <1>6
<1>8. QED
  BY <1>5, <1>6, <1>7 DEF Backs

\* So is a binding ...
LEMMA BindingBacked ==
    ASSUME NEW typ \in SignatureTypes, NEW sub \in Sub,
           NEW signer, signer.name \in KeyNames, NEW key, key.name \in KeyNames,
           NEW s, s = Signature("V4", typ, sub, {signer.name}, signer, BindingParts(signer, key)),
           NEW m, m = [by |-> signer.name, about |-> <<signer.name, "Subkey", key.name>>,
                       typ |-> typ, sub |-> sub]
    PROVE  s \in Sig /\ Backs(m, s)
<1> DEFINE X == KeyNames \cup Ids \cup Tags
<1>1. BindingParts(signer, key) = <<signer.name, key.name>>
  BY DEF BindingParts
<1>2. BindingParts(signer, key) \in Parts
  <2>1. signer.name \in X /\ key.name \in X
    OBVIOUS
  <2> HIDE DEF X
  <2>2. BindingParts(signer, key) \in Seq(X)
    BY <1>1, <2>1
  <2>3. QED
    BY <2>2 DEF Parts, X
<1>3. /\ s \in Sig /\ s.v = "V4" /\ s.typ = typ /\ s.sub = sub
      /\ s.value.by = signer.name /\ s.value.hash.parts = BindingParts(signer, key)
  <2>1. {signer.name} \in SUBSET KeyNames /\ "V4" \in {"V3", "V4"}
    OBVIOUS
  <2>2. SignedAs(s, "V4", typ, sub, {signer.name}, signer, BindingParts(signer, key))
    BY <1>2, <2>1, SignatureFacts
  <2>3. QED
    BY <2>2 DEF SignedAs
<1>4. m.by = signer.name /\ m.about = <<signer.name, "Subkey", key.name>> /\ m.typ = typ /\ m.sub = sub
  OBVIOUS
<1>5. \E n \in KeyNames :
         /\ s.v = "V4" /\ m.about = <<m.by, "Subkey", n>> /\ s.value.hash.parts = <<m.by, n>>
  BY <1>1, <1>3, <1>4
<1>6. QED
  BY <1>3, <1>4, <1>5 DEF Backs

\* ... and a signature over one key.
LEMMA KeySignatureBacked ==
    ASSUME NEW typ \in SignatureTypes, NEW sub \in Sub,
           NEW signer, signer.name \in KeyNames, NEW key, key.name \in KeyNames,
           NEW s, s = Signature("V4", typ, sub, {signer.name}, signer, KeyParts(key)),
           NEW about, about = <<key.name>>
                      \/ (about = <<signer.name, "Subkey", key.name>> /\ key.name # signer.name),
           NEW m, m = [by |-> signer.name, about |-> about, typ |-> typ, sub |-> sub]
    PROVE  s \in Sig /\ Backs(m, s)
<1> DEFINE X == KeyNames \cup Ids \cup Tags
<1>1. KeyParts(key) = <<key.name>>
  BY DEF KeyParts
<1>2. KeyParts(key) \in Parts
  <2>1. key.name \in X
    OBVIOUS
  <2> HIDE DEF X
  <2>2. KeyParts(key) \in Seq(X)
    BY <1>1, <2>1
  <2>3. QED
    BY <2>2 DEF Parts, X
<1>3. /\ s \in Sig /\ s.v = "V4" /\ s.typ = typ /\ s.sub = sub
      /\ s.value.by = signer.name /\ s.value.hash.parts = KeyParts(key)
  <2>1. {signer.name} \in SUBSET KeyNames /\ "V4" \in {"V3", "V4"}
    OBVIOUS
  <2>2. SignedAs(s, "V4", typ, sub, {signer.name}, signer, KeyParts(key))
    BY <1>2, <2>1, SignatureFacts
  <2>3. QED
    BY <2>2 DEF SignedAs
<1>4. m.by = signer.name /\ m.about = about /\ m.typ = typ /\ m.sub = sub
  OBVIOUS
<1>5. \/ \E n \in KeyNames :
            /\ s.v = "V4" /\ m.about = <<n>> /\ s.value.hash.parts = <<n>>
      \/ \E n \in KeyNames :
            /\ n # m.by
            /\ s.v = "V4" /\ m.about = <<m.by, "Subkey", n>> /\ s.value.hash.parts = <<n>>
  BY <1>1, <1>3, <1>4
<1>6. QED
  BY <1>3, <1>4, <1>5 DEF Backs

-----------------------------------------------------------------------------
(* generate() and sign().                                                  *)

\* What is collected from an iterator over n elements has n elements.
LEMMA MapSeq ==
    ASSUME NEW T, NEW n \in Nat, NEW f \in [1..n -> T]
    PROVE  f \in Seq(T) /\ Len(f) = n /\ DOMAIN f = 1..n
OBVIOUS

\* The names in the parameters are user IDs, attributes and preferences.
LEMMA IdsFacts ==
    ASSUME NEW p \in Params
    PROVE  /\ p \in Param /\ p.uid \in Ids /\ p.uids \in Seq(Ids) /\ p.attrs \in Seq(Ids)
           /\ p.prefs \in Prefs
<1>1. p \in Param
  BY ParamsAssumption
<1>2. p.uids \in Seq(STRING) /\ p.attrs \in Seq(STRING)
  BY <1>1 DEF Param
<1>3. p.uid \in Ids /\ Range(p.uids) \subseteq Ids /\ Range(p.attrs) \subseteq Ids
  BY DEF Ids
<1>4. ASSUME NEW T, NEW q \in Seq(T), Range(q) \subseteq Ids PROVE q \in Seq(Ids)
  <2>1. \A i \in 1..Len(q) : q[i] \in Ids
    BY <1>4 DEF Range
  <2>2. QED
    BY <2>1
<1>5. p.prefs \in Prefs
  BY DEF Prefs
<1>6. QED
  BY <1>1, <1>2, <1>3, <1>4, <1>5

\* generate() makes a key with all that was asked for.
LEMMA GenerateKeyFacts ==
    ASSUME NEW p \in Params
    PROVE  /\ GenerateKey(p) \in UnsignedKey
           /\ GenerateKey(p).primary.kt = p.kt
           /\ SameUnsigned(p, GenerateKey(p))
<1>1. /\ p \in Param /\ p.uid \in Ids /\ p.uids \in Seq(Ids) /\ p.attrs \in Seq(Ids)
      /\ p.prefs \in Prefs
  BY IdsFacts
<1>2. p.subkeys \in Seq(SubkeyParam) /\ Len(p.subkeys) <= Len(SubkeyNames) /\ SubkeyNames \in Seq(STRING)
  BY <1>1, ParamsAssumption, KeysAssumption DEF Param
<1> DEFINE g == GenerateKey(p)
           subs == [i \in DOMAIN p.subkeys |->
                      [key |-> NewKey(SubkeyNames[i], p.subkeys[i]), flags |-> p.subkeys[i].flags]]
<1>3. NewKey(PrimaryName, p) \in PrimaryKeys /\ NewKey(PrimaryName, p).kt = p.kt
  BY <1>1 DEF NewKey, PrimaryKeys, KeyCalled, Param
<1>4. ASSUME NEW i \in 1..Len(p.subkeys)
      PROVE  [key |-> NewKey(SubkeyNames[i], p.subkeys[i]), flags |-> p.subkeys[i].flags] \in UnsignedSubkey
  <2>1. p.subkeys[i] \in SubkeyParam
    BY <1>2
  <2>2. SubkeyNames[i] \in Range(SubkeyNames)
    BY <1>2 DEF Range
  <2>3. NewKey(SubkeyNames[i], p.subkeys[i]) \in Subkeys
    BY <2>1, <2>2 DEF NewKey, Subkeys, KeyCalled, SubkeyParam
  <2>4. p.subkeys[i].flags \in SUBSET Flags
    BY <2>1 DEF SubkeyParam
  <2>5. QED
    BY <2>3, <2>4 DEF UnsignedSubkey
<1>5. subs \in Seq(UnsignedSubkey) /\ Len(subs) = Len(p.subkeys)
  <2>1. DOMAIN p.subkeys = 1..Len(p.subkeys) /\ Len(p.subkeys) \in Nat
    BY <1>2
  <2>2. subs \in [1..Len(p.subkeys) -> UnsignedSubkey]
    BY <1>4, <2>1
  <2> HIDE DEF subs
  <2>3. QED
    BY <2>1, <2>2, MapSeq
<1>6. \A i \in 1..Len(p.subkeys) : subs[i].flags = p.subkeys[i].flags
  BY <1>2
<1>7. g = [secret |-> TRUE, primary |-> NewKey(PrimaryName, p), uid |-> p.uid, uids |-> p.uids,
           attrs |-> p.attrs, flags |-> p.flags, prefs |-> p.prefs, rkey |-> p.rkey,
           pubsubs |-> <<>>, secsubs |-> subs]
  BY DEF GenerateKey
<1> HIDE DEF subs, g
<1>8. p.flags \in SUBSET Flags /\ p.rkey \in BOOLEAN /\ TRUE \in BOOLEAN /\ <<>> \in Seq(UnsignedSubkey)
  BY <1>1 DEF Param
<1>9. g \in UnsignedKey
  BY <1>1, <1>3, <1>5, <1>7, <1>8 DEF UnsignedKey
<1>10. SubKeysOf(g) = subs
  <2>1. g.pubsubs = <<>> /\ g.secsubs = subs
    BY <1>7
  <2>2. <<>> \o subs = subs
    BY <1>5
  <2>3. QED
    BY <2>1, <2>2 DEF SubKeysOf
<1>11. SameUnsigned(p, g)
  BY <1>5, <1>6, <1>7, <1>10 DEF SameUnsigned
<1>12. QED
  BY <1>3, <1>7, <1>9, <1>11 DEF g

\* The results of the steps of sign(): the first failure is its result, and
\* without one all of them went well.
LEMMA FirstBadFacts ==
    ASSUME NEW S, "ok" \in S, NEW rs \in Seq(S)
    PROVE  FirstBad(rs) \in S /\ (FirstBad(rs) = "ok" => \A i \in 1..Len(rs) : rs[i] = "ok")
<1> DEFINE bad == { j \in DOMAIN rs : rs[j] # "ok" }
<1>1. CASE bad = {}
  <2>1. FirstBad(rs) = "ok"
    BY <1>1 DEF FirstBad
  <2>2. QED
    BY <1>1, <2>1
<1>2. CASE bad # {}
  <2>1. bad \in SUBSET Nat
    OBVIOUS
  <2>2. \E j \in bad : \A k \in bad : j <= k
    BY <1>2, <2>1, LeastExists
  <2>3. Least(bad) \in bad
    BY <2>2 DEF Least
  <2>4. FirstBad(rs) = rs[Least(bad)]
    BY <1>2 DEF FirstBad
  <2>5. QED
    BY <2>3, <2>4
<1>3. QED
  BY <1>1, <1>2

\* sign() succeeds only with a key that can sign.
LEMMA SignResultFacts ==
    ASSUME NEW u \in UnsignedKey, NEW signer, NEW pw
    PROVE  /\ SignResult(u, signer, pw) \in {"ok", "err", "panic"}
           /\ SignResult(u, signer, pw) = "ok" => CanSign(signer, pw)
<1> DEFINE X == {"ok", "err", "panic"}
           a == <<HashKey(signer), IF CanSign(signer, pw) THEN "ok" ELSE "err">>
           b == [i \in DOMAIN SubKeysOf(u) |-> HashKey(SubKeysOf(u)[i].key)]
           rs == a \o b
<1>1. \A k : HashKey(k) \in X
  BY DEF HashKey
<1>2. u.pubsubs \in Seq(UnsignedSubkey) /\ u.secsubs \in Seq(UnsignedSubkey)
  BY DEF UnsignedKey
<1>3. SubKeysOf(u) \in Seq(UnsignedSubkey)
  BY <1>2, SubKeysFacts DEF IsJoined
<1>4. a \in Seq(X) /\ Len(a) = 2 /\ a[2] = IF CanSign(signer, pw) THEN "ok" ELSE "err"
  BY <1>1
<1>5. b \in Seq(X)
  BY <1>1, <1>3
<1>6. SignResult(u, signer, pw) = IF NamePanics(signer) THEN "panic" ELSE FirstBad(rs)
  BY DEF SignResult
<1>x. "ok" \in X /\ "panic" \in X
  OBVIOUS
<1> HIDE DEF a, b, X
<1>7. IsJoined(X, a, b, rs)
  BY <1>4, <1>5, Joined
<1> HIDE DEF rs
<1>8. rs \in Seq(X) /\ rs[2] = a[2] /\ 2 \in 1..Len(rs)
  BY <1>4, <1>5, <1>7 DEF IsJoined
<1>9. FirstBad(rs) \in X /\ (FirstBad(rs) = "ok" => rs[2] = "ok")
  BY <1>8, <1>x, FirstBadFacts
<1>10. SignResult(u, signer, pw) \in X
  BY <1>6, <1>9, <1>x
<1>11. SignResult(u, signer, pw) = "ok" => CanSign(signer, pw)
  BY <1>4, <1>6, <1>8, <1>9
<1>12. QED
  BY <1>10, <1>11 DEF X

\* The statement a signature of sign() makes.
Statement(signer, about, typ, sub) == [by |-> signer.name, about |-> about, typ |-> typ, sub |-> sub]

\* One signature behind a component.
LEMMA OneSig ==
    ASSUME NEW S, NEW s \in S
    PROVE  <<s>> \in Seq(S) /\ <<s>> # <<>> /\ <<s>>[1] = s /\ Range(<<s>>) = {s}
<1>1. <<s>> \in Seq(S) /\ <<s>> # <<>> /\ <<s>>[1] = s
  OBVIOUS
<1>2. Range(<<s>>) = {s}
  BY DEF Range
<1>3. QED
  BY <1>1, <1>2

\* The subpackets KeyDetails::sign puts on the signature of a user.
LEMMA UserSubFacts ==
    ASSUME NEW u \in UnsignedKey, NEW signer, signer.name \in KeyNames, NEW primary \in BOOLEAN
    PROVE  /\ UserSub(u, signer, primary) \in Sub
           /\ UserSub(u, signer, primary).primary = primary
           /\ UserSub(u, signer, primary).flags = u.flags
           /\ UserSub(u, signer, primary).prefs = u.prefs
           /\ primary => UserSub(u, signer, primary).rkey = u.rkey
           /\ UserSub(u, signer, primary).fp = signer.name
<1>1. u.flags \in SUBSET Flags /\ u.prefs \in Prefs /\ u.rkey \in BOOLEAN
  BY DEF UnsignedKey
<1>2. (primary /\ u.rkey) \in BOOLEAN /\ signer.name \in KeyNames \cup {"none"}
  BY <1>1
<1>3. primary => (primary /\ u.rkey) = u.rkey
  BY <1>1
<1>4. QED
  BY <1>1, <1>2, <1>3 DEF UserSub, Sub

\* UserId::sign: what it returns, why it is backed, and that it verifies.
LEMMA SignUserFacts ==
    ASSUME NEW u \in UnsignedKey, NEW signer, signer.name \in KeyNames,
           NEW id \in Ids, NEW primary \in BOOLEAN, NEW ms,
           Statement(signer, <<signer.name, "UserId", id>>, "CertGeneric", UserSub(u, signer, primary)) \in ms
    PROVE  /\ SignUser(u, signer, id, primary) \in Named(Backed(ms))
           /\ SignUser(u, signer, id, primary).id = id
           /\ First(SignUser(u, signer, id, primary), CertTypes)
           /\ SignUser(u, signer, id, primary).sigs[1].sub = UserSub(u, signer, primary)
           /\ VerifyUser(SignUser(u, signer, id, primary), signer)
<1> DEFINE sub == UserSub(u, signer, primary)
           s == Signature("V4", "CertGeneric", sub, {signer.name}, signer,
                          CertParts("V4", signer, "UserId", id))
           m == Statement(signer, <<signer.name, "UserId", id>>, "CertGeneric", sub)
           r == SignUser(u, signer, id, primary)
<1>1. sub \in Sub /\ sub.fp = signer.name
  BY UserSubFacts
<1>2. "V4" \in {"V3", "V4"} /\ "CertGeneric" \in SignatureTypes /\ "UserId" \in Tags /\ "CertGeneric" \in CertTypes
  BY DEF SignatureTypes, CertTypes, Tags
<1>3. m = [by |-> signer.name, about |-> <<signer.name, "UserId", id>>, typ |-> "CertGeneric", sub |-> sub]
  BY DEF Statement
<1>4. s \in Sig /\ Backs(m, s)
  BY <1>1, <1>2, <1>3, CertificationBacked
<1>5. s \in Backed(ms)
  BY <1>4 DEF Backed
<1>6. /\ s.v = "V4" /\ s.typ = "CertGeneric" /\ s.sub = sub /\ s.issuers = {signer.name}
      /\ s.value = [by |-> signer.name,
                    hash |-> HashOf("V4", "CertGeneric", sub, CertParts("V4", signer, "UserId", id))]
  BY DEF Signature
<1>7. r = [id |-> id, sigs |-> <<s>>]
  BY DEF SignUser
<1>8. MatchIdentity(s, signer) /\ SignatureVerifies(s, signer, CertParts(s.v, signer, "UserId", id))
  BY <1>6 DEF MatchIdentity, SignatureVerifies
<1> HIDE DEF sub, s, m, r
<1>9. <<s>> \in Seq(Backed(ms)) /\ <<s>> # <<>> /\ <<s>>[1] = s /\ Range(<<s>>) = {s}
  BY <1>5, OneSig
<1>10. r.id = id /\ r.sigs = <<s>> /\ r \in Named(Backed(ms))
  BY <1>7, <1>9 DEF Named
<1>11. First(r, CertTypes) /\ r.sigs[1].sub = sub
  BY <1>2, <1>6, <1>9, <1>10 DEF First
<1>12. VerifyUser(r, signer)
  BY <1>8, <1>9, <1>10 DEF VerifyUser, VerifyCertification, VerifyThirdParty
<1>13. QED
  BY <1>10, <1>11, <1>12 DEF r, sub

\* UserAttribute::sign.
LEMMA SignAttributeFacts ==
    ASSUME NEW signer, signer.name \in KeyNames, NEW id \in Ids, NEW ms,
           Statement(signer, <<signer.name, "UserAttribute", id>>, "CertGeneric", NoSub) \in ms
    PROVE  /\ SignAttribute(signer, id) \in Named(Backed(ms))
           /\ SignAttribute(signer, id).id = id
           /\ First(SignAttribute(signer, id), CertTypes)
           /\ VerifyAttribute(SignAttribute(signer, id), signer)
<1> DEFINE s == Signature("V4", "CertGeneric", NoSub, {signer.name}, signer,
                          CertParts("V4", signer, "UserAttribute", id))
           m == Statement(signer, <<signer.name, "UserAttribute", id>>, "CertGeneric", NoSub)
           r == SignAttribute(signer, id)
<1>2. "V4" \in {"V3", "V4"} /\ "CertGeneric" \in SignatureTypes /\ "UserAttribute" \in Tags /\ "CertGeneric" \in CertTypes
  BY DEF SignatureTypes, CertTypes, Tags
<1>3. m = [by |-> signer.name, about |-> <<signer.name, "UserAttribute", id>>, typ |-> "CertGeneric", sub |-> NoSub]
  BY DEF Statement
<1>4. s \in Sig /\ Backs(m, s)
  BY <1>2, <1>3, CertificationBacked, NoSubType
<1>5. s \in Backed(ms)
  BY <1>4 DEF Backed
<1>6. /\ s.v = "V4" /\ s.typ = "CertGeneric" /\ s.sub = NoSub /\ s.issuers = {signer.name}
      /\ s.value = [by |-> signer.name,
                    hash |-> HashOf("V4", "CertGeneric", NoSub, CertParts("V4", signer, "UserAttribute", id))]
  BY DEF Signature
<1>7. r = [id |-> id, sigs |-> <<s>>]
  BY DEF SignAttribute
<1>8. MatchIdentity(s, signer) /\ SignatureVerifies(s, signer, CertParts(s.v, signer, "UserAttribute", id))
  BY <1>6 DEF MatchIdentity, SignatureVerifies
<1> HIDE DEF s, m, r
<1>9. <<s>> \in Seq(Backed(ms)) /\ <<s>> # <<>> /\ <<s>>[1] = s /\ Range(<<s>>) = {s}
  BY <1>5, OneSig
<1>10. r.id = id /\ r.sigs = <<s>> /\ r \in Named(Backed(ms))
  BY <1>7, <1>9 DEF Named
<1>11. First(r, CertTypes)
  BY <1>2, <1>6, <1>9, <1>10 DEF First
<1>12. VerifyAttribute(r, signer)
  BY <1>8, <1>9, <1>10 DEF VerifyAttribute, VerifyCertification, VerifyThirdParty
<1>13. QED
  BY <1>10, <1>11, <1>12 DEF r

\* sign() of a subkey.
LEMMA SignSubkeyFacts ==
    ASSUME NEW signer, signer.name \in KeyNames, NEW k \in UnsignedSubkey, NEW ms,
           Statement(signer, <<signer.name, "Subkey", k.key.name>>, "SubkeyBinding",
                     [NoSub EXCEPT !.flags = k.flags, !.fp = signer.name]) \in ms
    PROVE  /\ SignSubkey(signer, k) \in Bound(Backed(ms))
           /\ SignSubkey(signer, k).key = k.key
           /\ First(SignSubkey(signer, k), BindingTypes)
           /\ SignSubkey(signer, k).sigs[1].sub = [NoSub EXCEPT !.flags = k.flags, !.fp = signer.name]
           /\ SignSubkey(signer, k).sigs[1].sub.flags = k.flags
           /\ VerifySubkey(SignSubkey(signer, k), signer)
<1> DEFINE sub == [NoSub EXCEPT !.flags = k.flags, !.fp = signer.name]
           s == Signature("V4", "SubkeyBinding", sub, {signer.name}, signer, BindingParts(signer, k.key))
           m == Statement(signer, <<signer.name, "Subkey", k.key.name>>, "SubkeyBinding", sub)
           r == SignSubkey(signer, k)
<1>0. k.key \in Subkeys /\ k.key.name \in KeyNames /\ k.flags \in SUBSET Flags
  BY NamesFacts DEF UnsignedSubkey
<1>1. sub \in Sub /\ sub.flags = k.flags
  <2>1. signer.name \in KeyNames \cup {"none"}
    OBVIOUS
  <2>2. "fp" \in DOMAIN NoSub /\ "flags" \in DOMAIN NoSub
    BY DEF NoSub
  <2>3. QED
    BY <1>0, <2>1, <2>2, NoSubType DEF Sub
<1>2. "SubkeyBinding" \in SignatureTypes /\ "SubkeyBinding" \in BindingTypes
  BY DEF SignatureTypes, BindingTypes
<1>3. m = [by |-> signer.name, about |-> <<signer.name, "Subkey", k.key.name>>, typ |-> "SubkeyBinding", sub |-> sub]
  BY DEF Statement
<1> HIDE DEF sub
<1>4. s \in Sig /\ Backs(m, s)
  BY <1>0, <1>1, <1>2, <1>3, BindingBacked
<1>5. s \in Backed(ms)
  BY <1>4 DEF Backed, sub
<1>6. /\ s.v = "V4" /\ s.typ = "SubkeyBinding" /\ s.sub = sub
      /\ s.value = [by |-> signer.name, hash |-> HashOf("V4", "SubkeyBinding", sub, BindingParts(signer, k.key))]
  BY DEF Signature
<1>7. r = [key |-> k.key, sigs |-> <<s>>]
  BY DEF SignSubkey, sub
<1>8. VerifyBinding(s, signer, k.key, FALSE)
  BY <1>6 DEF VerifyBinding, SignatureVerifies, BindingParts
<1> HIDE DEF s, m, r
<1>9. <<s>> \in Seq(Backed(ms)) /\ <<s>> # <<>> /\ <<s>>[1] = s /\ Range(<<s>>) = {s}
  BY <1>5, OneSig
<1>10. r.key = k.key /\ r.sigs = <<s>> /\ r \in Bound(Backed(ms))
  BY <1>0, <1>7, <1>9 DEF Bound
<1>11. First(r, BindingTypes) /\ r.sigs[1].sub = sub
  BY <1>2, <1>6, <1>9, <1>10 DEF First
<1>12. VerifySubkey(r, signer)
  BY <1>8, <1>9, <1>10 DEF VerifySubkey
<1>13. QED
  BY <1>1, <1>10, <1>11, <1>12 DEF r, sub

\* The parts of what sign() returns.
SignedParts(u, signer, c) ==
    /\ c = [secret |-> c.secret, primary |-> c.primary, revs |-> c.revs, directs |-> c.directs,
            users |-> c.users, attrs |-> c.attrs, pubsubs |-> c.pubsubs, secsubs |-> c.secsubs]
    /\ c.users = [i \in DOMAIN c.users |-> c.users[i]]
    /\ c.secret = u.secret /\ c.primary = u.primary /\ c.revs = <<>> /\ c.directs = <<>>
    /\ Len(c.users) = Len(u.uids) + 1 /\ DOMAIN c.users = 1..(Len(u.uids) + 1)
    /\ c.users[1] = SignUser(u, signer, u.uid, TRUE)
    /\ \A i \in 1..Len(u.uids) : c.users[i + 1] = SignUser(u, signer, u.uids[i], FALSE)
    /\ c.attrs = [i \in 1..Len(u.attrs) |-> SignAttribute(signer, u.attrs[i])]
    /\ c.pubsubs = [i \in 1..Len(u.pubsubs) |-> SignSubkey(signer, u.pubsubs[i])]
    /\ c.secsubs = [i \in 1..Len(u.secsubs) |-> SignSubkey(signer, u.secsubs[i])]

\* KeyDetails::sign puts the primary user first and the others behind it, in
\* their order; sign() keeps the primary key and the order of the subkeys.
LEMMA SignKeyParts ==
    ASSUME NEW u \in UnsignedKey, NEW signer
    PROVE  SignedParts(u, signer, SignKey(u, signer))
<1> DEFINE c == SignKey(u, signer)
           first == SignUser(u, signer, u.uid, TRUE)
           rest == [i \in DOMAIN u.uids |-> SignUser(u, signer, u.uids[i], FALSE)]
           T == {first} \cup { SignUser(u, signer, u.uids[i], FALSE) : i \in DOMAIN u.uids }
<1>1. /\ u.uids \in Seq(Ids) /\ u.attrs \in Seq(Ids)
      /\ u.pubsubs \in Seq(UnsignedSubkey) /\ u.secsubs \in Seq(UnsignedSubkey)
  BY DEF UnsignedKey
<1>2. /\ DOMAIN u.uids = 1..Len(u.uids) /\ DOMAIN u.attrs = 1..Len(u.attrs) /\ Len(u.uids) \in Nat
      /\ DOMAIN u.pubsubs = 1..Len(u.pubsubs) /\ DOMAIN u.secsubs = 1..Len(u.secsubs)
  BY <1>1
<1>3. c = [secret |-> u.secret, primary |-> u.primary, revs |-> <<>>, directs |-> <<>>,
           users |-> <<first>> \o rest,
           attrs |-> [i \in DOMAIN u.attrs |-> SignAttribute(signer, u.attrs[i])],
           pubsubs |-> [i \in DOMAIN u.pubsubs |-> SignSubkey(signer, u.pubsubs[i])],
           secsubs |-> [i \in DOMAIN u.secsubs |-> SignSubkey(signer, u.secsubs[i])]]
  BY DEF SignKey
<1>4. rest \in [1..Len(u.uids) -> T] /\ first \in T
  BY <1>2
<1>5. \A i \in 1..Len(u.uids) : rest[i] = SignUser(u, signer, u.uids[i], FALSE)
  BY <1>2
<1> HIDE DEF c, rest, T
<1>6. rest \in Seq(T) /\ Len(rest) = Len(u.uids)
  BY <1>2, <1>4, MapSeq
<1>7. <<first>> \in Seq(T) /\ Len(<<first>>) = 1 /\ <<first>>[1] = first /\ 1 \in 1..1
  <2> HIDE DEF first
  <2>1. QED
    BY <1>4
<1>8. c.users = <<first>> \o rest
  BY <1>3
<1>9. IsJoined(T, <<first>>, rest, c.users)
  BY <1>6, <1>7, <1>8, Joined
<1>10. /\ c.users \in Seq(T) /\ Len(c.users) = 1 + Len(u.uids) /\ c.users[1] = first
       /\ \A i \in 1..Len(u.uids) : c.users[1 + i] = rest[i]
  BY <1>6, <1>7, <1>9 DEF IsJoined
<1>11. /\ Len(c.users) = Len(u.uids) + 1 /\ DOMAIN c.users = 1..(Len(u.uids) + 1)
       /\ \A i \in 1..Len(u.uids) : c.users[i + 1] = rest[i]
  <2>1. DOMAIN c.users = 1..Len(c.users)
    BY <1>10
  <2>2. 1 + Len(u.uids) = Len(u.uids) + 1 /\ \A i \in 1..Len(u.uids) : 1 + i = i + 1
    BY <1>2
  <2>3. QED
    BY <1>10, <2>1, <2>2
<1>12. /\ c.secret = u.secret /\ c.primary = u.primary /\ c.revs = <<>> /\ c.directs = <<>>
       /\ c.attrs = [i \in 1..Len(u.attrs) |-> SignAttribute(signer, u.attrs[i])]
       /\ c.pubsubs = [i \in 1..Len(u.pubsubs) |-> SignSubkey(signer, u.pubsubs[i])]
       /\ c.secsubs = [i \in 1..Len(u.secsubs) |-> SignSubkey(signer, u.secsubs[i])]
  BY <1>2, <1>3
<1>13. \A i \in 1..Len(u.uids) : c.users[i + 1] = SignUser(u, signer, u.uids[i], FALSE)
  BY <1>5, <1>11
<1>14. /\ c = [secret |-> c.secret, primary |-> c.primary, revs |-> c.revs, directs |-> c.directs,
               users |-> c.users, attrs |-> c.attrs, pubsubs |-> c.pubsubs, secsubs |-> c.secsubs]
       /\ c.users = [i \in DOMAIN c.users |-> c.users[i]]
  <2>1. c.users = [i \in DOMAIN c.users |-> c.users[i]]
    BY <1>10
  <2>2. QED
    BY <1>3, <2>1
<1>15. SignedParts(u, signer, c)
  BY <1>10, <1>11, <1>12, <1>13, <1>14, Zenon DEF SignedParts
<1>16. QED
  BY <1>15 DEF c

\* The subkeys sign() returns, public ones and secret ones, in their order.
LEMMA SignedSubkeys ==
    ASSUME NEW u \in UnsignedKey, NEW signer
    PROVE  /\ Len(SubKeysOf(SignKey(u, signer))) = Len(SubKeysOf(u))
           /\ DOMAIN SubKeysOf(SignKey(u, signer)) = 1..Len(SubKeysOf(u))
           /\ \A i \in 1..Len(SubKeysOf(u)) :
                SubKeysOf(SignKey(u, signer))[i] = SignSubkey(signer, SubKeysOf(u)[i])
<1> DEFINE c == SignKey(u, signer)
           T == { SignSubkey(signer, k) : k \in UnsignedSubkey }
<1>1. u.pubsubs \in Seq(UnsignedSubkey) /\ u.secsubs \in Seq(UnsignedSubkey)
  BY DEF UnsignedKey
<1>2. /\ c.pubsubs = [i \in 1..Len(u.pubsubs) |-> SignSubkey(signer, u.pubsubs[i])]
      /\ c.secsubs = [i \in 1..Len(u.secsubs) |-> SignSubkey(signer, u.secsubs[i])]
  BY SignKeyParts, Zenon DEF SignedParts
<1>3. /\ \A j \in 1..Len(u.pubsubs) : SignSubkey(signer, u.pubsubs[j]) \in T
      /\ \A j \in 1..Len(u.secsubs) : SignSubkey(signer, u.secsubs[j]) \in T
  BY <1>1
<1> HIDE DEF c, T
<1>4. /\ c.pubsubs \in [1..Len(u.pubsubs) -> T] /\ c.secsubs \in [1..Len(u.secsubs) -> T]
      /\ Len(u.pubsubs) \in Nat /\ Len(u.secsubs) \in Nat
  BY <1>1, <1>2, <1>3
<1>5. /\ c.pubsubs \in Seq(T) /\ Len(c.pubsubs) = Len(u.pubsubs)
      /\ c.secsubs \in Seq(T) /\ Len(c.secsubs) = Len(u.secsubs)
  BY <1>4, MapSeq
<1>6. /\ IsJoined(T, c.pubsubs, c.secsubs, SubKeysOf(c))
      /\ IsJoined(UnsignedSubkey, u.pubsubs, u.secsubs, SubKeysOf(u))
  BY <1>1, <1>5, SubKeysFacts
<1>7. Len(SubKeysOf(c)) = Len(SubKeysOf(u)) /\ DOMAIN SubKeysOf(c) = 1..Len(SubKeysOf(u))
  BY <1>5, <1>6 DEF IsJoined
<1>8. ASSUME NEW i \in 1..Len(SubKeysOf(u))
      PROVE  SubKeysOf(c)[i] = SignSubkey(signer, SubKeysOf(u)[i])
  <2>1. CASE i \in 1..Len(u.pubsubs)
    <3>1. SubKeysOf(u)[i] = u.pubsubs[i] /\ SubKeysOf(c)[i] = c.pubsubs[i]
      BY <1>5, <1>6, <2>1 DEF IsJoined
    <3>2. QED
      BY <1>2, <2>1, <3>1
  <2>2. CASE i \notin 1..Len(u.pubsubs)
    <3>1. PICK k \in 1..Len(u.secsubs) : i = Len(u.pubsubs) + k
      BY <1>6, <2>2 DEF IsJoined
    <3>2. SubKeysOf(u)[i] = u.secsubs[k] /\ SubKeysOf(c)[i] = c.secsubs[k]
      BY <1>5, <1>6, <3>1 DEF IsJoined
    <3>3. QED
      BY <1>2, <3>2
  <2>3. QED
    BY <2>1, <2>2
<1>9. QED
  BY <1>7, <1>8 DEF c

\* Every signature of sign() comes with its statement.
LEMMA StatementsOfSign ==
    ASSUME NEW u \in UnsignedKey, NEW signer, NEW ms,
           Statements(SignKey(u, signer), signer) \subseteq ms
    PROVE  /\ Statement(signer, <<signer.name, "UserId", u.uid>>, "CertGeneric", UserSub(u, signer, TRUE)) \in ms
           /\ \A i \in 1..Len(u.uids) :
                Statement(signer, <<signer.name, "UserId", u.uids[i]>>, "CertGeneric", UserSub(u, signer, FALSE)) \in ms
           /\ \A i \in 1..Len(u.attrs) :
                Statement(signer, <<signer.name, "UserAttribute", u.attrs[i]>>, "CertGeneric", NoSub) \in ms
           /\ \A i \in 1..Len(SubKeysOf(u)) :
                Statement(signer, <<signer.name, "Subkey", SubKeysOf(u)[i].key.name>>, "SubkeyBinding",
                          [NoSub EXCEPT !.flags = SubKeysOf(u)[i].flags, !.fp = signer.name]) \in ms
<1> DEFINE c == SignKey(u, signer)
<1>0. /\ u.uids \in Seq(Ids) /\ u.attrs \in Seq(Ids) /\ Len(u.uids) \in Nat
      /\ u.pubsubs \in Seq(UnsignedSubkey) /\ u.secsubs \in Seq(UnsignedSubkey)
  BY DEF UnsignedKey
<1>1. /\ DOMAIN c.users = 1..(Len(u.uids) + 1)
      /\ c.users[1] = SignUser(u, signer, u.uid, TRUE)
      /\ \A i \in 1..Len(u.uids) : c.users[i + 1] = SignUser(u, signer, u.uids[i], FALSE)
      /\ c.attrs = [i \in 1..Len(u.attrs) |-> SignAttribute(signer, u.attrs[i])]
      /\ c.pubsubs = [i \in 1..Len(u.pubsubs) |-> SignSubkey(signer, u.pubsubs[i])]
      /\ c.secsubs = [i \in 1..Len(u.secsubs) |-> SignSubkey(signer, u.secsubs[i])]
  BY SignKeyParts, Zenon DEF SignedParts
<1>2. \A id, b : /\ SignUser(u, signer, id, b).id = id
                 /\ SignUser(u, signer, id, b).sigs[1].sub = UserSub(u, signer, b)
  BY DEF SignUser, Signature
<1>3. \A k : /\ SignSubkey(signer, k).key = k.key
             /\ SignSubkey(signer, k).sigs[1].sub = [NoSub EXCEPT !.flags = k.flags, !.fp = signer.name]
  BY DEF SignSubkey, Signature
<1>4. \A id : SignAttribute(signer, id).id = id
  BY DEF SignAttribute
<1> HIDE DEF c
<1>5. /\ \A i \in DOMAIN c.users :
           Statement(signer, <<signer.name, "UserId", c.users[i].id>>, "CertGeneric", c.users[i].sigs[1].sub) \in ms
      /\ \A i \in DOMAIN c.attrs :
           Statement(signer, <<signer.name, "UserAttribute", c.attrs[i].id>>, "CertGeneric", NoSub) \in ms
      /\ \A i \in DOMAIN SubKeysOf(c) :
           Statement(signer, <<signer.name, "Subkey", SubKeysOf(c)[i].key.name>>, "SubkeyBinding",
                     SubKeysOf(c)[i].sigs[1].sub) \in ms
  BY DEF Statements, Statement, c
<1>6. Statement(signer, <<signer.name, "UserId", u.uid>>, "CertGeneric", UserSub(u, signer, TRUE)) \in ms
  <2>1. 1 \in DOMAIN c.users
    BY <1>0, <1>1
  <2>2. c.users[1].id = u.uid /\ c.users[1].sigs[1].sub = UserSub(u, signer, TRUE)
    <3>1. c.users[1] = SignUser(u, signer, u.uid, TRUE)
      BY <1>1
    <3>2. QED
      BY <1>2, <3>1, Zenon
  <2>3. QED
    BY <1>5, <2>1, <2>2
<1>7. ASSUME NEW i \in 1..Len(u.uids)
      PROVE  Statement(signer, <<signer.name, "UserId", u.uids[i]>>, "CertGeneric", UserSub(u, signer, FALSE)) \in ms
  <2>1. i + 1 \in DOMAIN c.users
    BY <1>0, <1>1
  <2>2. c.users[i + 1].id = u.uids[i] /\ c.users[i + 1].sigs[1].sub = UserSub(u, signer, FALSE)
    <3>1. c.users[i + 1] = SignUser(u, signer, u.uids[i], FALSE)
      BY <1>1
    <3>2. QED
      BY <1>2, <3>1, Zenon
  <2>3. QED
    BY <1>5, <2>1, <2>2
<1>8. ASSUME NEW i \in 1..Len(u.attrs)
      PROVE  Statement(signer, <<signer.name, "UserAttribute", u.attrs[i]>>, "CertGeneric", NoSub) \in ms
  <2>1. i \in DOMAIN c.attrs /\ c.attrs[i] = SignAttribute(signer, u.attrs[i])
    BY <1>1
  <2>2. QED
    BY <1>4, <1>5, <2>1
<1>9. ASSUME NEW i \in 1..Len(SubKeysOf(u))
      PROVE  i \in DOMAIN SubKeysOf(c) /\ SubKeysOf(c)[i] = SignSubkey(signer, SubKeysOf(u)[i])
  BY SignedSubkeys DEF c
<1>10. ASSUME NEW i \in 1..Len(SubKeysOf(u))
       PROVE  Statement(signer, <<signer.name, "Subkey", SubKeysOf(u)[i].key.name>>, "SubkeyBinding",
                        [NoSub EXCEPT !.flags = SubKeysOf(u)[i].flags, !.fp = signer.name]) \in ms
  <2>1. /\ SubKeysOf(c)[i].key = SubKeysOf(u)[i].key
        /\ SubKeysOf(c)[i].sigs[1].sub = [NoSub EXCEPT !.flags = SubKeysOf(u)[i].flags, !.fp = signer.name]
    BY <1>3, <1>9
  <2>2. QED
    BY <1>5, <1>9, <2>1
<1>11. QED
  BY <1>6, <1>7, <1>8, <1>10

\* What sign() returns holds signatures that were made and no others, and
\* when the key signs itself it verifies.
LEMMA SignKeyFacts ==
    ASSUME NEW u \in UnsignedKey, NEW signer, signer.name \in KeyNames, NEW ms,
           Statements(SignKey(u, signer), signer) \subseteq ms
    PROVE  /\ SignKey(u, signer) \in CertOf(Backed(ms))
           /\ SignKey(u, signer).primary = u.primary
           /\ signer = u.primary => VerifyCert(SignKey(u, signer))
<1> DEFINE c == SignKey(u, signer)
           S == Backed(ms)
<1>0. /\ u.uids \in Seq(Ids) /\ u.attrs \in Seq(Ids) /\ Len(u.uids) \in Nat /\ u.uid \in Ids
      /\ u.pubsubs \in Seq(UnsignedSubkey) /\ u.secsubs \in Seq(UnsignedSubkey)
      /\ u.secret \in BOOLEAN /\ u.primary \in PrimaryKeys
      /\ Len(u.attrs) \in Nat /\ Len(u.pubsubs) \in Nat /\ Len(u.secsubs) \in Nat
  BY DEF UnsignedKey
<1>1. SignedParts(u, signer, c)
  BY SignKeyParts
<1> HIDE DEF c, S
<1>2. ASSUME NEW i \in 1..(Len(u.uids) + 1)
      PROVE  c.users[i] \in Named(S) /\ VerifyUser(c.users[i], signer)
  <2>1. CASE i = 1
    <3>1. c.users[i] = SignUser(u, signer, u.uid, TRUE)
      BY <1>1, <2>1 DEF SignedParts
    <3>2. Statement(signer, <<signer.name, "UserId", u.uid>>, "CertGeneric", UserSub(u, signer, TRUE)) \in ms
      BY StatementsOfSign
    <3>3. /\ SignUser(u, signer, u.uid, TRUE) \in Named(Backed(ms))
          /\ VerifyUser(SignUser(u, signer, u.uid, TRUE), signer)
      <4>1. TRUE \in BOOLEAN /\ u.uid \in Ids
        BY <1>0
      <4>2. QED
        BY <3>2, <4>1, SignUserFacts
    <3>4. QED
      BY <3>1, <3>3 DEF S
  <2>2. CASE i # 1
    <3>1. i - 1 \in 1..Len(u.uids) /\ i = (i - 1) + 1
      BY <1>0, <2>2
    <3>2. c.users[i] = SignUser(u, signer, u.uids[i - 1], FALSE)
      BY <1>1, <3>1 DEF SignedParts
    <3>3. Statement(signer, <<signer.name, "UserId", u.uids[i - 1]>>, "CertGeneric", UserSub(u, signer, FALSE)) \in ms
      BY <3>1, StatementsOfSign
    <3>4. u.uids[i - 1] \in Ids
      BY <1>0, <3>1
    <3>5. /\ SignUser(u, signer, u.uids[i - 1], FALSE) \in Named(Backed(ms))
          /\ VerifyUser(SignUser(u, signer, u.uids[i - 1], FALSE), signer)
      <4>1. FALSE \in BOOLEAN
        OBVIOUS
      <4>2. QED
        BY <3>3, <3>4, <4>1, SignUserFacts
    <3>6. QED
      BY <3>2, <3>5 DEF S
  <2>3. QED
    BY <2>1, <2>2
<1>3. ASSUME NEW i \in 1..Len(u.attrs)
      PROVE  c.attrs[i] \in Named(S) /\ VerifyAttribute(c.attrs[i], signer)
  <2>1. c.attrs[i] = SignAttribute(signer, u.attrs[i]) /\ u.attrs[i] \in Ids
    BY <1>0, <1>1 DEF SignedParts
  <2>2. Statement(signer, <<signer.name, "UserAttribute", u.attrs[i]>>, "CertGeneric", NoSub) \in ms
    BY StatementsOfSign
  <2>3. QED
    BY <2>1, <2>2, SignAttributeFacts DEF S
<1>4. /\ \A i \in 1..Len(u.pubsubs) : SignSubkey(signer, u.pubsubs[i]) \in Bound(S)
                                      /\ VerifySubkey(SignSubkey(signer, u.pubsubs[i]), signer)
      /\ \A i \in 1..Len(u.secsubs) : SignSubkey(signer, u.secsubs[i]) \in Bound(S)
                                      /\ VerifySubkey(SignSubkey(signer, u.secsubs[i]), signer)
  <2>1. IsJoined(UnsignedSubkey, u.pubsubs, u.secsubs, SubKeysOf(u))
    BY <1>0, SubKeysFacts
  <2>2. ASSUME NEW k \in UnsignedSubkey, NEW i \in 1..Len(SubKeysOf(u)), SubKeysOf(u)[i] = k
        PROVE  SignSubkey(signer, k) \in Bound(S) /\ VerifySubkey(SignSubkey(signer, k), signer)
    <3>1. Statement(signer, <<signer.name, "Subkey", k.key.name>>, "SubkeyBinding",
                    [NoSub EXCEPT !.flags = k.flags, !.fp = signer.name]) \in ms
      BY <2>2, StatementsOfSign
    <3>2. QED
      BY <3>1, SignSubkeyFacts DEF S
  <2>3. ASSUME NEW i \in 1..Len(u.pubsubs)
        PROVE  i \in 1..Len(SubKeysOf(u)) /\ SubKeysOf(u)[i] = u.pubsubs[i] /\ u.pubsubs[i] \in UnsignedSubkey
    <3>1. i \in 1..Len(SubKeysOf(u)) /\ SubKeysOf(u)[i] = u.pubsubs[i]
      BY <2>1, Zenon DEF IsJoined
    <3>2. u.pubsubs[i] \in UnsignedSubkey
      BY <1>0
    <3>3. QED
      BY <3>1, <3>2
  <2>4. ASSUME NEW i \in 1..Len(u.secsubs)
        PROVE  /\ Len(u.pubsubs) + i \in 1..Len(SubKeysOf(u))
               /\ SubKeysOf(u)[Len(u.pubsubs) + i] = u.secsubs[i] /\ u.secsubs[i] \in UnsignedSubkey
    <3>1. Len(u.pubsubs) + i \in 1..Len(SubKeysOf(u)) /\ SubKeysOf(u)[Len(u.pubsubs) + i] = u.secsubs[i]
      BY <2>1, Zenon DEF IsJoined
    <3>2. u.secsubs[i] \in UnsignedSubkey
      BY <1>0
    <3>3. QED
      BY <3>1, <3>2
  <2>5. QED
    BY <2>2, <2>3, <2>4
<1>5. /\ c.users \in Seq(Named(S)) /\ DOMAIN c.users = 1..(Len(u.uids) + 1)
      /\ c.attrs \in Seq(Named(S)) /\ DOMAIN c.attrs = 1..Len(u.attrs)
      /\ c.pubsubs \in Seq(Bound(S)) /\ DOMAIN c.pubsubs = 1..Len(u.pubsubs)
      /\ c.secsubs \in Seq(Bound(S)) /\ DOMAIN c.secsubs = 1..Len(u.secsubs)
  <2>1. c.users \in [1..(Len(u.uids) + 1) -> Named(S)]
    <3>1. DOMAIN c.users = 1..(Len(u.uids) + 1) /\ c.users = [i \in DOMAIN c.users |-> c.users[i]]
      BY <1>1 DEF SignedParts
    <3>2. QED
      BY <1>2, <3>1
  <2>2. c.attrs \in [1..Len(u.attrs) -> Named(S)]
    BY <1>1, <1>3 DEF SignedParts
  <2>3. c.pubsubs \in [1..Len(u.pubsubs) -> Bound(S)]
    BY <1>1, <1>4 DEF SignedParts
  <2>4. c.secsubs \in [1..Len(u.secsubs) -> Bound(S)]
    BY <1>1, <1>4 DEF SignedParts
  <2>5. Len(u.uids) + 1 \in Nat
    BY <1>0
  <2>6. QED
    BY <1>0, <2>1, <2>2, <2>3, <2>4, <2>5, MapSeq
<1>6. c \in CertOf(S)
  <2>1. /\ c.secret \in BOOLEAN /\ c.primary \in PrimaryKeys
        /\ c.revs \in Seq(S) /\ c.directs \in Seq(S)
    BY <1>0, <1>1 DEF SignedParts
  <2>2. c = [secret |-> c.secret, primary |-> c.primary, revs |-> c.revs, directs |-> c.directs,
             users |-> c.users, attrs |-> c.attrs, pubsubs |-> c.pubsubs, secsubs |-> c.secsubs]
    BY <1>1 DEF SignedParts
  <2>3. QED
    BY <1>5, <2>1, <2>2 DEF CertOf
<1>7. ASSUME signer = u.primary PROVE VerifyCert(c)
  <2>1. VerifyDetails(c)
    <3>1. c.primary = signer /\ c.revs = <<>> /\ c.directs = <<>>
      BY <1>1, <1>7 DEF SignedParts
    <3>2. Range(c.revs) = {} /\ Range(c.directs) = {}
      BY <3>1 DEF Range
    <3>3. QED
      BY <1>2, <1>3, <1>5, <3>1, <3>2 DEF VerifyDetails
  <2>2. VerifySubkeys(c.pubsubs, c.primary) /\ VerifySubkeys(c.secsubs, c.primary)
    BY <1>1, <1>4, <1>5, <1>7 DEF VerifySubkeys, SignedParts
  <2>3. QED
    BY <2>1, <2>2 DEF VerifyCert
<1>8. QED
  BY <1>1, <1>6, <1>7 DEF SignedParts, c, S

\* sign() keeps what the unsigned key holds, and puts its own signature first.
LEMMA SignKeySame ==
    ASSUME NEW p \in Param, NEW u \in UnsignedKey, SameUnsigned(p, u),
           NEW signer, signer.name \in KeyNames
    PROVE  SameSigned(p, SignKey(u, signer))
<1> DEFINE c == SignKey(u, signer)
           ms == Statements(c, signer)
<1>0. /\ u.uids \in Seq(Ids) /\ u.attrs \in Seq(Ids) /\ Len(u.uids) \in Nat /\ Len(u.attrs) \in Nat
      /\ u.uid \in Ids /\ u.pubsubs \in Seq(UnsignedSubkey) /\ u.secsubs \in Seq(UnsignedSubkey)
  BY DEF UnsignedKey
<1>1. SignedParts(u, signer, c)
  BY SignKeyParts
<1>2. Statements(SignKey(u, signer), signer) \subseteq ms
  OBVIOUS
<1> HIDE DEF c, ms
<1>3. /\ c.users[1].id = u.uid /\ First(c.users[1], CertTypes)
      /\ c.users[1].sigs[1].sub = UserSub(u, signer, TRUE)
  <2>1. c.users[1] = SignUser(u, signer, u.uid, TRUE)
    BY <1>1 DEF SignedParts
  <2>2. Statement(signer, <<signer.name, "UserId", u.uid>>, "CertGeneric", UserSub(u, signer, TRUE)) \in ms
    BY <1>2, StatementsOfSign
  <2>3. TRUE \in BOOLEAN /\ u.uid \in Ids
    BY <1>0
  <2>4. /\ SignUser(u, signer, u.uid, TRUE).id = u.uid
        /\ First(SignUser(u, signer, u.uid, TRUE), CertTypes)
        /\ SignUser(u, signer, u.uid, TRUE).sigs[1].sub = UserSub(u, signer, TRUE)
    BY <2>2, <2>3, SignUserFacts
  <2>5. QED
    BY <2>1, <2>4
<1>4. ASSUME NEW i \in 1..Len(u.uids)
      PROVE  c.users[i + 1].id = u.uids[i] /\ First(c.users[i + 1], CertTypes)
  <2>1. c.users[i + 1] = SignUser(u, signer, u.uids[i], FALSE)
    BY <1>1 DEF SignedParts
  <2>2. Statement(signer, <<signer.name, "UserId", u.uids[i]>>, "CertGeneric", UserSub(u, signer, FALSE)) \in ms
    BY <1>2, StatementsOfSign
  <2>3. FALSE \in BOOLEAN /\ u.uids[i] \in Ids
    BY <1>0
  <2>4. /\ SignUser(u, signer, u.uids[i], FALSE).id = u.uids[i]
        /\ First(SignUser(u, signer, u.uids[i], FALSE), CertTypes)
    BY <2>2, <2>3, SignUserFacts
  <2>5. QED
    BY <2>1, <2>4
<1>5. ASSUME NEW i \in 1..Len(u.attrs)
      PROVE  c.attrs[i].id = u.attrs[i] /\ First(c.attrs[i], CertTypes)
  <2>1. c.attrs[i] = SignAttribute(signer, u.attrs[i]) /\ u.attrs[i] \in Ids
    BY <1>0, <1>1 DEF SignedParts
  <2>2. Statement(signer, <<signer.name, "UserAttribute", u.attrs[i]>>, "CertGeneric", NoSub) \in ms
    BY <1>2, StatementsOfSign
  <2>3. QED
    BY <2>1, <2>2, SignAttributeFacts
<1>6. ASSUME NEW i \in 1..Len(SubKeysOf(u))
      PROVE  /\ SubKeysOf(c)[i].sigs[1].sub.flags = SubKeysOf(u)[i].flags
             /\ First(SubKeysOf(c)[i], BindingTypes)
  <2>1. SubKeysOf(c)[i] = SignSubkey(signer, SubKeysOf(u)[i])
    BY SignedSubkeys DEF c
  <2>2. IsJoined(UnsignedSubkey, u.pubsubs, u.secsubs, SubKeysOf(u))
    BY <1>0, SubKeysFacts
  <2>3. SubKeysOf(u) \in Seq(UnsignedSubkey)
    BY <2>2, Zenon DEF IsJoined
  <2>4. SubKeysOf(u)[i] \in UnsignedSubkey
    BY <2>3
  <2>5. Statement(signer, <<signer.name, "Subkey", SubKeysOf(u)[i].key.name>>, "SubkeyBinding",
                  [NoSub EXCEPT !.flags = SubKeysOf(u)[i].flags, !.fp = signer.name]) \in ms
    BY <1>2, StatementsOfSign
  <2> DEFINE k == SubKeysOf(u)[i]
  <2> HIDE DEF k
  <2>6. /\ SignSubkey(signer, k).sigs[1].sub.flags = k.flags
        /\ First(SignSubkey(signer, k), BindingTypes)
    <3>1. k \in UnsignedSubkey
      BY <2>4 DEF k
    <3>2. Statement(signer, <<signer.name, "Subkey", k.key.name>>, "SubkeyBinding",
                    [NoSub EXCEPT !.flags = k.flags, !.fp = signer.name]) \in ms
      BY <2>5 DEF k
    <3>3. QED
      BY <3>1, <3>2, SignSubkeyFacts
  <2>7. QED
    BY <2>1, <2>6 DEF k
<1>7. SameUsers(p, c.users)
  <2>1. Len(c.users) = Len(p.uids) + 1 /\ u.uids = p.uids /\ u.uid = p.uid
    BY <1>1 DEF SignedParts, SameUnsigned
  <2>2. AllFirst(c.users, CertTypes)
    <3>1. ASSUME NEW i \in 1..Len(c.users) PROVE First(c.users[i], CertTypes)
      <4>1. CASE i = 1
        BY <1>3, <4>1
      <4>2. CASE i # 1
        <5>1. i - 1 \in 1..Len(u.uids) /\ i = (i - 1) + 1
          BY <1>0, <2>1, <4>2
        <5>2. QED
          BY <1>4, <5>1
      <4>3. QED
        BY <4>1, <4>2
    <3>2. QED
      BY <3>1 DEF AllFirst
  <2>3. TRUE \in BOOLEAN
    OBVIOUS
  <2>4. /\ UserSub(u, signer, TRUE).primary = TRUE
        /\ UserSub(u, signer, TRUE).flags = u.flags
        /\ UserSub(u, signer, TRUE).prefs = u.prefs
        /\ UserSub(u, signer, TRUE).rkey = u.rkey
    BY <2>3, UserSubFacts
  <2>5. u.flags = p.flags /\ u.prefs = p.prefs /\ u.rkey = p.rkey
    BY DEF SameUnsigned
  <2>6. QED
    BY <1>3, <1>4, <2>1, <2>2, <2>4, <2>5 DEF SameUsers
<1>8. SameAttrs(p, c.attrs)
  <2>1. Len(c.attrs) = Len(u.attrs) /\ u.attrs = p.attrs
    BY <1>0, <1>1 DEF SignedParts, SameUnsigned
  <2>2. QED
    BY <1>5, <2>1 DEF SameAttrs, AllFirst
<1>9. SameSubkeys(p, SubKeysOf(c))
  <2>1. Len(SubKeysOf(c)) = Len(SubKeysOf(u)) /\ Len(SubKeysOf(u)) = Len(p.subkeys)
    BY SignedSubkeys DEF SameUnsigned, c
  <2>2. \A i \in 1..Len(p.subkeys) : SubKeysOf(u)[i].flags = p.subkeys[i].flags
    BY DEF SameUnsigned
  <2>3. QED
    BY <1>6, <2>1, <2>2 DEF SameSubkeys, AllFirst
<1>10. QED
  BY <1>7, <1>8, <1>9 DEF SameSigned, c

-----------------------------------------------------------------------------
(* as_unsigned().                                                          *)

\* The first signature behind a component that has one.
LEMMA HeadOfSigs ==
    ASSUME NEW S, S \subseteq Sig, NEW sigs \in Seq(S), sigs # <<>>
    PROVE  Head(sigs) = sigs[1] /\ sigs[1] \in S /\ Head(sigs).sub \in Sub
<1>1. Head(sigs) = sigs[1] /\ sigs[1] \in S
  OBVIOUS
<1>2. sigs[1] \in Sig
  BY <1>1
<1>3. sigs[1].sub \in Sub
  BY <1>2 DEF Sig
<1>4. QED
  BY <1>1, <1>3

\* The fields of as_unsigned().
AsUnsignedParts(c, u) ==
    /\ u.secret = FALSE /\ u.primary = c.primary /\ u.uid = PrimaryUser(c).id
    /\ u.uids = [i \in DOMAIN OtherUsers(c) |-> OtherUsers(c)[i].id]
    /\ u.attrs = [i \in DOMAIN c.attrs |-> c.attrs[i].id]
    /\ u.flags = Head(PrimaryUser(c).sigs).sub.flags
    /\ u.prefs = Head(PrimaryUser(c).sigs).sub.prefs
    /\ u.rkey = Head(PrimaryUser(c).sigs).sub.rkey
    /\ u.pubsubs = UnsignedSubkeys(SubKeysOf(c)) /\ u.secsubs = <<>>
    /\ u = [secret |-> u.secret, primary |-> u.primary, uid |-> u.uid, uids |-> u.uids,
            attrs |-> u.attrs, flags |-> u.flags, prefs |-> u.prefs, rkey |-> u.rkey,
            pubsubs |-> u.pubsubs, secsubs |-> u.secsubs]

\* as_unsigned() sets these fields and no others.
LEMMA AsUnsignedIs ==
    ASSUME NEW c
    PROVE  AsUnsignedParts(c, AsUnsigned(c))
BY DEF AsUnsignedParts, AsUnsigned

\* The user as_unsigned() takes for the primary one has a signature.
LEMMA PrimaryUserFacts ==
    ASSUME NEW S, S \subseteq Sig, NEW c \in CertOf(S), ~AsUnsignedPanics(c)
    PROVE  PrimaryUser(c) \in Named(S) /\ PrimaryUser(c).sigs # <<>>
<1>1. c.users \in Seq(Named(S)) /\ c.users # <<>>
  BY DEF CertOf, AsUnsignedPanics
<1>2. DOMAIN c.users = 1..Len(c.users) /\ 1 \in DOMAIN c.users /\ Head(c.users) = c.users[1]
  BY <1>1
<1>3. CASE Primaries(c) = {}
  <2>1. PrimaryUser(c) = c.users[1]
    BY <1>3 DEF PrimaryUser
  <2>2. c.users[1].sigs # <<>>
    BY <1>2, <1>3 DEF AsUnsignedPanics
  <2>3. QED
    BY <1>1, <1>2, <2>1, <2>2
<1>4. CASE Primaries(c) # {}
  <2>1. Primaries(c) \in SUBSET Nat
    BY <1>2 DEF Primaries
  <2>2. \E j \in Primaries(c) : \A k \in Primaries(c) : j <= k
    BY <1>4, <2>1, LeastExists
  <2>3. Least(Primaries(c)) \in Primaries(c)
    BY <2>2 DEF Least
  <2> DEFINE i == Least(Primaries(c))
  <2>4. i \in DOMAIN c.users /\ IsPrimary(c.users[i])
    BY <2>3 DEF Primaries
  <2>5. PrimaryUser(c) = c.users[i]
    BY <1>4 DEF PrimaryUser
  <2> HIDE DEF i
  <2>6. c.users[i] \in Named(S)
    BY <1>1, <2>4
  <2>7. c.users[i].sigs # <<>>
    <3>1. Range(c.users[i].sigs) # {}
      BY <2>4 DEF IsPrimary
    <3>2. Range(<<>>) = {}
      BY DEF Range
    <3>3. QED
      BY <3>1, <3>2
  <2>8. QED
    BY <2>5, <2>6, <2>7
<1>5. QED
  BY <1>3, <1>4

\* as_unsigned() of any certificate it does not panic on is an unsigned key.
LEMMA AsUnsignedType ==
    ASSUME NEW S, S \subseteq Sig, NEW c \in CertOf(S), ~AsUnsignedPanics(c)
    PROVE  AsUnsigned(c) \in UnsignedKey /\ AsUnsigned(c).primary = c.primary
<1> DEFINE u == AsUnsigned(c)
           o == OtherUsers(c)
           sub == Head(PrimaryUser(c).sigs).sub
<1>1. AsUnsignedParts(c, u)
  BY AsUnsignedIs
<1> HIDE DEF u
<1>2. /\ c.users \in Seq(Named(S)) /\ c.attrs \in Seq(Named(S)) /\ c.primary \in PrimaryKeys
      /\ c.pubsubs \in Seq(Bound(S)) /\ c.secsubs \in Seq(Bound(S))
  BY DEF CertOf
<1>3. PrimaryUser(c).id \in Ids /\ PrimaryUser(c).sigs \in Seq(S) /\ PrimaryUser(c).sigs # <<>>
  BY PrimaryUserFacts DEF Named
<1>4. sub \in Sub
  BY <1>3, HeadOfSigs
<1>5. sub.flags \in SUBSET Flags /\ sub.prefs \in Prefs /\ sub.rkey \in BOOLEAN
  <2> HIDE DEF sub
  <2>1. QED
    BY <1>4 DEF Sub
<1>6. o \in Seq(Named(S))
  BY <1>2, SelectFacts DEF OtherUsers
<1> HIDE DEF sub, o
<1>7. ASSUME NEW q \in Seq(Named(S)) PROVE [i \in DOMAIN q |-> q[i].id] \in Seq(Ids)
  <2>1. DOMAIN q = 1..Len(q) /\ Len(q) \in Nat
    OBVIOUS
  <2>2. \A i \in 1..Len(q) : q[i].id \in Ids
    <3>1. \A i \in 1..Len(q) : q[i] \in Named(S)
      OBVIOUS
    <3>2. \A d \in Named(S) : d.id \in Ids
      BY DEF Named
    <3>3. QED
      BY <3>1, <3>2, Zenon
  <2>3. [i \in DOMAIN q |-> q[i].id] \in [1..Len(q) -> Ids]
    BY <2>1, <2>2
  <2>4. QED
    BY <2>1, <2>3, MapSeq
<1>8. u.uids \in Seq(Ids)
  <2>1. u.uids = [i \in DOMAIN o |-> o[i].id]
    BY <1>1 DEF AsUnsignedParts, o
  <2>2. QED
    BY <1>6, <1>7, <2>1
<1>9. u.attrs \in Seq(Ids)
  <2>1. u.attrs = [i \in DOMAIN c.attrs |-> c.attrs[i].id]
    BY <1>1 DEF AsUnsignedParts
  <2>2. QED
    BY <1>2, <1>7, <2>1
<1>10. u.pubsubs \in Seq(UnsignedSubkey)
  <2> DEFINE ks == SubKeysOf(c)
  <2>1. IsJoined(Bound(S), c.pubsubs, c.secsubs, ks)
    BY <1>2, SubKeysFacts
  <2>2. \A i \in DOMAIN ks : ks[i].sigs # <<>>
    BY DEF AsUnsignedPanics
  <2> HIDE DEF ks
  <2>3. ks \in Seq(Bound(S))
    BY <2>1, Zenon DEF IsJoined
  <2>4. DOMAIN ks = 1..Len(ks) /\ Len(ks) \in Nat
    BY <2>3
  <2>5. ASSUME NEW i \in 1..Len(ks)
        PROVE  [key |-> ks[i].key, flags |-> Head(ks[i].sigs).sub.flags] \in UnsignedSubkey
    <3>1. ks[i] \in Bound(S) /\ ks[i].sigs # <<>>
      BY <2>2, <2>3, <2>4
    <3>2. ks[i].key \in Subkeys /\ ks[i].sigs \in Seq(S)
      BY <3>1 DEF Bound
    <3>3. Head(ks[i].sigs).sub \in Sub
      BY <3>1, <3>2, HeadOfSigs
    <3> DEFINE b == Head(ks[i].sigs).sub
    <3> HIDE DEF b
    <3>4. b.flags \in SUBSET Flags
      BY <3>3 DEF Sub, b
    <3>5. QED
      BY <3>2, <3>4 DEF UnsignedSubkey, b
  <2>6. u.pubsubs = [i \in DOMAIN ks |-> [key |-> ks[i].key, flags |-> Head(ks[i].sigs).sub.flags]]
    BY <1>1 DEF AsUnsignedParts, UnsignedSubkeys, ks
  <2>7. u.pubsubs \in [1..Len(ks) -> UnsignedSubkey]
    BY <2>4, <2>5, <2>6
  <2>8. QED
    BY <2>4, <2>7, MapSeq
<1>11. /\ u.flags \in SUBSET Flags /\ u.prefs \in Prefs /\ u.rkey \in BOOLEAN
       /\ u.secret \in BOOLEAN /\ u.primary = c.primary /\ u.primary \in PrimaryKeys
       /\ u.uid \in Ids /\ u.secsubs \in Seq(UnsignedSubkey)
  <2>1. u.flags = sub.flags /\ u.prefs = sub.prefs /\ u.rkey = sub.rkey
    BY <1>1 DEF AsUnsignedParts, sub
  <2>2. u.secret = FALSE /\ u.primary = c.primary /\ u.uid = PrimaryUser(c).id /\ u.secsubs = <<>>
    BY <1>1, Zenon DEF AsUnsignedParts
  <2>3. u.flags \in SUBSET Flags /\ u.prefs \in Prefs /\ u.rkey \in BOOLEAN
    BY <1>5, <2>1, Zenon
  <2>4. u.secsubs \in Seq(UnsignedSubkey) /\ u.secret \in BOOLEAN
    <3>1. <<>> \in Seq(UnsignedSubkey) /\ FALSE \in BOOLEAN
      OBVIOUS
    <3>2. QED
      BY <2>2, <3>1, Zenon
  <2>5. u.primary \in PrimaryKeys /\ u.uid \in Ids
    BY <1>2, <1>3, <2>2, Zenon
  <2>6. QED
    BY <2>2, <2>3, <2>4, <2>5
<1>12. u = [secret |-> u.secret, primary |-> u.primary, uid |-> u.uid, uids |-> u.uids,
            attrs |-> u.attrs, flags |-> u.flags, prefs |-> u.prefs, rkey |-> u.rkey,
            pubsubs |-> u.pubsubs, secsubs |-> u.secsubs]
  BY <1>1, Zenon DEF AsUnsignedParts
<1>13. u \in UnsignedKey
  BY <1>8, <1>9, <1>10, <1>11, <1>12 DEF UnsignedKey
<1>14. QED
  BY <1>11, <1>13 DEF u

\* as_unsigned() of a certificate with one primary user, which holds what was
\* asked for, holds it still: nobody is lost or doubled.
LEMMA AsUnsignedSame ==
    ASSUME NEW S, S \subseteq Sig, NEW p \in Param, NEW c \in CertOf(S), SameSigned(p, c),
           NEW i \in DOMAIN c.users, Primaries(c) = {i}
    PROVE  SameUnsigned(p, AsUnsigned(c))
<1> DEFINE u == AsUnsigned(c)
           o == OtherUsers(c)
           ks == SubKeysOf(c)
<1>1. AsUnsignedParts(c, u)
  BY AsUnsignedIs
<1>2. /\ c.users \in Seq(Named(S)) /\ c.attrs \in Seq(Named(S))
      /\ c.pubsubs \in Seq(Bound(S)) /\ c.secsubs \in Seq(Bound(S))
  BY DEF CertOf
<1>3. SameUsers(p, c.users) /\ SameAttrs(p, c.attrs) /\ SameSubkeys(p, ks)
  BY DEF SameSigned
<1>p. p.uids \in Seq(STRING) /\ Len(p.uids) \in Nat /\ p.attrs \in Seq(STRING)
  BY DEF Param
<1> HIDE DEF u, o, ks
<1>4. Len(c.users) = Len(p.uids) + 1 /\ AllFirst(c.users, CertTypes) /\ DOMAIN c.users = 1..Len(c.users)
  BY <1>2, <1>3 DEF SameUsers
<1>5. 1 \in DOMAIN c.users /\ c.users[1].sigs # <<>> /\ c.users[1].sigs \in Seq(S)
  <2>1. 1 \in 1..Len(c.users) /\ 1 \in DOMAIN c.users
    BY <1>4, <1>p
  <2>2. First(c.users[1], CertTypes)
    BY <1>4, <2>1 DEF AllFirst
  <2>3. c.users[1] \in Named(S)
    BY <1>2, <2>1
  <2>4. QED
    BY <2>1, <2>2, <2>3 DEF First, Named
<1>6. IsPrimary(c.users[1])
  <2>1. c.users[1].sigs[1] \in Range(c.users[1].sigs)
    BY <1>5 DEF Range
  <2>2. c.users[1].sigs[1].sub.primary = TRUE
    BY <1>3 DEF SameUsers
  <2>3. QED
    BY <2>1, <2>2 DEF IsPrimary
<1>7. i = 1
  BY <1>5, <1>6 DEF Primaries
<1>8. PrimaryUser(c) = c.users[1]
  <2>1. Least({1}) = 1
    BY DEF Least
  <2>2. QED
    BY <1>7, <2>1 DEF PrimaryUser
<1>9. Len(o) = Len(p.uids) /\ \A j \in 1..Len(p.uids) : o[j] = c.users[j + 1]
  <2> DEFINE P == DOMAIN c.users \ Primaries(c)
  <2>1. Len(c.users) >= 1 /\ Len(c.users) - 1 = Len(p.uids)
    BY <1>4, <1>p
  <2>2. 1 \notin P /\ \A j \in 2..Len(c.users) : j \in P
    BY <1>4, <1>7
  <2>3. o = Select(c.users, P)
    BY DEF o, OtherUsers
  <2> HIDE DEF P
  <2>4. /\ Len(Select(c.users, P)) = Len(c.users) - 1
        /\ \A j \in 1..(Len(c.users) - 1) : Select(c.users, P)[j] = c.users[j + 1]
    BY <1>2, <2>1, <2>2, SelectRest
  <2>5. QED
    BY <2>1, <2>3, <2>4
<1>10. o \in Seq(Named(S))
  BY <1>2, SelectFacts DEF OtherUsers, o
<1>11. u.uids = p.uids
  <2>1. u.uids = [j \in DOMAIN o |-> o[j].id]
    BY <1>1 DEF AsUnsignedParts, o
  <2>2. DOMAIN o = 1..Len(p.uids)
    BY <1>9, <1>10
  <2>3. \A j \in 1..Len(p.uids) : o[j].id = p.uids[j]
    BY <1>3, <1>9 DEF SameUsers
  <2>4. p.uids = [j \in 1..Len(p.uids) |-> p.uids[j]]
    BY <1>p
  <2>5. QED
    BY <2>1, <2>2, <2>3, <2>4
<1>12. u.attrs = p.attrs
  <2>1. u.attrs = [j \in DOMAIN c.attrs |-> c.attrs[j].id]
    BY <1>1 DEF AsUnsignedParts
  <2>2. DOMAIN c.attrs = 1..Len(p.attrs) /\ \A j \in 1..Len(p.attrs) : c.attrs[j].id = p.attrs[j]
    BY <1>2, <1>3 DEF SameAttrs
  <2>3. p.attrs = [j \in 1..Len(p.attrs) |-> p.attrs[j]]
    BY <1>p
  <2>4. QED
    BY <2>1, <2>2, <2>3
<1>13. u.uid = p.uid /\ u.flags = p.flags /\ u.prefs = p.prefs /\ u.rkey = p.rkey
  <2>1. Head(PrimaryUser(c).sigs) = c.users[1].sigs[1] /\ PrimaryUser(c).id = p.uid
    BY <1>3, <1>5, <1>8 DEF SameUsers
  <2>2. /\ c.users[1].sigs[1].sub.flags = p.flags /\ c.users[1].sigs[1].sub.prefs = p.prefs
        /\ c.users[1].sigs[1].sub.rkey = p.rkey
    BY <1>3 DEF SameUsers
  <2>3. /\ u.uid = PrimaryUser(c).id
        /\ u.flags = Head(PrimaryUser(c).sigs).sub.flags
        /\ u.prefs = Head(PrimaryUser(c).sigs).sub.prefs
        /\ u.rkey = Head(PrimaryUser(c).sigs).sub.rkey
    BY <1>1, Zenon DEF AsUnsignedParts
  <2>4. QED
    BY <2>1, <2>2, <2>3, Zenon
<1>14. Len(SubKeysOf(u)) = Len(p.subkeys) /\ \A j \in 1..Len(p.subkeys) : SubKeysOf(u)[j].flags = p.subkeys[j].flags
  <2>1. IsJoined(Bound(S), c.pubsubs, c.secsubs, ks)
    BY <1>2, SubKeysFacts DEF ks
  <2>2. ks \in Seq(Bound(S))
    BY <2>1, Zenon DEF IsJoined
  <2>3. DOMAIN ks = 1..Len(ks) /\ Len(ks) = Len(p.subkeys) /\ Len(ks) \in Nat
    BY <1>3, <2>2 DEF SameSubkeys
  <2> DEFINE q == [j \in DOMAIN ks |-> [key |-> ks[j].key, flags |-> Head(ks[j].sigs).sub.flags]]
             T == { [key |-> ks[j].key, flags |-> Head(ks[j].sigs).sub.flags] : j \in DOMAIN ks }
  <2>4. q \in [1..Len(ks) -> T]
    BY <2>3
  <2>5. ASSUME NEW j \in 1..Len(p.subkeys) PROVE q[j].flags = p.subkeys[j].flags
    <3>1. j \in DOMAIN ks /\ j \in 1..Len(ks) /\ ks[j] \in Bound(S)
      BY <2>2, <2>3
    <3>2. First(ks[j], BindingTypes) /\ ks[j].sigs[1].sub.flags = p.subkeys[j].flags
      BY <1>3, <3>1 DEF SameSubkeys, AllFirst
    <3>3. ks[j].sigs # <<>> /\ ks[j].sigs \in Seq(S)
      BY <3>1, <3>2 DEF First, Bound
    <3>4. Head(ks[j].sigs) = ks[j].sigs[1]
      BY <3>3
    <3>5. q[j].flags = Head(ks[j].sigs).sub.flags
      BY <3>1
    <3>6. QED
      BY <3>2, <3>4, <3>5, Zenon
  <2>6. u.pubsubs = q /\ u.secsubs = <<>>
    BY <1>1 DEF AsUnsignedParts, UnsignedSubkeys, ks
  <2> HIDE DEF q, T
  <2>7. q \in Seq(T) /\ Len(q) = Len(ks)
    BY <2>3, <2>4, MapSeq
  <2>8. q \o <<>> = q
    BY <2>7
  <2>9. SubKeysOf(u) = q
    BY <2>6, <2>8 DEF SubKeysOf
  <2>10. QED
    BY <2>3, <2>5, <2>7, <2>9
<1>15. QED
  BY <1>11, <1>12, <1>13, <1>14, Zenon DEF SameUnsigned, u

-----------------------------------------------------------------------------
(* Signatures put behind a component, or taken away.                       *)

\* The signatures of one component replaced.
Replaced(c, i, q) == [c EXCEPT ![i].sigs = q]

\* The other components, and the rest of this one, stay as they are.
LEMMA ReplacedFacts ==
    ASSUME NEW S, NEW U, Replaceable(U, S), NEW c \in Seq(U), NEW i \in DOMAIN c, NEW q \in Seq(S)
    PROVE  /\ Replaced(c, i, q) \in Seq(U) /\ Len(Replaced(c, i, q)) = Len(c)
           /\ Replaced(c, i, q)[i] = [c[i] EXCEPT !.sigs = q]
           /\ \A j \in 1..Len(c) : j # i => Replaced(c, i, q)[j] = c[j]
<1>1. [c[i] EXCEPT !.sigs = q] \in U
  BY DEF Replaceable
<1> DEFINE w == [c[i] EXCEPT !.sigs = q]
<1>2. Replaced(c, i, q) = [c EXCEPT ![i] = w]
  BY DEF Replaced
<1>3. w \in U
  BY <1>1
<1> HIDE DEF w
<1>4. /\ Replaced(c, i, q) \in Seq(U) /\ Len(Replaced(c, i, q)) = Len(c)
      /\ Replaced(c, i, q)[i] = w
      /\ \A j \in 1..Len(c) : j # i => Replaced(c, i, q)[j] = c[j]
  BY <1>2, <1>3
<1>5. QED
  BY <1>4 DEF w

\* The signatures q go behind component i of a field of a certificate.
Edited(c, field, i, q) == [c EXCEPT ![field][i].sigs = q]

\* Signatures moved behind a user change only the users ...
LEMMA EditedUsers ==
    ASSUME NEW S, NEW c \in CertOf(S), NEW i \in DOMAIN c.users, NEW q \in Seq(S)
    PROVE  /\ Edited(c, "users", i, q) \in CertOf(S)
           /\ Edited(c, "users", i, q) = [c EXCEPT !.users = Replaced(c.users, i, q)]
           /\ Edited(c, "users", i, q).primary = c.primary
<1>1. Edited(c, "users", i, q) = [c EXCEPT !.users = Replaced(c.users, i, q)]
  BY DEF Edited, Replaced
<1>2. Replaced(c.users, i, q) \in Seq(Named(S))
  BY ReplacedFacts, ComponentsReplaceable DEF CertOf
<1>3. QED
  BY <1>1, <1>2 DEF CertOf

\* ... behind an attribute only the attributes ...
LEMMA EditedAttrs ==
    ASSUME NEW S, NEW c \in CertOf(S), NEW i \in DOMAIN c.attrs, NEW q \in Seq(S)
    PROVE  /\ Edited(c, "attrs", i, q) \in CertOf(S)
           /\ Edited(c, "attrs", i, q) = [c EXCEPT !.attrs = Replaced(c.attrs, i, q)]
           /\ Edited(c, "attrs", i, q).primary = c.primary
<1>1. Edited(c, "attrs", i, q) = [c EXCEPT !.attrs = Replaced(c.attrs, i, q)]
  BY DEF Edited, Replaced
<1>2. Replaced(c.attrs, i, q) \in Seq(Named(S))
  BY ReplacedFacts, ComponentsReplaceable DEF CertOf
<1>3. QED
  BY <1>1, <1>2 DEF CertOf

\* ... behind a public subkey only those ...
LEMMA EditedPubsubs ==
    ASSUME NEW S, NEW c \in CertOf(S), NEW i \in DOMAIN c.pubsubs, NEW q \in Seq(S)
    PROVE  /\ Edited(c, "pubsubs", i, q) \in CertOf(S)
           /\ Edited(c, "pubsubs", i, q) = [c EXCEPT !.pubsubs = Replaced(c.pubsubs, i, q)]
           /\ Edited(c, "pubsubs", i, q).primary = c.primary
<1>1. Edited(c, "pubsubs", i, q) = [c EXCEPT !.pubsubs = Replaced(c.pubsubs, i, q)]
  BY DEF Edited, Replaced
<1>2. Replaced(c.pubsubs, i, q) \in Seq(Bound(S))
  BY ReplacedFacts, ComponentsReplaceable DEF CertOf
<1>3. QED
  BY <1>1, <1>2 DEF CertOf

\* ... and behind a secret subkey only those.
LEMMA EditedSecsubs ==
    ASSUME NEW S, NEW c \in CertOf(S), NEW i \in DOMAIN c.secsubs, NEW q \in Seq(S)
    PROVE  /\ Edited(c, "secsubs", i, q) \in CertOf(S)
           /\ Edited(c, "secsubs", i, q) = [c EXCEPT !.secsubs = Replaced(c.secsubs, i, q)]
           /\ Edited(c, "secsubs", i, q).primary = c.primary
<1>1. Edited(c, "secsubs", i, q) = [c EXCEPT !.secsubs = Replaced(c.secsubs, i, q)]
  BY DEF Edited, Replaced
<1>2. Replaced(c.secsubs, i, q) \in Seq(Bound(S))
  BY ReplacedFacts, ComponentsReplaceable DEF CertOf
<1>3. QED
  BY <1>1, <1>2 DEF CertOf

\* Whatever signatures are moved, the key stays a certificate of the same
\* primary key.
LEMMA EditedType ==
    ASSUME NEW S, NEW c \in CertOf(S), NEW field \in Components, NEW i \in DOMAIN c[field],
           NEW q \in Seq(S)
    PROVE  Edited(c, field, i, q) \in CertOf(S) /\ Edited(c, field, i, q).primary = c.primary
<1>1. CASE field = "users"
  <2>1. i \in DOMAIN c.users
    BY <1>1
  <2>2. Edited(c, "users", i, q) \in CertOf(S) /\ Edited(c, "users", i, q).primary = c.primary
    BY <2>1, EditedUsers
  <2>3. QED
    BY <1>1, <2>2
<1>2. CASE field = "attrs"
  <2>1. i \in DOMAIN c.attrs
    BY <1>2
  <2>2. Edited(c, "attrs", i, q) \in CertOf(S) /\ Edited(c, "attrs", i, q).primary = c.primary
    BY <2>1, EditedAttrs
  <2>3. QED
    BY <1>2, <2>2
<1>3. CASE field = "pubsubs"
  <2>1. i \in DOMAIN c.pubsubs
    BY <1>3
  <2>2. Edited(c, "pubsubs", i, q) \in CertOf(S) /\ Edited(c, "pubsubs", i, q).primary = c.primary
    BY <2>1, EditedPubsubs
  <2>3. QED
    BY <1>3, <2>2
<1>4. CASE field = "secsubs"
  <2>1. i \in DOMAIN c.secsubs
    BY <1>4
  <2>2. Edited(c, "secsubs", i, q) \in CertOf(S) /\ Edited(c, "secsubs", i, q).primary = c.primary
    BY <2>1, EditedSecsubs
  <2>3. QED
    BY <1>4, <2>2
<1>5. QED
  BY <1>1, <1>2, <1>3, <1>4 DEF Components

\* No first signature behind a component changes.
FirstsStay(a, b) ==
    /\ Len(b) = Len(a)
    /\ \A j \in 1..Len(a) : a[j].sigs # <<>> => b[j].sigs # <<>> /\ b[j].sigs[1] = a[j].sigs[1]

\* q has more signatures than r, behind its own.
Extends(q, r) == r # <<>> => q # <<>> /\ q[1] = r[1]

\* Signatures added behind a component's own leave every first one in place.
LEMMA ReplacedStays ==
    ASSUME NEW S, NEW U, Replaceable(U, S), NEW c \in Seq(U), NEW i \in DOMAIN c, NEW q \in Seq(S),
           Extends(q, c[i].sigs)
    PROVE  FirstsStay(c, Replaced(c, i, q))
<1> DEFINE d == Replaced(c, i, q)
<1>1. /\ Len(d) = Len(c) /\ d[i] = [c[i] EXCEPT !.sigs = q]
      /\ \A j \in 1..Len(c) : j # i => d[j] = c[j]
  BY ReplacedFacts
<1>2. "sigs" \in DOMAIN c[i]
  BY DEF Replaceable
<1>3. d[i].sigs = q
  BY <1>1, <1>2
<1> HIDE DEF d
<1>4. ASSUME NEW j \in 1..Len(c), c[j].sigs # <<>> PROVE d[j].sigs # <<>> /\ d[j].sigs[1] = c[j].sigs[1]
  <2>1. CASE j = i
    BY <1>3, <1>4, <2>1 DEF Extends
  <2>2. CASE j # i
    BY <1>1, <1>4, <2>2
  <2>3. QED
    BY <2>1, <2>2
<1>5. QED
  BY <1>1, <1>4 DEF FirstsStay, d

\* A user's ID does not change with its signatures.
LEMMA ReplacedIds ==
    ASSUME NEW S, NEW c \in Seq(Named(S)), NEW i \in DOMAIN c, NEW q \in Seq(S)
    PROVE  \A j \in 1..Len(c) : Replaced(c, i, q)[j].id = c[j].id
<1>1. /\ Replaced(c, i, q)[i] = [c[i] EXCEPT !.sigs = q]
      /\ \A j \in 1..Len(c) : j # i => Replaced(c, i, q)[j] = c[j]
  BY ReplacedFacts, ComponentsReplaceable
<1>2. c[i] \in Named(S)
  OBVIOUS
<1>3. [c[i] EXCEPT !.sigs = q].id = c[i].id
  BY <1>2 DEF Named
<1>4. QED
  BY <1>1, <1>3

\* Where the first signatures stay, so does what was asked for.
LEMMA FirstsStayFirst ==
    ASSUME NEW a, NEW b, FirstsStay(a, b), NEW types, AllFirst(a, types)
    PROVE  AllFirst(b, types) /\ \A j \in 1..Len(a) : b[j].sigs[1] = a[j].sigs[1]
<1>1. \A j \in 1..Len(a) : a[j].sigs # <<>> /\ a[j].sigs[1].typ \in types
  BY DEF AllFirst, First
<1>2. \A j \in 1..Len(a) : b[j].sigs # <<>> /\ b[j].sigs[1] = a[j].sigs[1]
  BY <1>1 DEF FirstsStay
<1>3. Len(b) = Len(a)
  BY DEF FirstsStay
<1>4. \A j \in 1..Len(a) : First(b[j], types)
  BY <1>1, <1>2 DEF First
<1>5. QED
  BY <1>2, <1>3, <1>4 DEF AllFirst

\* The users are those asked for, the primary one first ...
LEMMA UsersStay ==
    ASSUME NEW p \in Param, NEW a, NEW b, SameUsers(p, a), FirstsStay(a, b),
           \A j \in 1..Len(a) : b[j].id = a[j].id
    PROVE  SameUsers(p, b)
<1>1. Len(p.uids) \in Nat
  BY DEF Param
<1>2. Len(a) = Len(p.uids) + 1 /\ Len(b) = Len(a) /\ AllFirst(a, CertTypes)
  BY DEF SameUsers, FirstsStay
<1>3. AllFirst(b, CertTypes) /\ \A j \in 1..Len(a) : b[j].sigs[1] = a[j].sigs[1]
  BY <1>2, FirstsStayFirst
<1>4. 1 \in 1..Len(a) /\ \A i \in 1..Len(p.uids) : i + 1 \in 1..Len(a)
  BY <1>1, <1>2
<1>5. b[1].sigs[1] = a[1].sigs[1] /\ b[1].id = a[1].id
  BY <1>3, <1>4
<1>6. \A i \in 1..Len(p.uids) : b[i + 1].id = a[i + 1].id
  BY <1>4
<1>7. QED
  BY <1>2, <1>3, <1>5, <1>6 DEF SameUsers

\* ... and the attributes too.
LEMMA AttrsStay ==
    ASSUME NEW p \in Param, NEW a, NEW b, SameAttrs(p, a), FirstsStay(a, b),
           \A j \in 1..Len(a) : b[j].id = a[j].id
    PROVE  SameAttrs(p, b)
<1>1. Len(b) = Len(a) /\ AllFirst(a, CertTypes)
  BY DEF SameAttrs, FirstsStay
<1>2. AllFirst(b, CertTypes)
  BY <1>1, FirstsStayFirst
<1>3. QED
  BY <1>1, <1>2 DEF SameAttrs

\* Subkeys are in two lists.
LEMMA SubkeysStay ==
    ASSUME NEW S, NEW p \in Param, NEW c \in CertOf(S), NEW d \in CertOf(S),
           FirstsStay(c.pubsubs, d.pubsubs), FirstsStay(c.secsubs, d.secsubs),
           SameSubkeys(p, SubKeysOf(c))
    PROVE  SameSubkeys(p, SubKeysOf(d))
<1> DEFINE a == SubKeysOf(c)
           b == SubKeysOf(d)
<1>1. /\ c.pubsubs \in Seq(Bound(S)) /\ c.secsubs \in Seq(Bound(S))
      /\ d.pubsubs \in Seq(Bound(S)) /\ d.secsubs \in Seq(Bound(S))
  BY DEF CertOf
<1>2. IsJoined(Bound(S), c.pubsubs, c.secsubs, a) /\ IsJoined(Bound(S), d.pubsubs, d.secsubs, b)
  BY <1>1, SubKeysFacts
<1> HIDE DEF a, b
<1>3. Len(d.pubsubs) = Len(c.pubsubs) /\ Len(d.secsubs) = Len(c.secsubs)
  BY DEF FirstsStay
<1>4. Len(b) = Len(a)
  BY <1>2, <1>3 DEF IsJoined
<1>5. FirstsStay(a, b)
  <2>1. ASSUME NEW j \in 1..Len(a), a[j].sigs # <<>>
        PROVE  b[j].sigs # <<>> /\ b[j].sigs[1] = a[j].sigs[1]
    <3>1. CASE j \in 1..Len(c.pubsubs)
      <4>1. a[j] = c.pubsubs[j] /\ b[j] = d.pubsubs[j]
        BY <1>2, <1>3, <3>1 DEF IsJoined
      <4>2. QED
        BY <2>1, <3>1, <4>1 DEF FirstsStay
    <3>2. CASE j \notin 1..Len(c.pubsubs)
      <4>1. PICK k \in 1..Len(c.secsubs) : j = Len(c.pubsubs) + k
        BY <1>2, <3>2 DEF IsJoined
      <4>2. a[j] = c.secsubs[k] /\ b[j] = d.secsubs[k]
        BY <1>2, <1>3, <4>1 DEF IsJoined
      <4>3. QED
        BY <2>1, <4>2 DEF FirstsStay
    <3>3. QED
      BY <3>1, <3>2
  <2>2. QED
    BY <1>4, <2>1 DEF FirstsStay
<1>6. SameSubkeys(p, a)
  BY DEF a
<1>7. AllFirst(b, BindingTypes) /\ \A j \in 1..Len(a) : b[j].sigs[1] = a[j].sigs[1]
  BY <1>5, <1>6, FirstsStayFirst DEF SameSubkeys
<1>8. QED
  BY <1>4, <1>6, <1>7 DEF SameSubkeys, b

\* A signature put behind the others changes nothing of what was asked for.
LEMMA EditedSame ==
    ASSUME NEW S, NEW p \in Param, NEW c \in CertOf(S), SameSigned(p, c),
           NEW field \in Components, NEW i \in DOMAIN c[field],
           NEW q \in Seq(S), Extends(q, c[field][i].sigs)
    PROVE  SameSigned(p, Edited(c, field, i, q))
<1>1. /\ c.users \in Seq(Named(S)) /\ c.attrs \in Seq(Named(S))
      /\ c.pubsubs \in Seq(Bound(S)) /\ c.secsubs \in Seq(Bound(S))
  BY DEF CertOf
<1>2. SameUsers(p, c.users) /\ SameAttrs(p, c.attrs) /\ SameSubkeys(p, SubKeysOf(c))
  BY DEF SameSigned
<1>3. Replaceable(Named(S), S) /\ Replaceable(Bound(S), S)
  BY ComponentsReplaceable
<1>4. \A a : FirstsStay(a, a)
  BY DEF FirstsStay
<1> DEFINE d == Edited(c, field, i, q)
<1>5. CASE field = "users"
  <2> DEFINE r == Replaced(c.users, i, q)
  <2>1. i \in DOMAIN c.users /\ Extends(q, c.users[i].sigs)
    BY <1>5
  <2>2. d = [c EXCEPT !.users = r]
    BY <1>5, <2>1, EditedUsers
  <2>3. FirstsStay(c.users, r) /\ \A j \in 1..Len(c.users) : r[j].id = c.users[j].id
    BY <1>1, <1>3, <2>1, ReplacedStays, ReplacedIds
  <2> HIDE DEF r, d
  <2>4. SameUsers(p, r)
    BY <1>2, <2>3, UsersStay
  <2>5. d.users = r /\ d.attrs = c.attrs /\ d.pubsubs = c.pubsubs /\ d.secsubs = c.secsubs
    BY <2>2 DEF CertOf
  <2>6. SubKeysOf(d) = SubKeysOf(c)
    BY <2>5 DEF SubKeysOf
  <2>7. QED
    BY <1>2, <2>4, <2>5, <2>6 DEF SameSigned, d
<1>6. CASE field = "attrs"
  <2> DEFINE r == Replaced(c.attrs, i, q)
  <2>1. i \in DOMAIN c.attrs /\ Extends(q, c.attrs[i].sigs)
    BY <1>6
  <2>2. d = [c EXCEPT !.attrs = r]
    BY <1>6, <2>1, EditedAttrs
  <2>3. FirstsStay(c.attrs, r) /\ \A j \in 1..Len(c.attrs) : r[j].id = c.attrs[j].id
    BY <1>1, <1>3, <2>1, ReplacedStays, ReplacedIds
  <2> HIDE DEF r, d
  <2>4. SameAttrs(p, r)
    BY <1>2, <2>3, AttrsStay
  <2>5. d.users = c.users /\ d.attrs = r /\ d.pubsubs = c.pubsubs /\ d.secsubs = c.secsubs
    BY <2>2 DEF CertOf
  <2>6. SubKeysOf(d) = SubKeysOf(c)
    BY <2>5 DEF SubKeysOf
  <2>7. QED
    BY <1>2, <2>4, <2>5, <2>6 DEF SameSigned, d
<1>7. CASE field = "pubsubs"
  <2> DEFINE r == Replaced(c.pubsubs, i, q)
  <2>1. i \in DOMAIN c.pubsubs /\ Extends(q, c.pubsubs[i].sigs)
    BY <1>7
  <2>2. d = [c EXCEPT !.pubsubs = r] /\ d \in CertOf(S)
    BY <1>7, <2>1, EditedPubsubs
  <2>3. FirstsStay(c.pubsubs, r)
    BY <1>1, <1>3, <2>1, ReplacedStays
  <2> HIDE DEF r, d
  <2>5. d.users = c.users /\ d.attrs = c.attrs /\ d.pubsubs = r /\ d.secsubs = c.secsubs
    BY <2>2 DEF CertOf
  <2>6. SameSubkeys(p, SubKeysOf(d))
    BY <1>2, <1>4, <2>2, <2>3, <2>5, SubkeysStay
  <2>7. QED
    BY <1>2, <2>5, <2>6 DEF SameSigned, d
<1>8. CASE field = "secsubs"
  <2> DEFINE r == Replaced(c.secsubs, i, q)
  <2>1. i \in DOMAIN c.secsubs /\ Extends(q, c.secsubs[i].sigs)
    BY <1>8
  <2>2. d = [c EXCEPT !.secsubs = r] /\ d \in CertOf(S)
    BY <1>8, <2>1, EditedSecsubs
  <2>3. FirstsStay(c.secsubs, r)
    BY <1>1, <1>3, <2>1, ReplacedStays
  <2> HIDE DEF r, d
  <2>5. d.users = c.users /\ d.attrs = c.attrs /\ d.pubsubs = c.pubsubs /\ d.secsubs = r
    BY <2>2 DEF CertOf
  <2>6. SameSubkeys(p, SubKeysOf(d))
    BY <1>2, <1>4, <2>2, <2>3, <2>5, SubkeysStay
  <2>7. QED
    BY <1>2, <2>5, <2>6 DEF SameSigned, d
<1>9. QED
  BY <1>5, <1>6, <1>7, <1>8 DEF Components

-----------------------------------------------------------------------------
(* The invariant, action by action.                                        *)

\* Nothing is signed before generate().
LEMMA InitCInv == Init => CInv
<1> SUFFICES ASSUME Init PROVE CInv
  OBVIOUS
<1>1. stage = "start" /\ asked \in Params /\ pool = <<>> /\ made = {} /\ fresh = FALSE /\ kept = TRUE
  BY DEF Init
<1>2. pool \in Seq(Backed(made))
  BY <1>1
<1>3. Held
  BY <1>1, <1>2 DEF Held
<1>4. Passed /\ SignedVerifies /\ Same
  BY <1>1 DEF Passed, SignedVerifies, Same
<1>5. QED
  BY <1>3, <1>4 DEF CInv

\* build() and generate().
LEMMA GenerateCInv == ASSUME CInv, Generate PROVE CInv'
<1>1. /\ asked' = asked /\ pool' = pool /\ made' = made /\ fresh' = fresh /\ kept' = kept
      /\ stage = "start"
  BY DEF Generate
<1>2. asked \in Params /\ fresh \in BOOLEAN /\ kept \in BOOLEAN /\ pool \in Seq(Backed(made))
  BY DEF CInv, Held
<1>3. fresh => asked.kt.alg # "ECDH"
  BY DEF CInv, Passed
<1>4. CASE stage' = "unsigned" /\ unsigned' = GenerateKey(asked) /\ Validate(asked)
  <2>1. /\ unsigned' \in UnsignedKey /\ unsigned'.primary.kt = asked.kt
        /\ SameUnsigned(asked, unsigned')
    BY <1>2, <1>4, GenerateKeyFacts
  <2>2. Held'
    BY <1>1, <1>2, <1>4, <2>1 DEF Held
  <2>3. Passed'
    BY <1>1, <1>3, <1>4, <2>1 DEF Passed, Validate
  <2>4. SignedVerifies' /\ Same'
    BY <1>1, <1>4, <2>1 DEF SignedVerifies, Same, SameUnsigned, SubKeysOf
  <2>5. QED
    BY <2>2, <2>3, <2>4 DEF CInv
<1>5. CASE stage' = "failed"
  <2>1. Held'
    BY <1>1, <1>2, <1>5 DEF Held
  <2>2. Passed' /\ SignedVerifies' /\ Same'
    BY <1>1, <1>3, <1>5 DEF Passed, SignedVerifies, Same
  <2>3. QED
    BY <2>1, <2>2 DEF CInv
<1>6. QED
  BY <1>4, <1>5 DEF Generate

\* sign(): of the key itself, or of somebody else's.
LEMMA SignCInv ==
    ASSUME CInv, NEW signer, signer = unsigned.primary \/ signer = ThirdKey, NEW pw, Sign(signer, pw)
    PROVE  CInv'
<1>1. /\ stage = "unsigned" /\ asked' = asked /\ pool' = pool /\ kept' = kept
      /\ unsigned' = unsigned
  BY DEF Sign
<1>2. /\ asked \in Params /\ fresh \in BOOLEAN /\ kept \in BOOLEAN /\ pool \in Seq(Backed(made))
      /\ unsigned \in UnsignedKey
  BY <1>1 DEF CInv, Held
<1>3. Validate(asked) /\ unsigned.primary.kt = asked.kt /\ (fresh => asked.kt.alg # "ECDH")
  BY <1>1 DEF CInv, Passed
<1>4. CASE /\ SignResult(unsigned, signer, pw) = "ok"
           /\ stage' = "signed" /\ cert' = SignKey(unsigned, signer)
           /\ made' = made \cup Statements(cert', signer)
           /\ fresh' = (signer = unsigned.primary)
  <2>1. signer.name \in KeyNames
    <3>1. unsigned.primary \in PrimaryKeys
      BY <1>2 DEF UnsignedKey
    <3>2. QED
      BY <3>1, NamesFacts
  <2>2. Statements(SignKey(unsigned, signer), signer) \subseteq made'
    BY <1>4
  <2>3. /\ cert' \in CertOf(Backed(made')) /\ cert'.primary = unsigned.primary
        /\ signer = unsigned.primary => VerifyCert(cert')
    BY <1>2, <1>4, <2>1, <2>2, SignKeyFacts
  <2>4. pool' \in Seq(Backed(made'))
    <3>1. Backed(made) \subseteq Backed(made')
      BY <1>4, BackedGrows
    <3>2. QED
      BY <1>1, <1>2, <3>1, CertOfGrows
  <2>5. Held'
    <3>1. fresh' \in BOOLEAN
      BY <1>4
    <3>2. QED
      BY <1>1, <1>2, <1>4, <2>3, <2>4, <3>1 DEF Held
  <2>6. Passed'
    <3>1. CanSign(signer, pw)
      BY <1>2, <1>4, SignResultFacts
    <3>2. fresh' => asked.kt.alg # "ECDH"
      BY <1>3, <1>4, <3>1 DEF CanSign
    <3>3. Validate(asked)'
      BY <1>1, <1>3 DEF Validate
    <3>4. QED
      BY <1>1, <1>3, <1>4, <2>3, <3>2, <3>3 DEF Passed
  <2>7. SignedVerifies'
    <3>1. fresh' => VerifyCert(cert')
      BY <1>4, <2>3
    <3>2. VerifyCert(cert') <=> VerifyCert(cert)'
      BY DEF VerifyCert, VerifyDetails
    <3>3. QED
      BY <3>1, <3>2 DEF SignedVerifies
  <2>8. Same'
    <3>1. ASSUME kept PROVE SameSigned(asked', cert')
      <4>1. SameUnsigned(asked, unsigned) /\ asked \in Param
        BY <1>1, <1>2, <3>1, ParamsAssumption DEF CInv, Same
      <4>2. QED
        BY <1>1, <1>2, <1>4, <2>1, <4>1, SignKeySame
    <3>2. QED
      BY <1>1, <1>4, <3>1 DEF Same, SameSigned, SubKeysOf
  <2>9. QED
    BY <2>5, <2>6, <2>7, <2>8 DEF CInv
<1>5. CASE stage' \in {"failed", "panicked"} /\ made' = made /\ fresh' = fresh
  <2>1. Held'
    BY <1>1, <1>2, <1>5 DEF Held
  <2>2. Passed' /\ SignedVerifies' /\ Same'
    BY <1>1, <1>3, <1>5 DEF Passed, SignedVerifies, Same
  <2>3. QED
    BY <2>1, <2>2 DEF CInv
<1>6. SignResult(unsigned, signer, pw) \in {"ok", "err", "panic"}
  BY <1>2, SignResultFacts
<1>7. QED
  BY <1>4, <1>5, <1>6 DEF Sign

\* What the actions that leave the stage "signed" have in common: a
\* certificate over signatures that were made, of the same primary key.
LEMMA EditedCInv ==
    ASSUME CInv, stage = "signed", stage' = "signed", asked' = asked,
           made \subseteq made', cert' \in CertOf(Backed(made')), cert'.primary = cert.primary,
           pool' \in Seq(Backed(made')), fresh' \in BOOLEAN, kept' \in BOOLEAN,
           fresh' => fresh /\ VerifyCert(cert'),
           kept' => SameSigned(asked, cert')
    PROVE  CInv'
<1>1. asked \in Params /\ Validate(asked) /\ cert.primary.kt = asked.kt /\ (fresh => asked.kt.alg # "ECDH")
  BY DEF CInv, Held, Passed
<1>2. Held'
  BY <1>1 DEF Held
<1>3. Passed'
  BY <1>1 DEF Passed, Validate
<1>4. SignedVerifies'
  BY DEF SignedVerifies, VerifyCert, VerifyDetails
<1>5. Same'
  BY DEF Same, SameSigned, SubKeysOf
<1>6. QED
  BY <1>2, <1>3, <1>4, <1>5 DEF CInv

\* SignedSecretKey into SignedPublicKey.
LEMMA SignedPublicCInv == ASSUME CInv, SignedPublic PROVE CInv'
<1>1. /\ stage = "signed" /\ stage' = "signed" /\ asked' = asked /\ made' = made /\ pool' = pool
      /\ fresh' = fresh /\ kept' = kept /\ cert' = IntoPublic(cert)
  BY DEF SignedPublic, Edit
<1>2. /\ cert \in CertOf(Backed(made)) /\ asked \in Param /\ pool \in Seq(Backed(made))
      /\ fresh \in BOOLEAN /\ kept \in BOOLEAN
  BY <1>1, ParamsAssumption DEF CInv, Held
<1>4. cert' \in CertOf(Backed(made)) /\ cert'.primary = cert.primary
  BY <1>1, <1>2, PublicFacts
<1>5. fresh => VerifyCert(cert')
  <2>1. ASSUME fresh PROVE VerifyCert(cert)
    BY <1>1, <2>1 DEF CInv, SignedVerifies
  <2>2. QED
    BY <1>1, <1>2, <2>1, PublicVerifies
<1>6. kept => SameSigned(asked, cert')
  <2>1. ASSUME kept PROVE SameSigned(asked, cert)
    BY <1>1, <2>1 DEF CInv, Same
  <2>2. QED
    BY <1>1, <1>2, <2>1, PublicSame
<1>7. QED
  BY <1>1, <1>2, <1>4, <1>5, <1>6, EditedCInv

\* Writing a certificate and reading it back.
LEMMA ReloadCInv == ASSUME CInv, Reload PROVE CInv'
<1>1. /\ stage = "signed" /\ stage' = "signed" /\ asked' = asked /\ made' = made /\ pool' = pool
      /\ fresh' = FALSE /\ kept' = kept /\ cert' = New(cert)
  BY DEF Reload, Edit
<1>2. /\ cert \in CertOf(Backed(made)) /\ asked \in Param /\ pool \in Seq(Backed(made))
      /\ kept \in BOOLEAN
  BY <1>1, ParamsAssumption DEF CInv, Held
<1>3. cert' \in CertOf(Backed(made)) /\ cert'.primary = cert.primary
  BY <1>1, <1>2, NewFacts
<1>4. kept => SameSigned(asked, cert')
  <2>1. ASSUME kept PROVE SameSigned(asked, cert)
    BY <1>1, <2>1 DEF CInv, Same
  <2>2. QED
    BY <1>1, <1>2, <2>1, NewSame
<1>5. QED
  BY <1>1, <1>2, <1>3, <1>4, EditedCInv

\* as_unsigned().
LEMMA UnsignCInv == ASSUME CInv, Unsign PROVE CInv'
<1>1. /\ stage = "signed" /\ asked' = asked /\ made' = made /\ pool' = pool
      /\ fresh' = fresh /\ cert' = cert
      /\ kept' = (kept /\ \E i \in DOMAIN cert.users : Primaries(cert) = {i})
  BY DEF Unsign, Edit
<1>2. /\ cert \in CertOf(Backed(made)) /\ asked \in Param /\ pool \in Seq(Backed(made))
      /\ fresh \in BOOLEAN /\ kept \in BOOLEAN /\ asked \in Params
  BY <1>1, ParamsAssumption DEF CInv, Held
<1>3. Validate(asked) /\ cert.primary.kt = asked.kt /\ (fresh => asked.kt.alg # "ECDH")
  BY <1>1 DEF CInv, Passed
<1>4. kept' \in BOOLEAN /\ (kept' => kept)
  BY <1>1
<1>5. CASE ~AsUnsignedPanics(cert) /\ stage' = "unsigned" /\ unsigned' = AsUnsigned(cert)
  <2>1. Backed(made) \subseteq Sig
    BY DEF Backed
  <2>2. unsigned' \in UnsignedKey /\ unsigned'.primary = cert.primary
    BY <1>2, <1>5, <2>1, AsUnsignedType
  <2>3. Held'
    BY <1>1, <1>2, <1>4, <1>5, <2>2 DEF Held
  <2>4. Passed'
    BY <1>1, <1>3, <1>5, <2>2 DEF Passed, Validate
  <2>5. ASSUME kept' PROVE SameUnsigned(asked, unsigned')
    <3>1. PICK i \in DOMAIN cert.users : Primaries(cert) = {i}
      BY <1>1, <2>5
    <3>2. SameSigned(asked, cert)
      BY <1>1, <1>4, <2>5 DEF CInv, Same
    <3>3. QED
      BY <1>2, <1>5, <2>1, <3>1, <3>2, AsUnsignedSame
  <2>6. SignedVerifies' /\ Same'
    BY <1>1, <1>5, <2>5 DEF SignedVerifies, Same, SameUnsigned, SubKeysOf
  <2>7. QED
    BY <2>3, <2>4, <2>6 DEF CInv
<1>6. CASE stage' = "panicked"
  <2>1. Held'
    BY <1>1, <1>2, <1>4, <1>6 DEF Held
  <2>2. Passed' /\ SignedVerifies' /\ Same'
    BY <1>1, <1>3, <1>6 DEF Passed, SignedVerifies, Same
  <2>3. QED
    BY <2>1, <2>2 DEF CInv
<1>7. QED
  BY <1>5, <1>6 DEF Unsign

\* A loose signature that says what its maker means.
LEMMA LooseCInv ==
    ASSUME CInv, stage = "signed", NEW s \in Sig, NEW by, NEW about, Loose(s, by, about),
           NEW m, m = [by |-> by.name, about |-> about, typ |-> s.typ, sub |-> s.sub], Backs(m, s)
    PROVE  CInv'
<1>1. /\ pool' = <<s>> /\ made' = made \cup {m} /\ stage' = "signed" /\ asked' = asked
      /\ cert' = cert /\ fresh' = fresh /\ kept' = kept
  BY DEF Loose
<1>2. /\ cert \in CertOf(Backed(made)) /\ fresh \in BOOLEAN /\ kept \in BOOLEAN
  BY DEF CInv, Held
<1>3. made \subseteq made' /\ m \in made'
  BY <1>1
<1>4. Backed(made) \subseteq Backed(made')
  BY <1>3, BackedGrows
<1>5. cert' \in CertOf(Backed(made'))
  BY <1>1, <1>2, <1>4, CertOfGrows
<1>6. s \in Backed(made')
  BY <1>3 DEF Backed
<1>7. pool' \in Seq(Backed(made'))
  BY <1>1, <1>6, OneSig
<1>8. (fresh => VerifyCert(cert)) /\ (kept => SameSigned(asked, cert))
  BY DEF CInv, SignedVerifies, Same
<1>9. QED
  BY <1>1, <1>2, <1>3, <1>5, <1>7, <1>8, EditedCInv

\* Certifications of user IDs and attributes.
LEMMA MakeCertificationCInv ==
    ASSUME CInv, stage = "signed", MakeCertification
    PROVE  CInv'
<1>1. PICK signer \in {Owner, ThirdKey}, signee \in {Owner, ThirdKey},
           typ \in {"CertPositive", "CertRevocation"}, v \in Versions, sub \in {NoSub, PrimarySub} :
        \/ \E i \in DOMAIN cert.users :
              Certify(signer, signee, "UserId", cert.users[i].id, typ, v, sub)
        \/ \E i \in DOMAIN cert.attrs :
              Certify(signer, signee, "UserAttribute", cert.attrs[i].id, typ, v, sub)
  BY DEF MakeCertification
<1>2. cert \in CertOf(Backed(made))
  BY DEF CInv, Held
<1>3. /\ cert.users \in Seq(Named(Backed(made))) /\ cert.attrs \in Seq(Named(Backed(made)))
      /\ cert.primary \in PrimaryKeys
  BY <1>2 DEF CertOf
<1>4. PICK tag \in Tags, id \in Ids : Certify(signer, signee, tag, id, typ, v, sub)
  <2>1. \A d \in Named(Backed(made)) : d.id \in Ids
    BY DEF Named
  <2>2. /\ \A i \in DOMAIN cert.users : cert.users[i] \in Named(Backed(made))
        /\ \A i \in DOMAIN cert.attrs : cert.attrs[i] \in Named(Backed(made))
    BY <1>3
  <2>3. /\ \A i \in DOMAIN cert.users : cert.users[i].id \in Ids
        /\ \A i \in DOMAIN cert.attrs : cert.attrs[i].id \in Ids
    BY <2>1, <2>2, Zenon
  <2>4. "UserId" \in Tags /\ "UserAttribute" \in Tags
    BY DEF Tags
  <2>5. QED
    BY <1>1, <2>3, <2>4, Zenon
<1>5. signer.name \in KeyNames /\ signee.name \in KeyNames
  BY <1>3, NamesFacts DEF Owner
<1>6. sub \in Sub
  <2>1. "primary" \in DOMAIN NoSub /\ TRUE \in BOOLEAN
    BY DEF NoSub
  <2>2. PrimarySub \in Sub
    BY <2>1, NoSubType DEF PrimarySub, Sub
  <2>3. QED
    BY <2>2, NoSubType
<1>7. typ \in SignatureTypes /\ v \in {"V3", "V4"}
  BY KeysAssumption DEF SignatureTypes, CertTypes
<1> DEFINE s == Signature(v, typ, sub, {signer.name}, signer, CertParts(v, signee, tag, id))
           about == <<signee.name, tag, id>>
           m == [by |-> signer.name, about |-> about, typ |-> typ, sub |-> sub]
<1>8. s \in Sig /\ Backs(m, s)
  BY <1>5, <1>6, <1>7, CertificationBacked
<1>9. s.typ = typ /\ s.sub = sub
  BY DEF Signature
<1>10. Loose(s, signer, about)
  BY <1>4 DEF Certify
<1> HIDE DEF s, about
<1>11. m = [by |-> signer.name, about |-> about, typ |-> s.typ, sub |-> s.sub]
  BY <1>9
<1>12. QED
  BY <1>8, <1>10, <1>11, LooseCInv

\* sign_key() and the sign() of key packets.
LEMMA SignKeyItselfCInv ==
    ASSUME CInv, stage = "signed", NEW signer, signer.name \in KeyNames, NEW key, key.name \in KeyNames,
           NEW typ \in SignatureTypes, typ \in {"KeyRevocation", "Key"} \/ key.name # signer.name,
           SignKeyItself(signer, key, typ)
    PROVE  CInv'
<1> DEFINE s == Signature("V4", typ, NoSub, {signer.name}, signer, KeyParts(key))
           about == IF typ \in {"KeyRevocation", "Key"} THEN <<key.name>>
                    ELSE <<signer.name, "Subkey", key.name>>
           m == [by |-> signer.name, about |-> about, typ |-> typ, sub |-> NoSub]
<1>1. Loose(s, signer, about)
  BY DEF SignKeyItself
<1>2. about = <<key.name>> \/ (about = <<signer.name, "Subkey", key.name>> /\ key.name # signer.name)
  OBVIOUS
<1>3. s.typ = typ /\ s.sub = NoSub
  BY DEF Signature
<1> HIDE DEF about
<1>4. s \in Sig /\ Backs(m, s)
  BY <1>2, NoSubType, KeySignatureBacked
<1> HIDE DEF s
<1>5. m = [by |-> signer.name, about |-> about, typ |-> s.typ, sub |-> s.sub]
  BY <1>3
<1>6. QED
  BY <1>1, <1>4, <1>5, LooseCInv

\* sign_key_binding().
LEMMA SignKeyBindingCInv ==
    ASSUME CInv, stage = "signed", NEW signer, signer.name \in KeyNames, NEW key, key.name \in KeyNames,
           NEW typ \in SignatureTypes, SignKeyBinding(signer, key, typ)
    PROVE  CInv'
<1> DEFINE s == Signature("V4", typ, NoSub, {signer.name}, signer, BindingParts(signer, key))
           about == <<signer.name, "Subkey", key.name>>
           m == [by |-> signer.name, about |-> about, typ |-> typ, sub |-> NoSub]
<1>1. Loose(s, signer, about)
  BY DEF SignKeyBinding
<1>2. s.typ = typ /\ s.sub = NoSub
  BY DEF Signature
<1>3. s \in Sig /\ Backs(m, s)
  BY NoSubType, BindingBacked
<1> HIDE DEF s, about
<1>4. m = [by |-> signer.name, about |-> about, typ |-> s.typ, sub |-> s.sub]
  BY <1>2
<1>5. QED
  BY <1>1, <1>3, <1>4, LooseCInv

\* Signatures over a key, of a key or of somebody else.
LEMMA MakeKeySignatureCInv == ASSUME CInv, stage = "signed", MakeKeySignature PROVE CInv'
<1>1. PICK signer \in {Owner, ThirdKey}, key \in {Owner, ThirdKey}, typ \in {"KeyRevocation", "Key"} :
        SignKeyItself(signer, key, typ)
  BY DEF MakeKeySignature
<1>2. cert.primary \in PrimaryKeys
  BY DEF CInv, Held, CertOf
<1>3. signer.name \in KeyNames /\ key.name \in KeyNames
  BY <1>2, NamesFacts DEF Owner
<1>4. typ \in SignatureTypes
  BY DEF SignatureTypes
<1>5. QED
  BY <1>1, <1>3, <1>4, SignKeyItselfCInv

\* Bindings, both ways.
LEMMA MakeBindingCInv == ASSUME CInv, stage = "signed", MakeBinding PROVE CInv'
<1>1. PICK i \in DOMAIN SubKeysOf(cert) :
        LET key == SubKeysOf(cert)[i].key IN
        \/ SignKeyItself(Owner, key, "SubkeyBinding") \/ SignKeyItself(key, Owner, "KeyBinding")
        \/ \E signer \in {Owner, ThirdKey} : \E typ \in BindingTypes : SignKeyBinding(signer, key, typ)
        \/ SignKeyBinding(key, Owner, "KeyBinding")
  BY DEF MakeBinding
<1> DEFINE key == SubKeysOf(cert)[i].key
<1>2. cert \in CertOf(Backed(made))
  BY DEF CInv, Held
<1>3. /\ cert.primary \in PrimaryKeys
      /\ cert.pubsubs \in Seq(Bound(Backed(made))) /\ cert.secsubs \in Seq(Bound(Backed(made)))
  BY <1>2 DEF CertOf
<1>4. key \in Subkeys
  <2>1. IsJoined(Bound(Backed(made)), cert.pubsubs, cert.secsubs, SubKeysOf(cert))
    BY <1>3, SubKeysFacts
  <2>2. SubKeysOf(cert) \in Seq(Bound(Backed(made)))
    BY <2>1, Zenon DEF IsJoined
  <2>3. SubKeysOf(cert)[i] \in Bound(Backed(made))
    BY <2>2
  <2>4. QED
    BY <2>3 DEF Bound
<1> HIDE DEF key
<1>5. /\ Owner.name \in KeyNames /\ key.name \in KeyNames /\ ThirdKey.name \in KeyNames
      /\ Owner.name # key.name
  BY <1>3, <1>4, NamesFacts DEF Owner
<1>6. "SubkeyBinding" \in SignatureTypes /\ "KeyBinding" \in SignatureTypes /\ BindingTypes \subseteq SignatureTypes
  BY DEF SignatureTypes, BindingTypes
<1>7. CASE SignKeyItself(Owner, key, "SubkeyBinding")
  BY <1>5, <1>6, <1>7, SignKeyItselfCInv
<1>8. CASE SignKeyItself(key, Owner, "KeyBinding")
  BY <1>5, <1>6, <1>8, SignKeyItselfCInv
<1>9. CASE \E signer \in {Owner, ThirdKey} : \E typ \in BindingTypes : SignKeyBinding(signer, key, typ)
  <2>1. PICK signer \in {Owner, ThirdKey}, typ \in BindingTypes : SignKeyBinding(signer, key, typ)
    BY <1>9
  <2>2. signer.name \in KeyNames /\ typ \in SignatureTypes
    BY <1>5, <1>6
  <2>3. QED
    BY <1>5, <2>1, <2>2, SignKeyBindingCInv
<1>10. CASE SignKeyBinding(key, Owner, "KeyBinding")
  BY <1>5, <1>6, <1>10, SignKeyBindingCInv
<1>11. QED
  BY <1>1, <1>7, <1>8, <1>9, <1>10 DEF key

\* The sequences of signatures behind the components.
LEMMA SigsOf ==
    ASSUME NEW S, NEW c \in CertOf(S), NEW field \in Components, NEW i \in DOMAIN c[field]
    PROVE  c[field][i].sigs \in Seq(S)
<1>1. CASE field \in {"users", "attrs"}
  <2>1. c[field] \in Seq(Named(S))
    BY <1>1 DEF CertOf
  <2>2. c[field][i] \in Named(S)
    BY <2>1
  <2>3. QED
    BY <2>2 DEF Named
<1>2. CASE field \in {"pubsubs", "secsubs"}
  <2>1. c[field] \in Seq(Bound(S))
    BY <1>2 DEF CertOf
  <2>2. c[field][i] \in Bound(S)
    BY <2>1
  <2>3. QED
    BY <2>2 DEF Bound
<1>3. QED
  BY <1>1, <1>2 DEF Components

\* A loose signature is put behind a component.
LEMMA PlaceCInv ==
    ASSUME CInv, NEW field \in Components, NEW i \in DOMAIN cert[field], NEW first \in BOOLEAN,
           Place(field, i, first)
    PROVE  CInv'
<1> DEFINE S == Backed(made)
           r == cert[field][i].sigs
           q == IF first THEN pool \o r ELSE r \o pool
<1>1. /\ stage = "signed" /\ stage' = "signed" /\ asked' = asked /\ made' = made /\ pool' = <<>>
      /\ fresh' = FALSE /\ kept' = (kept /\ ~first)
  BY DEF Place, Edit
<1>2. /\ cert \in CertOf(S) /\ asked \in Param /\ pool \in Seq(S) /\ kept \in BOOLEAN
  BY <1>1, ParamsAssumption DEF CInv, Held
<1>3. cert' = Edited(cert, field, i, q)
  BY DEF Place, Edited
<1>4. r \in Seq(S)
  BY <1>2, SigsOf
<1> HIDE DEF S, r
<1>5. q \in Seq(S) /\ (~first => Extends(q, r))
  <2>1. pool \o r \in Seq(S) /\ r \o pool \in Seq(S) /\ Extends(r \o pool, r)
    BY <1>2, <1>4 DEF Extends
  <2>2. QED
    BY <2>1
<1> HIDE DEF q
<1>6. cert' \in CertOf(S) /\ cert'.primary = cert.primary
  BY <1>2, <1>3, <1>5, EditedType
<1>7. kept' => SameSigned(asked, cert')
  <2>1. ASSUME kept' PROVE SameSigned(asked, cert')
    <3>1. kept /\ ~first
      BY <1>1, <2>1
    <3>2. SameSigned(asked, cert)
      BY <1>1, <3>1 DEF CInv, Same
    <3>3. Extends(q, cert[field][i].sigs)
      BY <1>5, <3>1 DEF r
    <3>4. QED
      BY <1>2, <1>3, <1>5, <3>2, <3>3, EditedSame
  <2>2. QED
    BY <2>1
<1>8. pool' \in Seq(S)
  BY <1>1
<1>9. fresh' \in BOOLEAN /\ kept' \in BOOLEAN /\ ~fresh'
  BY <1>1, <1>2
<1>10. QED
  BY <1>1, <1>6, <1>7, <1>8, <1>9, EditedCInv DEF S

\* A signature is taken from behind a component.
LEMMA TakeCInv ==
    ASSUME CInv, NEW field \in Components, NEW i \in DOMAIN cert[field], Take(field, i)
    PROVE  CInv'
<1> DEFINE S == Backed(made)
           r == cert[field][i].sigs
<1>1. /\ stage = "signed" /\ stage' = "signed" /\ asked' = asked /\ made' = made
      /\ fresh' = FALSE /\ kept' = FALSE /\ pool' = <<Head(r)>> /\ r # <<>>
  BY DEF Take, Edit
<1>2. cert \in CertOf(S)
  BY <1>1 DEF CInv, Held
<1>3. cert' = Edited(cert, field, i, Tail(r))
  BY DEF Take, Edited
<1>4. r \in Seq(S)
  BY <1>2, SigsOf
<1> HIDE DEF S, r
<1>5. Tail(r) \in Seq(S) /\ Head(r) \in S
  BY <1>1, <1>4
<1>6. cert' \in CertOf(S) /\ cert'.primary = cert.primary
  BY <1>2, <1>3, <1>5, EditedType
<1>7. pool' \in Seq(S)
  BY <1>1, <1>5, OneSig
<1>8. fresh' \in BOOLEAN /\ kept' \in BOOLEAN /\ ~fresh' /\ ~kept'
  BY <1>1
<1>9. QED
  BY <1>1, <1>6, <1>7, <1>8, EditedCInv DEF S

\* A loose signature is put behind the key itself.
LEMMA PlaceOnKeyCInv ==
    ASSUME CInv, NEW field \in {"revs", "directs"}, PlaceOnKey(field)
    PROVE  CInv'
<1> DEFINE S == Backed(made)
           q == cert[field] \o pool
<1>1. /\ stage = "signed" /\ stage' = "signed" /\ asked' = asked /\ made' = made /\ pool' = <<>>
      /\ fresh' = FALSE /\ kept' = kept
  BY DEF PlaceOnKey, Edit
<1>2. cert \in CertOf(S) /\ pool \in Seq(S) /\ kept \in BOOLEAN
  BY <1>1 DEF CInv, Held
<1>3. cert' = [cert EXCEPT ![field] = q]
  BY DEF PlaceOnKey
<1> HIDE DEF S
<1>4. cert.revs \in Seq(S) /\ cert.directs \in Seq(S)
  BY <1>2 DEF CertOf
<1>5. cert[field] \in Seq(S)
  BY <1>4
<1>6. q \in Seq(S)
  BY <1>2, <1>5
<1> HIDE DEF q
<1>7. /\ cert' \in CertOf(S) /\ cert'.primary = cert.primary
      /\ cert'.users = cert.users /\ cert'.attrs = cert.attrs
      /\ cert'.pubsubs = cert.pubsubs /\ cert'.secsubs = cert.secsubs
  <2>1. CASE field = "revs"
    BY <1>2, <1>3, <1>6, <2>1 DEF CertOf
  <2>2. CASE field = "directs"
    BY <1>2, <1>3, <1>6, <2>2 DEF CertOf
  <2>3. QED
    BY <2>1, <2>2
<1>8. kept => SameSigned(asked, cert')
  <2>1. ASSUME kept PROVE SameSigned(asked, cert)
    BY <1>1, <2>1 DEF CInv, Same
  <2>2. SubKeysOf(cert') = SubKeysOf(cert)
    BY <1>7 DEF SubKeysOf
  <2>3. QED
    BY <1>7, <2>1, <2>2 DEF SameSigned
<1>9. pool' \in Seq(S)
  BY <1>1
<1>10. fresh' \in BOOLEAN /\ kept' \in BOOLEAN /\ ~fresh' /\ (kept' => kept)
  BY <1>1, <1>2
<1>11. QED
  BY <1>1, <1>7, <1>8, <1>9, <1>10, EditedCInv DEF S

\* Signatures moved.
LEMMA RearrangeCInv == ASSUME CInv, Rearrange PROVE CInv'
<1>1. CASE \E field \in Components : \E i \in DOMAIN cert[field] : Take(field, i)
  BY <1>1, TakeCInv
<1>2. CASE \E field \in Components : \E i \in DOMAIN cert[field] :
             \E first \in BOOLEAN : Place(field, i, first)
  BY <1>2, PlaceCInv
<1>3. CASE \E field \in {"revs", "directs"} : PlaceOnKey(field)
  BY <1>3, PlaceOnKeyCInv
<1>4. QED
  BY <1>1, <1>2, <1>3, Zenon DEF Rearrange

\* Whatever is done next.
LEMMA NextCInv == ASSUME CInv, [Next]_vars PROVE CInv'
<1>1. CASE Generate
  BY <1>1, GenerateCInv
<1>2. CASE \E pw \in {"right", "wrong"} : SignSecretKey(pw)
  BY <1>2, SignCInv DEF SignSecretKey
<1>3. CASE \E pw \in {"right", "wrong"} : \E k \in {unsigned.primary, ThirdKey} : SignPublicKey(k, pw)
  <2>1. PICK pw \in {"right", "wrong"}, k \in {unsigned.primary, ThirdKey} : Sign(k, pw)
    BY <1>3 DEF SignPublicKey
  <2>2. k = unsigned.primary \/ k = ThirdKey
    OBVIOUS
  <2>3. QED
    BY <2>1, <2>2, SignCInv
<1>4. CASE SignedPublic
  BY <1>4, SignedPublicCInv
<1>5. CASE Unsign
  BY <1>5, UnsignCInv
<1>6. CASE Reload
  BY <1>6, ReloadCInv
<1>7. CASE stage = "signed" /\ MakeCertification
  BY <1>7, MakeCertificationCInv
<1>8. CASE stage = "signed" /\ MakeKeySignature
  BY <1>8, MakeKeySignatureCInv
<1>9. CASE stage = "signed" /\ MakeBinding
  BY <1>9, MakeBindingCInv
<1>10. CASE stage = "signed" /\ Rearrange
  BY <1>10, RearrangeCInv
<1>11. CASE UNCHANGED vars
  <2>1. Held'
    BY <1>11 DEF CInv, Held, vars
  <2>2. Passed'
    BY <1>11 DEF CInv, Passed, Validate, vars
  <2>3. SignedVerifies'
    BY <1>11 DEF CInv, SignedVerifies, VerifyCert, VerifyDetails, vars
  <2>4. Same'
    BY <1>11 DEF CInv, Same, SameSigned, SameUnsigned, SubKeysOf, vars
  <2>5. QED
    BY <2>1, <2>2, <2>3, <2>4 DEF CInv
<1>12. CASE Done
  BY <1>11, <1>12 DEF Done
<1>13. QED
  BY <1>1, <1>2, <1>3, <1>4, <1>5, <1>6, <1>7, <1>8, <1>9, <1>10, <1>11, <1>12 DEF Next

\* The inductive invariant holds, whatever the parameters and however often
\* the certificate is edited.
THEOREM CInvHolds == Spec => []CInv
<1>1. CInv /\ [Next]_vars => CInv'
  BY NextCInv
<1>2. QED
  BY <1>1, InitCInv, PTL DEF Spec

-----------------------------------------------------------------------------
(* What the invariant says about certificates.                             *)

\* Hashes of a certification, a binding and a key differ in length, or in the
\* first or the last part.
LEMMA PartsFacts ==
    /\ \A a, b, c, d : <<a, b>> = <<c, d>> => a = c /\ b = d
    /\ \A a, b, c, d, e, f : <<a, b, c>> = <<d, e, f>> => a = d /\ b = e /\ c = f
    /\ \A a, b : <<a>> = <<b>> => a = b
    /\ \A a, b, c, d, e : <<a, b, c>> # <<d, e>>
    /\ \A a, b, c : <<a, b>> # <<c>>
    /\ \A a, b, c, d : <<a, b, c>> # <<d>>
<1>1. \A a, b, c, d, e : <<a, b, c>> # <<d, e>>
  <2>1. \A a, b, c, d, e : Len(<<a, b, c>>) = 3 /\ Len(<<d, e>>) = 2
    OBVIOUS
  <2>2. QED
    BY <2>1
<1>2. \A a, b, c : <<a, b>> # <<c>>
  <2>1. \A a, b, c : Len(<<a, b>>) = 2 /\ Len(<<c>>) = 1
    OBVIOUS
  <2>2. QED
    BY <2>1
<1>3. \A a, b, c, d : <<a, b, c>> # <<d>>
  <2>1. \A a, b, c, d : Len(<<a, b, c>>) = 3 /\ Len(<<d>>) = 1
    OBVIOUS
  <2>2. QED
    BY <2>1
<1>4. \A a, b, c, d : <<a, b>> = <<c, d>> => a = c /\ b = d
  OBVIOUS
<1>5. \A a, b, c, d, e, f : <<a, b, c>> = <<d, e, f>> => a = d /\ b = e /\ c = f
  OBVIOUS
<1>6. \A a, b : <<a>> = <<b>> => a = b
  OBVIOUS
<1>7. QED
  BY <1>1, <1>2, <1>3, <1>4, <1>5, <1>6, Zenon

\* What a signature that verifies has hashed.
LEMMA VerifiesParts ==
    ASSUME NEW s, NEW key, NEW parts, SignatureVerifies(s, key, parts)
    PROVE  s.value.by = key.name /\ s.value.hash.parts = parts
BY DEF SignatureVerifies, HashOf

\* A certification that verifies, of a user ID or an attribute.
LEMMA CertificationSaid ==
    ASSUME NEW s \in Backed(made), NEW key, NEW signee, signee.name \in KeyNames,
           NEW tag \in Tags, NEW id \in Ids,
           SignatureVerifies(s, key, CertParts(s.v, signee, tag, id))
    PROVE  SaidBy(s, key, <<signee.name, tag, id>>)
<1>1. PICK m \in made : Backs(m, s)
  BY DEF Backed
<1>2. s.value.by = key.name /\ s.value.hash.parts = CertParts(s.v, signee, tag, id)
  BY VerifiesParts
<1>3. m.by = key.name /\ m.typ = s.typ /\ m.sub = s.sub
  BY <1>1, <1>2 DEF Backs
<1>4. CASE \E a \in KeyNames, g \in Tags, j \in Ids :
             /\ m.about = <<a, g, j>>
             /\ s.value.hash.parts = IF s.v = "V3" THEN <<a, j>> ELSE <<a, g, j>>
  <2>1. PICK a \in KeyNames, g \in Tags, j \in Ids :
             /\ m.about = <<a, g, j>>
             /\ s.value.hash.parts = IF s.v = "V3" THEN <<a, j>> ELSE <<a, g, j>>
    BY <1>4
  <2>2. CASE s.v = "V3"
    <3>1. <<a, j>> = <<signee.name, id>>
      BY <1>2, <2>1, <2>2 DEF CertParts
    <3>2. a = signee.name /\ j = id
      BY <3>1, PartsFacts, Zenon
    <3>3. m.about = <<signee.name, g, id>>
      BY <2>1, <3>2
    <3>4. /\ Len(m.about) = 3 /\ m.about[1] = <<signee.name, tag, id>>[1]
          /\ m.about[3] = <<signee.name, tag, id>>[3]
      BY <3>3
    <3>5. QED
      BY <1>3, <2>2, <3>4 DEF SaidBy
  <2>3. CASE s.v # "V3"
    <3>1. <<a, g, j>> = <<signee.name, tag, id>>
      BY <1>2, <2>1, <2>3 DEF CertParts
    <3>2. m.about = <<signee.name, tag, id>>
      BY <2>1, <3>1
    <3>3. QED
      BY <1>3, <3>2 DEF SaidBy
  <2>4. QED
    BY <2>2, <2>3
<1>5. CASE s.v = "V4" /\ \E n \in KeyNames : s.value.hash.parts = <<m.by, n>> \/ s.value.hash.parts = <<n>>
  <2>1. s.value.hash.parts = <<signee.name, tag, id>>
    BY <1>2, <1>5 DEF CertParts
  <2>2. PICK n \in KeyNames : <<signee.name, tag, id>> = <<m.by, n>> \/ <<signee.name, tag, id>> = <<n>>
    BY <1>5, <2>1
  <2>3. <<signee.name, tag, id>> # <<m.by, n>> /\ <<signee.name, tag, id>> # <<n>>
    BY PartsFacts, Zenon
  <2>4. QED
    BY <2>2, <2>3
<1>6. QED
  BY <1>1, <1>4, <1>5, Zenon DEF Backs

\* A binding that verifies: no certification can pass for it, since no user
\* ID has the octets of a key.
LEMMA BindingSaid ==
    ASSUME NEW s \in Backed(made), NEW key, NEW sub, sub.name \in KeyNames,
           VerifyBinding(s, key, sub, FALSE)
    PROVE  SaidBy(s, key, <<key.name, "Subkey", sub.name>>)
<1>1. PICK m \in made : Backs(m, s)
  BY DEF Backed
<1>2. s.value.by = key.name /\ s.value.hash.parts = <<key.name, sub.name>>
  BY VerifiesParts DEF VerifyBinding
<1>3. m.by = key.name /\ m.typ = s.typ /\ m.sub = s.sub
  BY <1>1, <1>2 DEF Backs
<1>4. ASSUME NEW a \in KeyNames, NEW g \in Tags, NEW j \in Ids,
             s.value.hash.parts = IF s.v = "V3" THEN <<a, j>> ELSE <<a, g, j>>
      PROVE  FALSE
  <2>1. CASE s.v = "V3"
    <3>1. <<a, j>> = <<key.name, sub.name>>
      BY <1>2, <1>4, <2>1
    <3>2. j = sub.name
      BY <3>1, PartsFacts, Zenon
    <3>3. QED
      BY <3>2, NamesFacts
  <2>2. CASE s.v # "V3"
    <3>1. <<a, g, j>> = <<key.name, sub.name>>
      BY <1>2, <1>4, <2>2
    <3>2. QED
      BY <3>1, PartsFacts, Zenon
  <2>3. QED
    BY <2>1, <2>2
<1>5. ASSUME NEW n \in KeyNames, m.about = <<m.by, "Subkey", n>>, s.value.hash.parts = <<m.by, n>>
      PROVE  SaidBy(s, key, <<key.name, "Subkey", sub.name>>)
  <2>1. n = sub.name
    <3>1. <<m.by, n>> = <<key.name, sub.name>>
      BY <1>2, <1>5
    <3>2. QED
      BY <3>1, PartsFacts, Zenon
  <2>2. m.about = <<key.name, "Subkey", sub.name>>
    BY <1>3, <1>5, <2>1
  <2>3. QED
    BY <1>3, <2>2 DEF SaidBy
<1>6. ASSUME NEW n \in KeyNames, s.value.hash.parts = <<n>> PROVE FALSE
  BY <1>2, <1>6, PartsFacts, Zenon
<1>7. QED
  BY <1>1, <1>4, <1>5, <1>6, Zenon DEF Backs

\* A signature over a key that verifies: a binding made over the other key
\* alone is over another one.
LEMMA KeySaid ==
    ASSUME NEW s \in Backed(made), NEW key, VerifyKey(s, key)
    PROVE  SaidBy(s, key, <<key.name>>)
<1>1. PICK m \in made : Backs(m, s)
  BY DEF Backed
<1>2. s.value.by = key.name /\ s.value.hash.parts = <<key.name>>
  BY VerifiesParts DEF VerifyKey, KeyParts
<1>3. m.by = key.name /\ m.typ = s.typ /\ m.sub = s.sub
  BY <1>1, <1>2 DEF Backs
<1>4. ASSUME NEW a \in KeyNames, NEW g \in Tags, NEW j \in Ids,
             s.value.hash.parts = IF s.v = "V3" THEN <<a, j>> ELSE <<a, g, j>>
      PROVE  FALSE
  <2>1. CASE s.v = "V3"
    <3>1. <<a, j>> = <<key.name>>
      BY <1>2, <1>4, <2>1
    <3>2. QED
      BY <3>1, PartsFacts, Zenon
  <2>2. CASE s.v # "V3"
    <3>1. <<a, g, j>> = <<key.name>>
      BY <1>2, <1>4, <2>2
    <3>2. QED
      BY <3>1, PartsFacts, Zenon
  <2>3. QED
    BY <2>1, <2>2
<1>5. ASSUME NEW n \in KeyNames, s.value.hash.parts = <<m.by, n>> PROVE FALSE
  <2>1. <<m.by, n>> = <<key.name>>
    BY <1>2, <1>5
  <2>2. QED
    BY <2>1, PartsFacts, Zenon
<1>6. ASSUME NEW n \in KeyNames, s.value.hash.parts = <<n>> PROVE n = key.name
  BY <1>2, <1>6, PartsFacts, Zenon
<1>7. PICK n \in KeyNames : m.about = <<n>> /\ s.value.hash.parts = <<n>>
  BY <1>1, <1>3, <1>4, <1>5, <1>6, Zenon DEF Backs
<1>8. m.about = <<key.name>>
  BY <1>6, <1>7
<1>9. QED
  BY <1>3, <1>8 DEF SaidBy

\* The signatures behind the components of a certificate, and what they are
\* behind.
LEMMA BehindFacts ==
    ASSUME NEW S, NEW c \in CertOf(S)
    PROVE  /\ \A i \in DOMAIN c.users : c.users[i].id \in Ids /\ Range(c.users[i].sigs) \subseteq S
           /\ \A i \in DOMAIN c.attrs : c.attrs[i].id \in Ids /\ Range(c.attrs[i].sigs) \subseteq S
           /\ \A i \in DOMAIN c.pubsubs : c.pubsubs[i].key \in Subkeys /\ Range(c.pubsubs[i].sigs) \subseteq S
           /\ \A i \in DOMAIN c.secsubs : c.secsubs[i].key \in Subkeys /\ Range(c.secsubs[i].sigs) \subseteq S
           /\ Range(c.revs) \subseteq S /\ Range(c.directs) \subseteq S
<1>1. \A q \in Seq(S) : Range(q) \subseteq S
  BY DEF Range
<1>2. \A d \in Named(S) : d.id \in Ids /\ Range(d.sigs) \subseteq S
  BY <1>1 DEF Named
<1>3. \A d \in Bound(S) : d.key \in Subkeys /\ Range(d.sigs) \subseteq S
  BY <1>1 DEF Bound
<1>4. /\ c.users \in Seq(Named(S)) /\ c.attrs \in Seq(Named(S))
      /\ c.pubsubs \in Seq(Bound(S)) /\ c.secsubs \in Seq(Bound(S))
      /\ c.revs \in Seq(S) /\ c.directs \in Seq(S)
  BY DEF CertOf
<1>5. /\ \A i \in DOMAIN c.users : c.users[i] \in Named(S)
      /\ \A i \in DOMAIN c.attrs : c.attrs[i] \in Named(S)
      /\ \A i \in DOMAIN c.pubsubs : c.pubsubs[i] \in Bound(S)
      /\ \A i \in DOMAIN c.secsubs : c.secsubs[i] \in Bound(S)
  BY <1>4
<1>6. QED
  BY <1>1, <1>2, <1>3, <1>4, <1>5, Zenon

\* The subkeys verify() goes through are all the subkeys.
LEMMA SubkeysVerified ==
    ASSUME NEW S, NEW c \in CertOf(S), VerifyCert(c), NEW i \in DOMAIN SubKeysOf(c)
    PROVE  /\ SubKeysOf(c)[i].key \in Subkeys /\ Range(SubKeysOf(c)[i].sigs) \subseteq S
           /\ VerifySubkey(SubKeysOf(c)[i], c.primary)
<1>1. c.pubsubs \in Seq(Bound(S)) /\ c.secsubs \in Seq(Bound(S))
  BY DEF CertOf
<1>2. IsJoined(Bound(S), c.pubsubs, c.secsubs, SubKeysOf(c))
  BY <1>1, SubKeysFacts
<1>3. SubKeysOf(c) \in Seq(Bound(S))
  BY <1>2, Zenon DEF IsJoined
<1>4. i \in 1..Len(SubKeysOf(c))
  BY <1>3
<1>5. VerifySubkeys(c.pubsubs, c.primary) /\ VerifySubkeys(c.secsubs, c.primary)
  BY DEF VerifyCert
<1>6. CASE i \in 1..Len(c.pubsubs)
  <2>1. SubKeysOf(c)[i] = c.pubsubs[i]
    BY <1>2, <1>6, Zenon DEF IsJoined
  <2>2. i \in DOMAIN c.pubsubs
    BY <1>1, <1>6
  <2>3. VerifySubkey(c.pubsubs[i], c.primary)
    BY <1>5, <2>2 DEF VerifySubkeys
  <2>4. c.pubsubs[i].key \in Subkeys /\ Range(c.pubsubs[i].sigs) \subseteq S
    BY <2>2, BehindFacts
  <2>5. QED
    BY <2>1, <2>3, <2>4
<1>7. CASE i \notin 1..Len(c.pubsubs)
  <2>1. PICK k \in 1..Len(c.secsubs) : i = Len(c.pubsubs) + k
    BY <1>2, <1>4, <1>7 DEF IsJoined
  <2>2. SubKeysOf(c)[i] = c.secsubs[k]
    BY <1>2, <2>1 DEF IsJoined
  <2>3. k \in DOMAIN c.secsubs
    BY <1>1
  <2>4. VerifySubkey(c.secsubs[k], c.primary)
    BY <1>5, <2>3 DEF VerifySubkeys
  <2>5. c.secsubs[k].key \in Subkeys /\ Range(c.secsubs[k].sigs) \subseteq S
    BY <2>3, BehindFacts
  <2>6. QED
    BY <2>2, <2>4, <2>5
<1>8. QED
  BY <1>6, <1>7

\* What verify() accepts was signed as it stands.
LEMMA GenuineFromCInv == CInv => VerifiedIsGenuine
<1> SUFFICES ASSUME CInv, stage = "signed"
             PROVE  VerifiedIsGenuine
  BY DEF VerifiedIsGenuine
<1> DEFINE S == Backed(made)
           name == cert.primary.name
<1>1. cert \in CertOf(S) /\ cert.primary \in PrimaryKeys
  BY DEF CInv, Held, CertOf
<1>2. name \in KeyNames /\ "UserId" \in Tags /\ "UserAttribute" \in Tags
  BY <1>1, NamesFacts DEF Tags
<1>3. /\ \A i \in DOMAIN cert.users : cert.users[i].id \in Ids /\ Range(cert.users[i].sigs) \subseteq S
      /\ \A i \in DOMAIN cert.attrs : cert.attrs[i].id \in Ids /\ Range(cert.attrs[i].sigs) \subseteq S
      /\ Range(cert.revs) \subseteq S /\ Range(cert.directs) \subseteq S
  BY <1>1, BehindFacts
<1>4. ASSUME VerifyCert(cert), NEW i \in DOMAIN cert.users, NEW s \in Range(cert.users[i].sigs)
      PROVE  SaidBy(s, cert.primary, <<name, "UserId", cert.users[i].id>>)
  <2>1. VerifyUser(cert.users[i], cert.primary)
    BY <1>4 DEF VerifyCert, VerifyDetails
  <2>2. SignatureVerifies(s, cert.primary, CertParts(s.v, cert.primary, "UserId", cert.users[i].id))
    BY <2>1 DEF VerifyUser, VerifyCertification, VerifyThirdParty
  <2>3. s \in S /\ cert.users[i].id \in Ids
    BY <1>3
  <2>4. QED
    BY <1>2, <2>2, <2>3, CertificationSaid
<1>5. ASSUME VerifyCert(cert), NEW i \in DOMAIN cert.attrs, NEW s \in Range(cert.attrs[i].sigs)
      PROVE  SaidBy(s, cert.primary, <<name, "UserAttribute", cert.attrs[i].id>>)
  <2>1. VerifyAttribute(cert.attrs[i], cert.primary)
    BY <1>5 DEF VerifyCert, VerifyDetails
  <2>2. SignatureVerifies(s, cert.primary, CertParts(s.v, cert.primary, "UserAttribute", cert.attrs[i].id))
    BY <2>1 DEF VerifyAttribute, VerifyCertification, VerifyThirdParty
  <2>3. s \in S /\ cert.attrs[i].id \in Ids
    BY <1>3
  <2>4. QED
    BY <1>2, <2>2, <2>3, CertificationSaid
<1>6. ASSUME VerifyCert(cert), NEW i \in DOMAIN SubKeysOf(cert), NEW s \in Range(SubKeysOf(cert)[i].sigs)
      PROVE  SaidBy(s, cert.primary, <<name, "Subkey", SubKeysOf(cert)[i].key.name>>)
  <2> DEFINE k == SubKeysOf(cert)[i]
  <2>1. k.key \in Subkeys /\ Range(k.sigs) \subseteq S /\ VerifySubkey(k, cert.primary)
    BY <1>1, <1>6, SubkeysVerified
  <2>2. VerifyBinding(s, cert.primary, k.key, FALSE)
    BY <2>1 DEF VerifySubkey
  <2>3. s \in S
    BY <2>1
  <2>4. k.key.name \in KeyNames
    BY <2>1, NamesFacts
  <2> HIDE DEF k
  <2>5. SaidBy(s, cert.primary, <<name, "Subkey", k.key.name>>)
    BY <2>2, <2>3, <2>4, BindingSaid
  <2>6. QED
    BY <2>5 DEF k
<1>7. ASSUME VerifyCert(cert), NEW s \in Range(cert.revs) \cup Range(cert.directs)
      PROVE  SaidBy(s, cert.primary, <<name>>)
  <2>1. VerifyKey(s, cert.primary) /\ s \in S
    BY <1>3, <1>7 DEF VerifyCert, VerifyDetails
  <2>2. QED
    BY <2>1, KeySaid
<1>8. ASSUME NEW i \in DOMAIN cert.users, VerifyUserThirdParty(cert.users[i], cert.primary, ThirdKey),
             NEW s \in Range(cert.users[i].sigs)
      PROVE  SaidBy(s, ThirdKey, <<name, "UserId", cert.users[i].id>>)
  <2>1. SignatureVerifies(s, ThirdKey, CertParts(s.v, cert.primary, "UserId", cert.users[i].id))
    BY <1>8 DEF VerifyUserThirdParty, VerifyThirdParty
  <2>2. s \in S /\ cert.users[i].id \in Ids
    BY <1>3
  <2>3. QED
    BY <1>2, <2>1, <2>2, CertificationSaid
<1>9. QED
  BY <1>4, <1>5, <1>6, <1>7, <1>8, Zenon DEF VerifiedIsGenuine

\* Whatever signatures are made and moved, verify() accepts a certificate only
\* if its primary key signed all that is on it, about the component it stands
\* behind, and verify_third_party() only what that signer said of that user.
THEOREM VerifiedIsGenuineHolds == Spec => []VerifiedIsGenuine
BY CInvHolds, GenuineFromCInv, PTL

\* What sign() returns verifies, and still does made public, or signed again
\* after as_unsigned().
THEOREM SignedVerifiesHolds == Spec => []SignedVerifies
<1>1. CInv => SignedVerifies
  BY DEF CInv
<1>2. QED
  BY <1>1, CInvHolds, PTL

\* Nothing that was asked for is lost when a key is signed again.
LEMMA ResignFromCInv == CInv => ResignKeeps
<1> SUFFICES ASSUME CInv, stage = "signed", kept
             PROVE  ResignKeeps
  BY DEF ResignKeeps
<1> DEFINE S == Backed(made)
           ks == SubKeysOf(cert)
           users == cert.users
<1>1. cert \in CertOf(S) /\ asked \in Param
  BY ParamsAssumption DEF CInv, Held
<1>2. SameUsers(asked, users) /\ SameAttrs(asked, cert.attrs) /\ SameSubkeys(asked, ks)
  BY DEF CInv, Same, SameSigned
<1>3. /\ users \in Seq(Named(S)) /\ cert.attrs \in Seq(Named(S))
      /\ cert.pubsubs \in Seq(Bound(S)) /\ cert.secsubs \in Seq(Bound(S))
  BY <1>1 DEF CertOf
<1>4. /\ asked.uids \in Seq(STRING) /\ asked.attrs \in Seq(STRING) /\ asked.uid \in STRING
      /\ asked.subkeys \in Seq(SubkeyParam)
  BY <1>1 DEF Param
<1>5. [i \in DOMAIN users |-> users[i].id] = <<asked.uid>> \o asked.uids
  <2>1. DOMAIN users = 1..(Len(asked.uids) + 1) /\ Len(asked.uids) \in Nat
    BY <1>2, <1>3, <1>4 DEF SameUsers
  <2> DEFINE b == <<asked.uid>> \o asked.uids
  <2>2. /\ b \in Seq(STRING) /\ Len(b) = Len(asked.uids) + 1 /\ b[1] = asked.uid
        /\ \A i \in 1..Len(asked.uids) : b[i + 1] = asked.uids[i]
    BY <1>4
  <2> HIDE DEF b
  <2>3. ASSUME NEW i \in 1..(Len(asked.uids) + 1) PROVE users[i].id = b[i]
    <3>1. CASE i = 1
      BY <1>2, <2>2, <3>1 DEF SameUsers
    <3>2. CASE i # 1
      <4>1. i - 1 \in 1..Len(asked.uids) /\ i = (i - 1) + 1
        BY <2>1, <3>2
      <4>2. users[(i - 1) + 1].id = asked.uids[i - 1]
        BY <1>2, <4>1 DEF SameUsers
      <4>3. b[(i - 1) + 1] = asked.uids[i - 1]
        BY <2>2, <4>1
      <4>4. QED
        BY <4>1, <4>2, <4>3
    <3>3. QED
      BY <3>1, <3>2
  <2>4. b = [i \in 1..(Len(asked.uids) + 1) |-> b[i]]
    BY <2>2
  <2>5. [i \in DOMAIN users |-> users[i].id] = b
    BY <2>1, <2>3, <2>4
  <2>6. QED
    BY <2>5 DEF b
<1>6. IsPrimary(users[1])
  <2>1. 1 \in 1..Len(users) /\ AllFirst(users, CertTypes)
    BY <1>2, <1>4 DEF SameUsers
  <2>2. users[1].sigs # <<>> /\ users[1] \in Named(S)
    BY <1>3, <2>1 DEF AllFirst, First
  <2>3. users[1].sigs \in Seq(S)
    BY <2>2 DEF Named
  <2>4. users[1].sigs[1] \in Range(users[1].sigs)
    BY <2>2, <2>3 DEF Range
  <2>5. users[1].sigs[1].sub.primary = TRUE
    BY <1>2 DEF SameUsers
  <2>6. QED
    BY <2>4, <2>5 DEF IsPrimary
<1>7. [i \in DOMAIN cert.attrs |-> cert.attrs[i].id] = asked.attrs
  <2>1. DOMAIN cert.attrs = 1..Len(asked.attrs) /\ \A i \in 1..Len(asked.attrs) : cert.attrs[i].id = asked.attrs[i]
    BY <1>2, <1>3 DEF SameAttrs
  <2>2. asked.attrs = [i \in 1..Len(asked.attrs) |-> asked.attrs[i]]
    BY <1>4
  <2>3. QED
    BY <2>1, <2>2
<1>8. LET sub == users[1].sigs[1].sub IN
      sub.flags = asked.flags /\ sub.prefs = asked.prefs /\ sub.rkey = asked.rkey
  BY <1>2 DEF SameUsers
<1>9. [i \in DOMAIN ks |-> ks[i].sigs[1].sub.flags] = [i \in DOMAIN asked.subkeys |-> asked.subkeys[i].flags]
  <2>1. IsJoined(Bound(S), cert.pubsubs, cert.secsubs, ks)
    BY <1>3, SubKeysFacts
  <2> HIDE DEF ks
  <2>2. ks \in Seq(Bound(S))
    BY <2>1, Zenon DEF IsJoined
  <2>3. DOMAIN ks = 1..Len(asked.subkeys) /\ DOMAIN asked.subkeys = 1..Len(asked.subkeys)
    BY <1>2, <1>4, <2>2 DEF SameSubkeys
  <2>4. \A i \in 1..Len(asked.subkeys) : ks[i].sigs[1].sub.flags = asked.subkeys[i].flags
    BY <1>2 DEF SameSubkeys
  <2>5. QED
    BY <2>3, <2>4
<1>10. QED
  BY <1>5, <1>6, <1>7, <1>8, <1>9, Zenon DEF ResignKeeps

\* Signing, publishing, unsigning and signing again keep users, attributes,
\* flags, preferences and subkeys as generate() was asked for.
THEOREM ResignKeepsHolds == Spec => []ResignKeeps
BY CInvHolds, ResignFromCInv, PTL

\* The flags of a signed primary key are ones its algorithm can keep: encrypt
\* is refused by validate(), and an ECDH key never signs.
LEMMA FlagsFromCInv == CInv => FlagsAreHonest
<1> SUFFICES ASSUME CInv, stage = "signed", fresh, kept
             PROVE  FlagsAreHonest
  BY DEF FlagsAreHonest
<1>1. Validate(asked) /\ cert.primary.kt = asked.kt /\ asked.kt.alg # "ECDH"
  BY DEF CInv, Passed
<1>2. cert.users[1].sigs[1].sub.flags = asked.flags
  BY DEF CInv, Same, SameSigned, SameUsers
<1>3. asked \in Param
  BY ParamsAssumption DEF CInv, Held
<1>4. asked.kt.alg \in Algorithms
  BY <1>3 DEF Param, KeyType
<1>5. "encrypt" \in asked.flags => asked.kt.alg \in {"Rsa", "ECDH"}
  BY <1>1, <1>4 DEF Validate, Algorithms
<1>6. QED
  BY <1>1, <1>2, <1>5 DEF FlagsAreHonest

\* A freshly signed key promises only what it can do.
THEOREM FlagsAreHonestHolds == Spec => []FlagsAreHonest
BY CInvHolds, FlagsFromCInv, PTL

=============================================================================
