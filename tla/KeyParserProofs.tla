--------------------------- MODULE KeyParserProofs ---------------------------
(***************************************************************************)
(* Proofs about KeyParser, for every set of inputs.                        *)
(*                                                                         *)
(* OwnPacketsOnly speaks of the keys handed out.  KInv says where the      *)
(* packets of a key come from while it is built: the key has a block of    *)
(* its own (Block), each of its signatures lies behind the packet it is    *)
(* attached to with only signatures in between (SignedIn), and the loop    *)
(* that takes signatures stands right behind the part they go to (Open).   *)
(***************************************************************************)
EXTENDS KeyParser, SelectionProofs, SequenceTheorems

Building == {"signatures", "users", "subkeys"}

TypeInv ==
    /\ input.written \in Seq(Item) /\ input.ignored \in SUBSET Nat
    /\ mode \in AllModes
    /\ packets \in Seq(Item) /\ packets = Delivered(input)
    /\ pos \in Nat /\ pos <= Len(packets)
    /\ pc \in {"idle", "search", "exhausted"} \cup Building
    /\ keyTag \in PrimaryTags
    /\ key \in Key
    /\ cur \in Container \cup {"none"}
    /\ inner \in BOOLEAN
    /\ out \in Seq(Result)
    /\ round \in {1, 2}
    /\ first \in Key

\* Only signatures lie behind o, up to j.
Run(s, o, j) == \A m \in (o + 1)..j : s[m].tag = "Signature"

\* From b to e there is one primary key, at b.
Block(s, b, e) ==
    /\ b \in Nat /\ e \in Nat /\ 1 <= b /\ b <= e /\ e <= Len(s)
    /\ s[b].tag \in PrimaryTags
    /\ \A m \in (b + 1)..e : s[m].tag \notin PrimaryTags

\* The signature sig was written behind the packet p, between b and e.
SignedIn(s, b, e, sig, p) ==
    \E o \in b..e : \E j \in b..e :
       /\ o < j /\ s[o] = p /\ s[j] = sig
       /\ s[o].tag # "Signature" /\ Run(s, o, j)

AllSignedIn(s, b, e, sigs, p) == \A i \in 1..Len(sigs) : SignedIn(s, b, e, sigs[i], p)

PartIn(s, b, e, part) ==
    /\ \E j \in b..e : s[j] = part.packet
    /\ AllSignedIn(s, b, e, part.signatures, part.packet)

PartsIn(s, b, e, ps) == \A i \in 1..Len(ps) : PartIn(s, b, e, ps[i])

\* k has been read from the block between b and e.
KeyIn(s, b, e, k) ==
    /\ k.primary = <<s[b]>>
    /\ AllSignedIn(s, b, e, k.revocations, s[b])
    /\ AllSignedIn(s, b, e, k.directs, s[b])
    /\ \A c \in Container : PartsIn(s, b, e, k.parts[c])

\* Signatures are taken right behind what they go to: the primary key, or the
\* last part of the container cur.
Open(s, b, e, k, p, c) ==
    /\ p = "signatures" => c = "none" /\ Run(s, b, e)
    /\ c # "none" =>
          /\ Len(k.parts[c]) > 0
          /\ \E o \in b..e : /\ s[o] = k.parts[c][Len(k.parts[c])].packet
                             /\ s[o].tag # "Signature" /\ Run(s, o, e)

\* The key in progress.
InProgress ==
    pc \in Building =>
       \E b \in 1..pos : /\ Block(packets, b, pos)
                         /\ KeyIn(packets, b, pos, key)
                         /\ Open(packets, b, pos, key, pc, cur)

SearchesFresh == pc = "search" => cur = "none"

\* The keys handed out.
FromBlock(s, k) == \E b, e \in Nat : Block(s, b, e) /\ KeyIn(s, b, e, k)

HandedOut ==
    \A n \in 1..Len(out) : out[n].r = "Ok" => FromBlock(packets, out[n].key)

KInv == TypeInv /\ SearchesFresh /\ InProgress /\ HandedOut

-----------------------------------------------------------------------------
(* Constructors and writer                                                 *)

\* Vec::retain keeps signatures that were there.
LEMMA RetainFacts ==
    ASSUME NEW sigs \in Seq(Item), NEW types
    PROVE  /\ Retain(sigs, types) \in Seq(Item)
           /\ \A j \in 1..Len(Retain(sigs, types)) :
                 \E i \in 1..Len(sigs) : Retain(sigs, types)[j] = sigs[i] /\ sigs[i].typ \in types
<1> DEFINE P == { i \in DOMAIN sigs : sigs[i].typ \in types }
<1>2. \A i \in P : sigs[i].typ \in types
  OBVIOUS
<1>3. Retain(sigs, types) = Select(sigs, P)
  BY DEF Retain
<1> HIDE DEF P
<1>1. /\ Select(sigs, P) \in Seq(Item)
      /\ \A j \in 1..Len(Select(sigs, P)) :
            \E i \in 1..Len(sigs) : i \in P /\ Select(sigs, P)[j] = sigs[i]
  BY SelectFacts
<1>4. QED
  BY <1>1, <1>2, <1>3

\* The types of signatures a constructor keeps for a part of container c.
KeptTypes(c) == IF c \in UserTags THEN {"Cert"} ELSE {"SubkeyBinding", "SubkeyRevocation"}

KeptPart(part, c) == [packet |-> part.packet, signatures |-> Retain(part.signatures, KeptTypes(c))]

\* SignedUser::new and its likes, by container.
LEMMA RetainsKept ==
    ASSUME NEW part \in Part, NEW c \in Container
    PROVE  /\ KeptPart(part, c) \in Part
           /\ c \in UserTags => RetainCertifications(part) = KeptPart(part, c)
           /\ c \notin UserTags => RetainBindings(part) = KeptPart(part, c)
<1>1. part.signatures \in Seq(Item) /\ part.packet \in Item
      /\ part = [packet |-> part.packet, signatures |-> part.signatures]
  BY DEF Part
<1>2. Retain(part.signatures, KeptTypes(c)) \in Seq(Item)
  BY <1>1, RetainFacts
<1>3. KeptPart(part, c) \in Part
  BY <1>1, <1>2 DEF KeptPart, Part
<1>4. c \in UserTags => RetainCertifications(part) = KeptPart(part, c)
  BY <1>1 DEF RetainCertifications, KeptPart, KeptTypes
<1>5. c \notin UserTags => RetainBindings(part) = KeptPart(part, c)
  BY <1>1 DEF RetainBindings, KeptPart, KeptTypes
<1>6. QED
  BY <1>3, <1>4, <1>5

KeptParts(ps, c) == [i \in DOMAIN ps |-> KeptPart(ps[i], c)]

\* The constructor of a part, applied to a whole container.
LEMMA KeptPartsFacts ==
    ASSUME NEW ps \in Seq(Part), NEW c \in Container
    PROVE  /\ KeptParts(ps, c) \in Seq(Part)
           /\ Len(KeptParts(ps, c)) = Len(ps)
           /\ \A i \in 1..Len(ps) : KeptParts(ps, c)[i] = KeptPart(ps[i], c)
<1>1. \A i \in 1..Len(ps) : ps[i] \in Part
  OBVIOUS
<1>2. \A i \in 1..Len(ps) : KeptPart(ps[i], c) \in Part
  BY <1>1, RetainsKept
<1>3. DOMAIN ps = 1..Len(ps)
  OBVIOUS
<1>4. KeptParts(ps, c) \in [1..Len(ps) -> Part]
  BY <1>2, <1>3 DEF KeptParts
<1>5. QED
  BY <1>3, <1>4 DEF KeptParts

\* What the constructors make of the parts of one container: signed parts,
\* each a part that was there with signatures it had.
LEMMA SignedPartsFacts ==
    ASSUME NEW ps \in Seq(Part), NEW c \in Container
    PROVE  /\ SignedParts(KeptParts(ps, c)) \in Seq(Part)
           /\ \A j \in 1..Len(SignedParts(KeptParts(ps, c))) :
                 /\ SignedParts(KeptParts(ps, c))[j].signatures # <<>>
                 /\ \E i \in 1..Len(ps) : SignedParts(KeptParts(ps, c))[j] = KeptPart(ps[i], c)
<1> DEFINE qs == KeptParts(ps, c)
           P == { i \in DOMAIN qs : qs[i].signatures # <<>> }
<1>1. qs \in Seq(Part) /\ Len(qs) = Len(ps) /\ \A i \in 1..Len(ps) : qs[i] = KeptPart(ps[i], c)
  BY KeptPartsFacts
<1> HIDE DEF qs
<1>3. \A i \in P : qs[i].signatures # <<>>
  OBVIOUS
<1>4. SignedParts(qs) = Select(qs, P)
  BY DEF SignedParts
<1> HIDE DEF P
<1>2. /\ Select(qs, P) \in Seq(Part)
      /\ \A j \in 1..Len(Select(qs, P)) :
            \E i \in 1..Len(qs) : i \in P /\ Select(qs, P)[j] = qs[i]
  BY <1>1, SelectFacts
<1>5. QED
  BY <1>1, <1>2, <1>3, <1>4 DEF qs

\* The constructors touch nothing but the parts.
LEMMA NewKeyFacts ==
    ASSUME NEW k \in Key
    PROVE  /\ NewKey(k) \in Key
           /\ NewKey(k).primary = k.primary
           /\ NewKey(k).revocations = k.revocations
           /\ NewKey(k).directs = k.directs
           /\ \A c \in Container : NewKey(k).parts[c] = SignedParts(KeptParts(k.parts[c], c))
<1>1. /\ k = [primary |-> k.primary, revocations |-> k.revocations, directs |-> k.directs,
              parts |-> k.parts]
      /\ k.primary \in Seq(Item) /\ k.revocations \in Seq(Item) /\ k.directs \in Seq(Item)
      /\ k.parts \in [Container -> Seq(Part)]
  BY DEF Key
<1>2. ASSUME NEW c \in UserTags
      PROVE  [i \in DOMAIN k.parts[c] |-> RetainCertifications(k.parts[c][i])] = KeptParts(k.parts[c], c)
  <2>1. c \in Container /\ k.parts[c] \in Seq(Part)
    BY <1>1 DEF UserTags, Container
  <2>2. \A i \in DOMAIN k.parts[c] : RetainCertifications(k.parts[c][i]) = KeptPart(k.parts[c][i], c)
    BY <2>1, RetainsKept
  <2>3. QED
    BY <2>2 DEF KeptParts
<1>3. ASSUME NEW c \in SubkeyTags
      PROVE  [i \in DOMAIN k.parts[c] |-> RetainBindings(k.parts[c][i])] = KeptParts(k.parts[c], c)
  <2>1. c \in Container /\ c \notin UserTags /\ k.parts[c] \in Seq(Part)
    BY <1>1 DEF UserTags, SubkeyTags, Container
  <2>2. \A i \in DOMAIN k.parts[c] : RetainBindings(k.parts[c][i]) = KeptPart(k.parts[c][i], c)
    BY <2>1, RetainsKept
  <2>3. QED
    BY <2>2 DEF KeptParts
<1> DEFINE fin == [c \in Container |-> SignedParts(KeptParts(k.parts[c], c))]
<1>4. fin \in [Container -> Seq(Part)]
  <2>1. \A c \in Container : SignedParts(KeptParts(k.parts[c], c)) \in Seq(Part)
    BY <1>1, SignedPartsFacts
  <2>2. QED
    BY <2>1
<1>5. \A c \in Container :
         fin[c] = IF c \in UserTags THEN NewDetails(k, c) ELSE NewSubkeys(k, c)
  <2>1. \A c \in Container : c \notin UserTags => c \in SubkeyTags
    BY DEF Container, UserTags, SubkeyTags
  <2>2. QED
    BY <1>2, <1>3, <2>1 DEF NewDetails, NewSubkeys
<1>6. fin = [c \in Container |-> IF c \in UserTags THEN NewDetails(k, c) ELSE NewSubkeys(k, c)]
  BY <1>5
<1>7. NewKey(k) = [primary |-> k.primary, revocations |-> k.revocations,
                   directs |-> k.directs, parts |-> fin]
  <2> HIDE DEF fin
  <2>1. NewKey(k) = [k EXCEPT !.parts = fin]
    BY <1>6 DEF NewKey
  <2>2. QED
    BY <1>1, <2>1
<1> HIDE DEF fin
<1>8. NewKey(k) \in Key
  BY <1>1, <1>4, <1>7 DEF Key
<1>9. NewKey(k).parts = fin
  BY <1>7
<1>10. QED
  BY <1>7, <1>8, <1>9 DEF fin

-----------------------------------------------------------------------------
(* What is written one after the other.                                    *)

Joins(f, seqs, k) ==
    f = [n \in 0..k |-> IF n = 0 THEN <<>> ELSE f[n - 1] \o seqs[n]]

\* The rounds of a writer can be run to the end.
LEMMA JoinsExist ==
    ASSUME NEW seqs
    PROVE  \A k \in Nat : \E f : Joins(f, seqs, k)
<1> DEFINE T == { k \in Nat : \E f : Joins(f, seqs, k) }
<1>1. 0 \in T
  <2> DEFINE f == [n \in 0..0 |-> <<>>]
  <2>1. Joins(f, seqs, 0)
    BY DEF Joins
  <2>2. QED
    BY <2>1
<1>2. ASSUME NEW k \in Nat, k \in T PROVE k + 1 \in T
  <2>1. PICK f : Joins(f, seqs, k)
    BY <1>2
  <2> DEFINE g == [n \in 0..(k + 1) |-> IF n <= k THEN f[n] ELSE f[k] \o seqs[k + 1]]
  <2>2. ASSUME NEW n \in 0..(k + 1)
        PROVE  g[n] = IF n = 0 THEN <<>> ELSE g[n - 1] \o seqs[n]
    <3>1. CASE n = 0
      BY <2>1, <3>1 DEF Joins
    <3>2. CASE n # 0 /\ n <= k
      <4>1. n \in 0..k /\ n - 1 \in 0..(k + 1) /\ n - 1 <= k
        BY <3>2
      <4>2. f[n] = f[n - 1] \o seqs[n]
        BY <2>1, <3>2, <4>1 DEF Joins
      <4>3. g[n] = f[n] /\ g[n - 1] = f[n - 1]
        BY <3>2, <4>1
      <4>4. QED
        BY <3>2, <4>2, <4>3
    <3>3. CASE n = k + 1
      <4>1. k \in 0..(k + 1) /\ ~(k + 1 <= k) /\ (k + 1) - 1 = k /\ k + 1 # 0
        OBVIOUS
      <4>2. g[k] = f[k] /\ g[k + 1] = f[k] \o seqs[k + 1]
        BY <4>1
      <4>3. QED
        BY <3>3, <4>1, <4>2
    <3>4. QED
      BY <3>1, <3>2, <3>3
  <2>3. Joins(g, seqs, k + 1)
    BY <2>2 DEF Joins
  <2>4. QED
    BY <2>3
<1> HIDE DEF T
<1>3. \A k \in Nat : k \in T
  BY <1>1, <1>2, Rounds
<1>4. QED
  BY <1>3 DEF T

\* FlattenSeq is what the last round leaves.
LEMMA FlattenJoins ==
    ASSUME NEW S, NEW seqs \in Seq(Seq(S))
    PROVE  \E f : Joins(f, seqs, Len(seqs)) /\ FlattenSeq(seqs) = f[Len(seqs)]
<1>1. CASE Len(seqs) = 0
  <2>1. PICK f : Joins(f, seqs, 0)
    BY JoinsExist
  <2>2. f[0] = <<>>
    BY <2>1 DEF Joins
  <2>3. FlattenSeq(seqs) = seqs /\ seqs = <<>>
    BY <1>1 DEF FlattenSeq
  <2>4. QED
    BY <1>1, <2>1, <2>2, <2>3
<1>2. CASE Len(seqs) # 0
  <2> DEFINE k == Len(seqs)
             G(g) == g = [i \in 1..k |-> IF i = 1 THEN seqs[i] ELSE g[i - 1] \o seqs[i]]
             h == CHOOSE g : G(g)
  <2>0. k \in Nat /\ k >= 1
    BY <1>2
  <2>1. PICK f0 : Joins(f0, seqs, k)
    <3> HIDE DEF k, h
    <3>1. QED
      BY <2>0, JoinsExist
  <2>2. G([i \in 1..k |-> f0[i]])
    <3> DEFINE g0 == [i \in 1..k |-> f0[i]]
    <3>1. ASSUME NEW i \in 1..k PROVE g0[i] = IF i = 1 THEN seqs[i] ELSE g0[i - 1] \o seqs[i]
      <4>1. i \in 0..k /\ i # 0 /\ f0[i] = f0[i - 1] \o seqs[i]
        <5> HIDE DEF k
        <5>1. i \in 0..k /\ i # 0
          BY <2>0
        <5>2. QED
          BY <2>1, <5>1 DEF Joins
      <4>2. CASE i = 1
        <5>1. f0[0] = <<>> /\ i - 1 = 0 /\ seqs[i] \in Seq(S)
          BY <2>0, <2>1, <4>2 DEF Joins
        <5>2. <<>> \o seqs[i] = seqs[i]
          BY <5>1
        <5>3. QED
          BY <4>1, <4>2, <5>1, <5>2
      <4>3. CASE i # 1
        <5>1. i - 1 \in 1..k
          BY <4>3
        <5>2. QED
          BY <4>1, <4>3, <5>1
      <4>4. QED
        BY <4>2, <4>3
    <3>2. QED
      BY <3>1
  <2>3. G(h)
    BY <2>2
  <2>4. FlattenSeq(seqs) = h[k]
    BY <1>2 DEF FlattenSeq
  <2> HIDE DEF h
  <2> DEFINE f == [n \in 0..k |-> IF n = 0 THEN <<>> ELSE h[n]]
  <2>5. ASSUME NEW n \in 0..k PROVE f[n] = IF n = 0 THEN <<>> ELSE f[n - 1] \o seqs[n]
    <3>1. CASE n = 0
      BY <3>1
    <3>2. CASE n = 1
      <4>1. n \in 1..k /\ n - 1 = 0 /\ n - 1 \in 0..k /\ seqs[n] \in Seq(S)
        BY <2>0, <3>2
      <4>2. h[n] = seqs[n] /\ f[n - 1] = <<>> /\ f[n] = h[n]
        BY <2>3, <3>2, <4>1
      <4>3. <<>> \o seqs[n] = seqs[n]
        BY <4>1
      <4>4. QED
        BY <3>2, <4>2, <4>3
    <3>3. CASE n # 0 /\ n # 1
      <4>1. n \in 1..k /\ n - 1 \in 0..k /\ n - 1 # 0
        BY <2>0, <3>3
      <4>2. h[n] = h[n - 1] \o seqs[n] /\ f[n - 1] = h[n - 1] /\ f[n] = h[n]
        BY <2>3, <3>3, <4>1
      <4>3. QED
        BY <3>3, <4>2
    <3>4. QED
      BY <3>1, <3>2, <3>3
  <2>6. Joins(f, seqs, k)
    BY <2>5 DEF Joins
  <2>7. f[k] = h[k]
    BY <2>0
  <2>8. QED
    BY <2>4, <2>6, <2>7
<1>3. QED
  BY <1>1, <1>2

\* q is made of the first n of seqs, the i-th of them behind at[i - 1].
Layout(at, q, seqs, n) ==
    /\ Len(q) = at[n]
    /\ \A i \in 1..n : at[i] = at[i - 1] + Len(seqs[i]) /\ at[i] <= at[n]
    /\ \A i \in 1..n : \A m \in 1..Len(seqs[i]) : q[at[i - 1] + m] = seqs[i][m]
    /\ \A j \in 1..Len(q) : \E i \in 1..n : \E m \in 1..Len(seqs[i]) : j = at[i - 1] + m

\* One more.
LEMMA LayoutRound ==
    ASSUME NEW S, NEW seqs \in Seq(Seq(S)), NEW n \in Nat, n + 1 <= Len(seqs),
           NEW at \in [0..Len(seqs) -> Nat], NEW q \in Seq(S), Layout(at, q, seqs, n),
           at[n + 1] = Len(q \o seqs[n + 1])
    PROVE  q \o seqs[n + 1] \in Seq(S) /\ Layout(at, q \o seqs[n + 1], seqs, n + 1)
<1> DEFINE x == seqs[n + 1]
           r == q \o x
<1>0. n + 1 \in 1..Len(seqs) /\ x \in Seq(S) /\ n \in 0..Len(seqs) /\ n + 1 \in 0..Len(seqs)
  OBVIOUS
<1>1. /\ r \in Seq(S) /\ Len(r) = Len(q) + Len(x)
      /\ \A j \in 1..Len(q) : r[j] = q[j]
      /\ \A m \in 1..Len(x) : r[Len(q) + m] = x[m]
  BY <1>0, ConcatProperties
<1>2. at[n + 1] = at[n] + Len(x) /\ Len(q) = at[n] /\ at[n] \in Nat /\ at[n + 1] \in Nat
      /\ Len(x) \in Nat /\ at[n] <= at[n + 1] /\ Len(r) = at[n + 1]
  <2>1. at[n + 1] = Len(r) /\ Len(q) = at[n] /\ at[n] \in Nat /\ at[n + 1] \in Nat /\ Len(x) \in Nat
    BY <1>0 DEF Layout
  <2>2. QED
    BY <1>1, <2>1
<1> HIDE DEF r
<1>n. \A i \in 1..n : at[i] \in Nat /\ at[i - 1] \in Nat /\ Len(seqs[i]) \in Nat
  <2> TAKE i \in 1..n
  <2>1. PICK L \in Nat : L = Len(seqs) /\ n + 1 <= L
    OBVIOUS
  <2>2. i \in 1..L /\ i \in 0..L /\ i - 1 \in 0..L
    BY <2>1
  <2>3. at \in [0..L -> Nat]
    BY <2>1
  <2>4. at[i] \in Nat /\ at[i - 1] \in Nat
    BY <2>2, <2>3
  <2>5. seqs[i] \in Seq(S)
    BY <2>1, <2>2
  <2>6. Len(seqs[i]) \in Nat
    BY <2>5
  <2>7. QED
    BY <2>4, <2>6
<1>3. ASSUME NEW i \in 1..(n + 1) PROVE at[i] = at[i - 1] + Len(seqs[i]) /\ at[i] <= at[n + 1]
  <2>1. CASE i \in 1..n
    <3>1. at[i] = at[i - 1] + Len(seqs[i]) /\ at[i] <= at[n]
      BY <2>1 DEF Layout
    <3>2. at[i] \in Nat
      BY <1>n, <2>1
    <3>3. QED
      BY <1>2, <3>1, <3>2
  <2>2. CASE i \notin 1..n
    <3>1. i = n + 1 /\ i - 1 = n
      BY <2>2
    <3>2. QED
      BY <1>2, <3>1
  <2>3. QED
    BY <2>1, <2>2
<1>4. ASSUME NEW i \in 1..(n + 1), NEW m \in 1..Len(seqs[i]) PROVE r[at[i - 1] + m] = seqs[i][m]
  <2>1. CASE i \in 1..n
    <3>1. q[at[i - 1] + m] = seqs[i][m] /\ at[i] = at[i - 1] + Len(seqs[i]) /\ at[i] <= at[n]
      BY <2>1 DEF Layout
    <3>2. at[i - 1] \in Nat /\ at[i] \in Nat /\ Len(seqs[i]) \in Nat
      BY <1>n, <2>1
    <3>3. at[i - 1] + m \in 1..Len(q)
      <4>1. PICK l \in Nat : l = Len(seqs[i])
        BY <3>2
      <4>2. m \in Nat /\ m >= 1 /\ m <= l /\ at[i] = at[i - 1] + l
        BY <3>1, <4>1
      <4>3. Len(q) = at[n] /\ at[n] \in Nat
        BY <1>2
      <4>4. PICK a \in Nat, b \in Nat, d \in Nat : a = at[i - 1] /\ b = at[i] /\ d = Len(q) /\ b <= d
        BY <3>1, <3>2, <4>3
      <4>5. b = a + l /\ b <= d /\ m >= 1 /\ m <= l
        BY <4>2, <4>4
      <4>6. a + m \in 1..d
        <5>1. \A t \in Nat : t >= 1 /\ t <= l => a + t \in 1..d
          BY <4>5
        <5>2. QED
          BY <4>2, <5>1
      <4>7. QED
        BY <4>4, <4>6
    <3>4. QED
      BY <1>1, <3>1, <3>3
  <2>2. CASE i \notin 1..n
    <3>1. i = n + 1 /\ i - 1 = n
      BY <2>2
    <3>2. m \in 1..Len(x) /\ at[i - 1] + m = Len(q) + m
      BY <1>2, <3>1
    <3>3. r[Len(q) + m] = x[m]
      BY <1>1, <3>2
    <3>4. QED
      BY <3>1, <3>2, <3>3
  <2>3. QED
    BY <2>1, <2>2
<1>5. ASSUME NEW j \in 1..Len(r)
      PROVE  \E i \in 1..(n + 1) : \E m \in 1..Len(seqs[i]) : j = at[i - 1] + m
  <2>1. CASE j \in 1..Len(q)
    <3>1. PICK i \in 1..n : \E m \in 1..Len(seqs[i]) : j = at[i - 1] + m
      BY <2>1 DEF Layout
    <3>2. i \in 1..(n + 1)
      OBVIOUS
    <3>3. QED
      BY <3>1, <3>2
  <2>2. CASE j \notin 1..Len(q)
    <3>1. PICK m \in Nat : m = j - Len(q) /\ m >= 1 /\ m <= Len(x)
      <4>1. Len(q) \in Nat /\ Len(r) = Len(q) + Len(x) /\ Len(x) \in Nat
        BY <1>1, <1>2
      <4>2. j - Len(q) \in Nat /\ j - Len(q) >= 1 /\ j - Len(q) <= Len(x)
        BY <2>2, <4>1
      <4>3. QED
        BY <4>2
    <3>2. j = at[n] + m /\ m \in 1..Len(x) /\ (n + 1) - 1 = n /\ n + 1 \in 1..(n + 1)
      BY <1>2, <3>1
    <3>3. QED
      BY <3>2
  <2>3. QED
    BY <2>1, <2>2
<1>6. Layout(at, r, seqs, n + 1)
  BY <1>2, <1>3, <1>4, <1>5 DEF Layout
<1>7. QED
  BY <1>1, <1>6 DEF r

\* Where FlattenSeq writes what.
LEMMA FlattenLayout ==
    ASSUME NEW S, NEW seqs \in Seq(Seq(S))
    PROVE  /\ FlattenSeq(seqs) \in Seq(S)
           /\ \E at \in [0..Len(seqs) -> Nat] :
                 at[0] = 0 /\ Layout(at, FlattenSeq(seqs), seqs, Len(seqs))
<1>1. PICK f : Joins(f, seqs, Len(seqs)) /\ FlattenSeq(seqs) = f[Len(seqs)]
  BY FlattenJoins
<1>k. PICK k \in Nat : k = Len(seqs)
  OBVIOUS
<1>z. f[0] = <<>>
  BY <1>1, <1>k DEF Joins
<1>s. \A n \in Nat : n + 1 <= k => f[n + 1] = f[n] \o seqs[n + 1]
  <2> SUFFICES ASSUME NEW n \in Nat, n + 1 <= k PROVE f[n + 1] = f[n] \o seqs[n + 1]
    OBVIOUS
  <2>1. n + 1 \in 0..k /\ n + 1 # 0 /\ (n + 1) - 1 = n
    OBVIOUS
  <2>2. QED
    BY <1>1, <1>k, <2>1 DEF Joins
<1> DEFINE U == { n \in Nat : n <= k => f[n] \in Seq(S) }
<1>2. \A n \in Nat : n \in U
  <2>1. 0 \in U
    <3>1. f[0] \in Seq(S)
      BY <1>z
    <3>2. QED
      BY <3>1
  <2>2. ASSUME NEW n \in Nat, n \in U PROVE n + 1 \in U
    <3> SUFFICES ASSUME n + 1 <= k PROVE f[n + 1] \in Seq(S)
      OBVIOUS
    <3>1. f[n] \in Seq(S) /\ seqs[n + 1] \in Seq(S)
      BY <1>k, <2>2
    <3>2. f[n + 1] = f[n] \o seqs[n + 1]
      BY <1>s
    <3>3. f[n] \o seqs[n + 1] \in Seq(S)
      BY <3>1
    <3>4. QED
      BY <3>2, <3>3
  <2> HIDE DEF U
  <2>3. QED
    BY <2>1, <2>2, Rounds
<1>3. \A n \in 0..k : f[n] \in Seq(S)
  BY <1>2
<1> HIDE DEF U
<1> DEFINE at == [n \in 0..k |-> Len(f[n])]
<1>4. at \in [0..k -> Nat] /\ at[0] = 0
  BY <1>3, <1>z
<1>a. \A n \in 0..k : at[n] = Len(f[n])
  OBVIOUS
<1> HIDE DEF at
<1> DEFINE T == { n \in Nat : n <= k => Layout(at, f[n], seqs, n) }
<1>5. 0 \in T
  <2>1. 1..0 = {} /\ Len(<<>>) = 0 /\ at[0] = 0
    BY <1>4
  <2>2. Layout(at, <<>>, seqs, 0)
    BY <2>1 DEF Layout
  <2>3. QED
    BY <1>z, <2>2
<1>6. ASSUME NEW n \in Nat, n \in T PROVE n + 1 \in T
  <2> SUFFICES ASSUME n + 1 <= k PROVE Layout(at, f[n + 1], seqs, n + 1)
    OBVIOUS
  <2>1. Layout(at, f[n], seqs, n) /\ f[n] \in Seq(S) /\ n + 1 <= Len(seqs)
    BY <1>3, <1>6, <1>k
  <2>2. f[n + 1] = f[n] \o seqs[n + 1] /\ at[n + 1] = Len(f[n + 1])
    <3>1. f[n + 1] = f[n] \o seqs[n + 1]
      BY <1>s
    <3>2. n + 1 \in 0..k
      OBVIOUS
    <3>3. at[n + 1] = Len(f[n + 1])
      BY <1>a, <3>2
    <3>4. QED
      BY <3>1, <3>3
  <2>3. at \in [0..Len(seqs) -> Nat]
    BY <1>4, <1>k
  <2>4. Layout(at, f[n] \o seqs[n + 1], seqs, n + 1)
    BY <2>1, <2>2, <2>3, LayoutRound
  <2>5. QED
    BY <2>2, <2>4
<1> HIDE DEF T
<1>7. k \in T
  BY <1>5, <1>6, Rounds
<1>8. Layout(at, f[k], seqs, k) /\ f[k] \in Seq(S)
  BY <1>3, <1>7 DEF T
<1>9. QED
  BY <1>1, <1>4, <1>8, <1>k

-----------------------------------------------------------------------------
(* What a written key holds.                                               *)

Elem(p, s) == \E i \in 1..Len(s) : s[i] = p

\* What a concatenation holds, one of the two holds.
LEMMA ElemConcat ==
    ASSUME NEW S, NEW s \in Seq(S), NEW t \in Seq(S), NEW p, Elem(p, s \o t)
    PROVE  Elem(p, s) \/ Elem(p, t)
<1>1. PICK j \in 1..Len(s \o t) : (s \o t)[j] = p
  BY DEF Elem
<1>2. /\ Len(s \o t) = Len(s) + Len(t) /\ Len(s) \in Nat /\ Len(t) \in Nat
      /\ \A i \in 1..Len(s) : (s \o t)[i] = s[i]
      /\ \A m \in 1..Len(t) : (s \o t)[Len(s) + m] = t[m]
  BY ConcatProperties
<1>3. CASE j \in 1..Len(s)
  BY <1>1, <1>2, <1>3 DEF Elem
<1>4. CASE j \notin 1..Len(s)
  <2>0. PICK a \in Nat, b \in Nat : a = Len(s) /\ b = Len(t) /\ j \in 1..(a + b) /\ j \notin 1..a
    BY <1>2, <1>4
  <2>1. PICK m \in Nat : m \in 1..b /\ j = a + m
    <3>1. j - a \in Nat /\ j - a \in 1..b /\ j = a + (j - a)
      BY <2>0
    <3>2. QED
      BY <3>1
  <2>2. m \in 1..Len(t) /\ j = Len(s) + m
    BY <2>0, <2>1
  <2>3. t[m] = p
    BY <1>1, <1>2, <2>2
  <2>4. QED
    BY <2>2, <2>3 DEF Elem
<1>5. QED
  BY <1>3, <1>4

\* A part as it is written: its packet and its signatures.
PartPackets(part) == <<part.packet>> \o part.signatures

\* A part is written as its packet, then its signatures in order.
LEMMA PartPacketsFacts ==
    ASSUME NEW part \in Part
    PROVE  /\ PartPackets(part) \in Seq(Item)
           /\ Len(PartPackets(part)) = 1 + Len(part.signatures)
           /\ PartPackets(part)[1] = part.packet
           /\ \A m \in 1..Len(part.signatures) : PartPackets(part)[1 + m] = part.signatures[m]
<1>1. part.packet \in Item /\ part.signatures \in Seq(Item)
  BY DEF Part
<1>2. <<part.packet>> \in Seq(Item) /\ Len(<<part.packet>>) = 1 /\ <<part.packet>>[1] = part.packet
      /\ 1 \in 1..1
  BY <1>1
<1>3. QED
  BY <1>1, <1>2, ConcatProperties DEF PartPackets

\* A container is written part by part.
LEMMA AllPartPackets ==
    ASSUME NEW ps \in Seq(Part)
    PROVE  /\ [i \in DOMAIN ps |-> PartPackets(ps[i])] \in Seq(Seq(Item))
           /\ Len([i \in DOMAIN ps |-> PartPackets(ps[i])]) = Len(ps)
           /\ SerializeParts(ps) = FlattenSeq([i \in DOMAIN ps |-> PartPackets(ps[i])])
<1>1. \A i \in 1..Len(ps) : PartPackets(ps[i]) \in Seq(Item)
  BY PartPacketsFacts
<1>2. DOMAIN ps = 1..Len(ps)
  OBVIOUS
<1>3. SerializeParts(ps) = FlattenSeq([i \in DOMAIN ps |-> PartPackets(ps[i])])
  BY DEF SerializeParts, PartPackets
<1>4. QED
  BY <1>1, <1>2, <1>3

\* Parts are written as their packets and signatures, and nothing else.
LEMMA SerializePartsElems ==
    ASSUME NEW ps \in Seq(Part)
    PROVE  /\ SerializeParts(ps) \in Seq(Item)
           /\ \A p : Elem(p, SerializeParts(ps)) =>
                 \E i \in 1..Len(ps) : p = ps[i].packet \/ Elem(p, ps[i].signatures)
<1> DEFINE w == [i \in DOMAIN ps |-> PartPackets(ps[i])]
           q == SerializeParts(ps)
<1>1. w \in Seq(Seq(Item)) /\ Len(w) = Len(ps) /\ q = FlattenSeq(w)
  BY AllPartPackets
<1>2. \A i \in 1..Len(ps) : w[i] = PartPackets(ps[i])
  OBVIOUS
<1> HIDE DEF w, q
<1>3. q \in Seq(Item) /\ \E at \in [0..Len(w) -> Nat] : at[0] = 0 /\ Layout(at, q, w, Len(w))
  BY <1>1, FlattenLayout
<1>4. PICK at \in [0..Len(w) -> Nat] : at[0] = 0 /\ Layout(at, q, w, Len(w))
  BY <1>3
<1>5. ASSUME NEW p, Elem(p, q)
      PROVE  \E i \in 1..Len(ps) : p = ps[i].packet \/ Elem(p, ps[i].signatures)
  <2>1. PICK j \in 1..Len(q) : q[j] = p
    BY <1>5 DEF Elem
  <2>2. PICK i \in 1..Len(w) : \E m \in 1..Len(w[i]) : j = at[i - 1] + m
    BY <1>4, <2>1 DEF Layout
  <2>3. PICK m \in 1..Len(w[i]) : j = at[i - 1] + m
    BY <2>2
  <2>4. q[at[i - 1] + m] = w[i][m]
    BY <1>4 DEF Layout
  <2>5. i \in 1..Len(ps) /\ w[i] = PartPackets(ps[i]) /\ ps[i] \in Part
    BY <1>1, <1>2
  <2>6. p = PartPackets(ps[i])[m] /\ m \in 1..Len(PartPackets(ps[i]))
    BY <2>1, <2>3, <2>4, <2>5
  <2>7. ps[i].signatures \in Seq(Item) /\ Len(ps[i].signatures) \in Nat
    BY <2>5 DEF Part
  <2>8. p = ps[i].packet \/ Elem(p, ps[i].signatures)
    <3>1. CASE m = 1
      BY <2>5, <2>6, <3>1, PartPacketsFacts
    <3>2. CASE m # 1
      <4>1. Len(PartPackets(ps[i])) = 1 + Len(ps[i].signatures)
        BY <2>5, PartPacketsFacts
      <4>2. PICK l \in Nat : l = m - 1 /\ l \in 1..Len(ps[i].signatures) /\ m = 1 + l
        BY <2>6, <2>7, <3>2, <4>1
      <4>3. PartPackets(ps[i])[1 + l] = ps[i].signatures[l]
        BY <2>5, <4>2, PartPacketsFacts
      <4>4. QED
        BY <2>6, <4>2, <4>3 DEF Elem
    <3>3. QED
      BY <3>1, <3>2
  <2>9. QED
    BY <2>5, <2>8
<1>6. QED
  BY <1>3, <1>5 DEF q

PartElem(p, ps) == \E i \in 1..Len(ps) : p = ps[i].packet \/ Elem(p, ps[i].signatures)

\* A key is written as its own packets, and nothing else.
LEMMA SerializeElems ==
    ASSUME NEW k \in Key
    PROVE  /\ Serialize(k) \in Seq(Item)
           /\ \A p : Elem(p, Serialize(k)) =>
                 \/ Elem(p, k.primary) \/ Elem(p, k.revocations) \/ Elem(p, k.directs)
                 \/ \E c \in Container : PartElem(p, k.parts[c])
<1>1. /\ k.primary \in Seq(Item) /\ k.revocations \in Seq(Item) /\ k.directs \in Seq(Item)
      /\ \A c \in Container : k.parts[c] \in Seq(Part)
  BY DEF Key
<1> DEFINE a == k.primary
           r == k.revocations
           d == k.directs
           w(c) == SerializeParts(k.parts[c])
<1>2. \A c \in Container : w(c) \in Seq(Item)
                           /\ \A p : Elem(p, w(c)) => PartElem(p, k.parts[c])
  BY <1>1, SerializePartsElems DEF PartElem
<1>3. {"UserId", "UserAttribute", "PublicSubkey", "SecretSubkey"} \subseteq Container
  BY DEF Container
<1>4. PICK u, v, x, y : /\ u = w("UserId") /\ v = w("UserAttribute")
                        /\ x = w("PublicSubkey") /\ y = w("SecretSubkey")
  OBVIOUS
<1>5. u \in Seq(Item) /\ v \in Seq(Item) /\ x \in Seq(Item) /\ y \in Seq(Item)
  BY <1>2, <1>3, <1>4
<1>6. PICK e1, e2, e3, e4, e5 :
         /\ e1 = r \o d /\ e2 = e1 \o u /\ e3 = e2 \o v /\ e4 = a \o e3 /\ e5 = e4 \o x
         /\ Serialize(k) = e5 \o y
  BY <1>4 DEF Serialize, SerializeDetails
<1>7. \A p : Elem(p, u) \/ Elem(p, v) \/ Elem(p, x) \/ Elem(p, y)
               => \E c \in Container : PartElem(p, k.parts[c])
  BY <1>2, <1>3, <1>4
<1>8. a \in Seq(Item) /\ r \in Seq(Item) /\ d \in Seq(Item)
  BY <1>1
<1> HIDE DEF a, r, d, w
<1>9. /\ e1 \in Seq(Item) /\ e2 \in Seq(Item) /\ e3 \in Seq(Item) /\ e4 \in Seq(Item)
      /\ e5 \in Seq(Item) /\ Serialize(k) \in Seq(Item)
  BY <1>5, <1>6, <1>8
<1>10. ASSUME NEW p, Elem(p, Serialize(k))
       PROVE  \/ Elem(p, a) \/ Elem(p, r) \/ Elem(p, d)
              \/ Elem(p, u) \/ Elem(p, v) \/ Elem(p, x) \/ Elem(p, y)
  <2>1. Elem(p, e5) \/ Elem(p, y)
    <3>1. Elem(p, e5 \o y)
      BY <1>6, <1>10
    <3>2. QED
      BY <1>5, <1>9, <3>1, ElemConcat
  <2>2. Elem(p, e5) => Elem(p, e4) \/ Elem(p, x)
    BY <1>5, <1>6, <1>9, ElemConcat
  <2>3. Elem(p, e4) => Elem(p, a) \/ Elem(p, e3)
    BY <1>6, <1>8, <1>9, ElemConcat
  <2>4. Elem(p, e3) => Elem(p, e2) \/ Elem(p, v)
    BY <1>5, <1>6, <1>9, ElemConcat
  <2>5. Elem(p, e2) => Elem(p, e1) \/ Elem(p, u)
    BY <1>5, <1>6, <1>9, ElemConcat
  <2>6. Elem(p, e1) => Elem(p, r) \/ Elem(p, d)
    BY <1>6, <1>8, ElemConcat
  <2>7. QED
    BY <2>1, <2>2, <2>3, <2>4, <2>5, <2>6
<1>11. QED
  BY <1>7, <1>9, <1>10 DEF a, r, d

-----------------------------------------------------------------------------
(* Type correctness                                                        *)

\* What peek() shows is a packet.
LEMMA PeekFacts ==
    ASSUME TypeInv, NEW tags, PeekIn(tags)
    PROVE  /\ Peek \in Item /\ Peek.tag \in tags
           /\ pos + 1 \in Nat /\ pos + 1 <= Len(packets) /\ pos + 1 \in 1..Len(packets)
           /\ Peek = packets[pos + 1]
<1>1. packets \in Seq(Item) /\ pos \in Nat /\ pos <= Len(packets) /\ pos # Len(packets)
  BY DEF TypeInv, PeekIn, AtEnd
<1>2. pos + 1 \in 1..Len(packets)
  BY <1>1
<1>3. packets[pos + 1] \in Item
  BY <1>1, <1>2
<1>4. QED
  BY <1>1, <1>2, <1>3 DEF PeekIn, Peek

\* The key of an error result is a key with nothing in it.
LEMMA NoKeyType == NoKey \in Key
<1>1. <<>> \in Seq(Item) /\ <<>> \in Seq(Part)
  OBVIOUS
<1>2. QED
  BY <1>1 DEF NoKey, Key

\* A key is its four fields.
LEMMA KeyFields ==
    ASSUME NEW k \in Key
    PROVE  /\ k = [primary |-> k.primary, revocations |-> k.revocations,
                   directs |-> k.directs, parts |-> k.parts]
           /\ k.primary \in Seq(Item) /\ k.revocations \in Seq(Item) /\ k.directs \in Seq(Item)
           /\ k.parts \in [Container -> Seq(Part)]
           /\ \A c \in Container : k.parts[c] \in Seq(Part) /\ Len(k.parts[c]) \in Nat
<1>1. /\ k = [primary |-> k.primary, revocations |-> k.revocations,
              directs |-> k.directs, parts |-> k.parts]
      /\ k.primary \in Seq(Item) /\ k.revocations \in Seq(Item) /\ k.directs \in Seq(Item)
      /\ k.parts \in [Container -> Seq(Part)]
  BY DEF Key
<1>2. \A c \in Container : k.parts[c] \in Seq(Part)
  BY <1>1
<1>3. \A c \in Container : Len(k.parts[c]) \in Nat
  BY <1>2
<1>4. QED
  BY <1>1, <1>2, <1>3

\* One field of a key is replaced.
LEMMA FieldsWith ==
    ASSUME NEW a, NEW r, NEW d, NEW ps, NEW x,
           NEW k, k = [primary |-> a, revocations |-> r, directs |-> d, parts |-> ps]
    PROVE  /\ [k EXCEPT !.revocations = x] = [primary |-> a, revocations |-> x, directs |-> d, parts |-> ps]
           /\ [k EXCEPT !.directs = x] = [primary |-> a, revocations |-> r, directs |-> x, parts |-> ps]
           /\ [k EXCEPT !.parts = x] = [primary |-> a, revocations |-> r, directs |-> d, parts |-> x]
OBVIOUS

\* A key with other signatures on its primary key.
LEMMA KeyWith ==
    ASSUME NEW k \in Key, NEW x
    PROVE  /\ [k EXCEPT !.revocations = x] = [primary |-> k.primary, revocations |-> x,
                                              directs |-> k.directs, parts |-> k.parts]
           /\ [k EXCEPT !.directs = x] = [primary |-> k.primary, revocations |-> k.revocations,
                                          directs |-> x, parts |-> k.parts]
<1>1. PICK a, r, d, ps : a = k.primary /\ r = k.revocations /\ d = k.directs /\ ps = k.parts
  OBVIOUS
<1>2. k = [primary |-> a, revocations |-> r, directs |-> d, parts |-> ps]
  BY <1>1, KeyFields
<1>3. QED
  BY <1>1, <1>2, FieldsWith

\* A key with other signatures on one of its parts.
LEMMA KeyWithSignatures ==
    ASSUME NEW k \in Key, NEW c \in Container, NEW n \in 1..Len(k.parts[c]), NEW x
    PROVE  [k EXCEPT !.parts[c][n].signatures = x] =
              [primary |-> k.primary, revocations |-> k.revocations, directs |-> k.directs,
               parts |-> [k.parts EXCEPT ![c] =
                            [k.parts[c] EXCEPT ![n] = [packet |-> k.parts[c][n].packet, signatures |-> x]]]]
<1>1. k.parts[c] \in Seq(Part)
  BY KeyFields
<1>2. k.parts[c][n] \in Part
  BY <1>1
<1>3. [k.parts[c][n] EXCEPT !.signatures = x] = [packet |-> k.parts[c][n].packet, signatures |-> x]
  BY <1>2 DEF Part
<1>4. PICK a, r, d, ps : a = k.primary /\ r = k.revocations /\ d = k.directs /\ ps = k.parts
  OBVIOUS
<1>5. k = [primary |-> a, revocations |-> r, directs |-> d, parts |-> ps]
  BY <1>4, KeyFields
<1>6. [k EXCEPT !.parts[c][n].signatures = x] =
         [primary |-> a, revocations |-> r, directs |-> d,
          parts |-> [ps EXCEPT ![c] = [ps[c] EXCEPT ![n] = [ps[c][n] EXCEPT !.signatures = x]]]]
  <2>1. PICK z : z = [ps EXCEPT ![c] = [ps[c] EXCEPT ![n] = [ps[c][n] EXCEPT !.signatures = x]]]
    OBVIOUS
  <2>2. [k EXCEPT !.parts[c][n].signatures = x] = [k EXCEPT !.parts = z]
    BY <1>4, <2>1, Zenon
  <2>3. [k EXCEPT !.parts = z] = [primary |-> a, revocations |-> r, directs |-> d, parts |-> z]
    BY <1>5, FieldsWith
  <2>4. QED
    BY <2>1, <2>2, <2>3, Zenon
<1>7. QED
  BY <1>3, <1>4, <1>6

\* The key a primary key packet starts: nothing else is in it yet.
LEMMA FreshKeyFacts ==
    ASSUME NEW p \in Item
    PROVE  /\ FreshKey(p) \in Key
           /\ FreshKey(p) = [primary |-> <<p>>, revocations |-> <<>>, directs |-> <<>>,
                             parts |-> [c \in Container |-> <<>>]]
<1>1. FreshKey(p) = [primary |-> <<p>>, revocations |-> <<>>, directs |-> <<>>,
                     parts |-> [c \in Container |-> <<>>]]
  BY DEF FreshKey, NoKey
<1>2. <<>> \in Seq(Item) /\ <<>> \in Seq(Part) /\ <<p>> \in Seq(Item)
  OBVIOUS
<1>3. QED
  BY <1>1, <1>2 DEF Key

\* A signature on the primary key is added.
AddRevocation(k, g) == [k EXCEPT !.revocations = Append(@, g)]
AddDirect(k, g) == [k EXCEPT !.directs = Append(@, g)]

\* PrimarySignature appends to one vector and leaves the rest alone.
LEMMA AddPrimaryFacts ==
    ASSUME NEW k \in Key, NEW g \in Item
    PROVE  /\ AddRevocation(k, g) \in Key
           /\ AddRevocation(k, g) = [primary |-> k.primary, revocations |-> Append(k.revocations, g),
                                     directs |-> k.directs, parts |-> k.parts]
           /\ AddDirect(k, g) \in Key
           /\ AddDirect(k, g) = [primary |-> k.primary, revocations |-> k.revocations,
                                 directs |-> Append(k.directs, g), parts |-> k.parts]
<1>1. /\ k = [primary |-> k.primary, revocations |-> k.revocations,
              directs |-> k.directs, parts |-> k.parts]
      /\ k.primary \in Seq(Item) /\ k.revocations \in Seq(Item) /\ k.directs \in Seq(Item)
      /\ k.parts \in [Container -> Seq(Part)]
  BY KeyFields
<1>2. Append(k.revocations, g) \in Seq(Item) /\ Append(k.directs, g) \in Seq(Item)
  BY <1>1
<1>3. AddRevocation(k, g) = [primary |-> k.primary, revocations |-> Append(k.revocations, g),
                             directs |-> k.directs, parts |-> k.parts]
  BY KeyWith DEF AddRevocation
<1>4. AddDirect(k, g) = [primary |-> k.primary, revocations |-> k.revocations,
                         directs |-> Append(k.directs, g), parts |-> k.parts]
  BY KeyWith DEF AddDirect
<1>5. QED
  BY <1>1, <1>2, <1>3, <1>4 DEF Key

\* A part is added.
NewPart(g) == [packet |-> g, signatures |-> <<>>]
AddPart(k, g) ==
    [primary |-> k.primary, revocations |-> k.revocations, directs |-> k.directs,
     parts |-> [k.parts EXCEPT ![g.tag] = Append(k.parts[g.tag], NewPart(g))]]

\* TakePart appends an unsigned part to the container of its tag.
LEMMA AddPartFacts ==
    ASSUME NEW k \in Key, NEW g \in Item, g.tag \in Container
    PROVE  /\ AddPart(k, g) \in Key
           /\ [k EXCEPT !.parts[g.tag] = Append(@, [packet |-> g, signatures |-> <<>>])] = AddPart(k, g)
           /\ NewPart(g) \in Part
           /\ AddPart(k, g).parts[g.tag] = Append(k.parts[g.tag], NewPart(g))
           /\ \A c \in Container : c # g.tag => AddPart(k, g).parts[c] = k.parts[c]
<1>1. /\ k = [primary |-> k.primary, revocations |-> k.revocations,
              directs |-> k.directs, parts |-> k.parts]
      /\ k.primary \in Seq(Item) /\ k.revocations \in Seq(Item) /\ k.directs \in Seq(Item)
      /\ k.parts \in [Container -> Seq(Part)]
      /\ \A c \in Container : k.parts[c] \in Seq(Part)
  BY KeyFields
<1>2. NewPart(g) \in Part
  BY DEF NewPart, Part
<1>3. Append(k.parts[g.tag], NewPart(g)) \in Seq(Part)
  BY <1>1, <1>2
<1>4. PICK ps : ps = [k.parts EXCEPT ![g.tag] = Append(k.parts[g.tag], NewPart(g))]
  OBVIOUS
<1>5. /\ ps \in [Container -> Seq(Part)]
      /\ ps[g.tag] = Append(k.parts[g.tag], NewPart(g))
      /\ \A c \in Container : c # g.tag => ps[c] = k.parts[c]
  BY <1>1, <1>3, <1>4
<1>6. AddPart(k, g).parts = ps /\ AddPart(k, g) \in Key
  BY <1>1, <1>4, <1>5 DEF AddPart, Key
<1>7. [k EXCEPT !.parts[g.tag] = Append(@, [packet |-> g, signatures |-> <<>>])] = AddPart(k, g)
  <2>1. PICK x : x = Append(k.parts[g.tag], [packet |-> g, signatures |-> <<>>])
    OBVIOUS
  <2>2. [k EXCEPT !.parts[g.tag] = x] =
           [primary |-> k.primary, revocations |-> k.revocations,
            directs |-> k.directs, parts |-> [k.parts EXCEPT ![g.tag] = x]]
    <3>1. PICK a, r, d, qs, t : /\ a = k.primary /\ r = k.revocations /\ d = k.directs
                                /\ qs = k.parts /\ t = g.tag
      OBVIOUS
    <3>2. k = [primary |-> a, revocations |-> r, directs |-> d, parts |-> qs]
      BY <3>1, KeyFields
    <3>3. [k EXCEPT !.parts[t] = x] =
             [primary |-> a, revocations |-> r, directs |-> d, parts |-> [qs EXCEPT ![t] = x]]
      BY <3>2
    <3>4. QED
      BY <3>1, <3>3
  <2>3. QED
    BY <2>1, <2>2 DEF AddPart, NewPart
<1>8. QED
  BY <1>2, <1>5, <1>6, <1>7

\* A signature is added to the last part of a container.
LastPart(k, c) == k.parts[c][Len(k.parts[c])]
Signed(part, g) == [packet |-> part.packet, signatures |-> Append(part.signatures, g)]
AddSignature(k, c, g) ==
    [primary |-> k.primary, revocations |-> k.revocations, directs |-> k.directs,
     parts |-> [k.parts EXCEPT ![c] = [k.parts[c] EXCEPT ![Len(k.parts[c])] = Signed(LastPart(k, c), g)]]]

\* The parts of l are those of k, but for the new signature g.
SignatureAdded(k, l, c, g) ==
    /\ \A d \in Container : /\ Len(l.parts[d]) = Len(k.parts[d])
                            /\ d # c => l.parts[d] = k.parts[d]
    /\ \A i \in 1..Len(k.parts[c]) :
          l.parts[c][i] = IF i = Len(k.parts[c]) THEN Signed(LastPart(k, c), g) ELSE k.parts[c][i]

\* PartSignature appends to the signatures of the last part of cur.
LEMMA AddSignatureFacts ==
    ASSUME NEW k \in Key, NEW g \in Item, NEW c \in Container, Len(k.parts[c]) > 0
    PROVE  /\ AddSignature(k, c, g) \in Key
           /\ [k EXCEPT !.parts[c][OpenPart(k.parts[c])].signatures = Append(@, g)] = AddSignature(k, c, g)
           /\ LastPart(k, c) \in Part /\ Signed(LastPart(k, c), g) \in Part
           /\ SignatureAdded(k, AddSignature(k, c, g), c, g)
<1>1. /\ k = [primary |-> k.primary, revocations |-> k.revocations,
              directs |-> k.directs, parts |-> k.parts]
      /\ k.primary \in Seq(Item) /\ k.revocations \in Seq(Item) /\ k.directs \in Seq(Item)
      /\ k.parts \in [Container -> Seq(Part)]
      /\ \A d \in Container : k.parts[d] \in Seq(Part) /\ Len(k.parts[d]) \in Nat
  BY KeyFields
<1>2. PICK ps \in Seq(Part), n \in Nat : ps = k.parts[c] /\ n = Len(ps) /\ n > 0 /\ n \in 1..Len(ps)
  BY <1>1
<1>3. PICK p \in Part : p = ps[n] /\ p = LastPart(k, c)
  BY <1>2 DEF LastPart
<1>4. p = [packet |-> p.packet, signatures |-> p.signatures] /\ p.packet \in Item /\ p.signatures \in Seq(Item)
  BY DEF Part
<1>5. Append(p.signatures, g) \in Seq(Item)
  BY <1>4
<1>6. Signed(p, g) \in Part
  BY <1>4, <1>5 DEF Signed, Part
<1>7. PICK qs : qs = [ps EXCEPT ![n] = Signed(p, g)]
  OBVIOUS
<1>8. /\ qs \in Seq(Part) /\ Len(qs) = n
      /\ \A i \in 1..n : qs[i] = IF i = n THEN Signed(p, g) ELSE ps[i]
  BY <1>2, <1>6, <1>7
<1>9. PICK f : f = [k.parts EXCEPT ![c] = qs]
  OBVIOUS
<1>10. f \in [Container -> Seq(Part)] /\ f[c] = qs /\ \A d \in Container : d # c => f[d] = k.parts[d]
  BY <1>1, <1>8, <1>9
<1>11. AddSignature(k, c, g) = [primary |-> k.primary, revocations |-> k.revocations,
                                directs |-> k.directs, parts |-> f]
  BY <1>2, <1>3, <1>7, <1>9 DEF AddSignature
<1>12. AddSignature(k, c, g) \in Key /\ AddSignature(k, c, g).parts = f
  BY <1>1, <1>10, <1>11 DEF Key
<1>13. [k EXCEPT !.parts[c][OpenPart(k.parts[c])].signatures = Append(@, g)] = AddSignature(k, c, g)
  <2>1. OpenPart(k.parts[c]) = n /\ n \in 1..Len(k.parts[c]) /\ k.parts[c][n] = p /\ Len(k.parts[c]) = n
    BY <1>2, <1>3 DEF OpenPart
  <2>2. PICK x : x = Append(p.signatures, g)
    OBVIOUS
  <2>3. Signed(p, g) = [packet |-> p.packet, signatures |-> x]
    BY <2>2 DEF Signed
  <2>4. [k EXCEPT !.parts[c][n].signatures = Append(@, g)] = [k EXCEPT !.parts[c][n].signatures = x]
    BY <2>1, <2>2
  <2>5. [k EXCEPT !.parts[c][n].signatures = x] =
           [primary |-> k.primary, revocations |-> k.revocations, directs |-> k.directs,
            parts |-> [k.parts EXCEPT ![c] =
                         [k.parts[c] EXCEPT ![n] = [packet |-> k.parts[c][n].packet, signatures |-> x]]]]
    BY <2>1, KeyWithSignatures
  <2>6. [k.parts[c] EXCEPT ![n] = [packet |-> k.parts[c][n].packet, signatures |-> x]] = qs
    BY <1>2, <1>7, <2>1, <2>3
  <2>7. QED
    BY <1>9, <1>11, <2>1, <2>4, <2>5, <2>6
<1>14. SignatureAdded(k, AddSignature(k, c, g), c, g)
  BY <1>2, <1>3, <1>8, <1>10, <1>12 DEF SignatureAdded
<1>15. QED
  BY <1>3, <1>6, <1>12, <1>13, <1>14

-----------------------------------------------------------------------------
(* Blocks                                                                  *)

\* What was read from the first part of a block was read from the block.
LEMMA SignedGrows ==
    ASSUME NEW s, NEW b \in Nat, NEW e \in Nat, NEW f \in Nat, e <= f,
           NEW g, NEW p, SignedIn(s, b, e, g, p)
    PROVE  SignedIn(s, b, f, g, p)
<1>1. \A o \in b..e : o \in b..f
  OBVIOUS
<1>2. QED
  BY <1>1 DEF SignedIn

\* Reading on takes no signature from its owner.
LEMMA AllSignedGrows ==
    ASSUME NEW s, NEW b \in Nat, NEW e \in Nat, NEW f \in Nat, e <= f,
           NEW gs, NEW p, AllSignedIn(s, b, e, gs, p)
    PROVE  AllSignedIn(s, b, f, gs, p)
BY SignedGrows DEF AllSignedIn

\* Nor a part from its block.
LEMMA PartsGrow ==
    ASSUME NEW s, NEW b \in Nat, NEW e \in Nat, NEW f \in Nat, e <= f,
           NEW ps, PartsIn(s, b, e, ps)
    PROVE  PartsIn(s, b, f, ps)
<1> SUFFICES ASSUME NEW i \in 1..Len(ps) PROVE PartIn(s, b, f, ps[i])
  BY DEF PartsIn
<1>1. PartIn(s, b, e, ps[i])
  BY DEF PartsIn
<1>2. \A o \in b..e : o \in b..f
  OBVIOUS
<1>3. AllSignedIn(s, b, f, ps[i].signatures, ps[i].packet)
  BY <1>1, AllSignedGrows DEF PartIn
<1>4. QED
  BY <1>1, <1>2, <1>3 DEF PartIn

\* Nor a key.
LEMMA KeyGrows ==
    ASSUME NEW s, NEW b \in Nat, NEW e \in Nat, NEW f \in Nat, e <= f,
           NEW k, KeyIn(s, b, e, k)
    PROVE  KeyIn(s, b, f, k)
<1>1. AllSignedIn(s, b, f, k.revocations, s[b]) /\ AllSignedIn(s, b, f, k.directs, s[b])
  BY AllSignedGrows DEF KeyIn
<1>2. \A c \in Container : PartsIn(s, b, f, k.parts[c])
  BY PartsGrow DEF KeyIn
<1>3. QED
  BY <1>1, <1>2 DEF KeyIn

\* One more signature on the same packet.
LEMMA AllSignedAppend ==
    ASSUME NEW s, NEW b, NEW e, NEW gs \in Seq(Item), NEW p, AllSignedIn(s, b, e, gs, p),
           NEW g \in Item, SignedIn(s, b, e, g, p)
    PROVE  AllSignedIn(s, b, e, Append(gs, g), p)
<1>1. /\ Len(Append(gs, g)) = Len(gs) + 1 /\ Len(gs) \in Nat
      /\ \A i \in 1..Len(gs) : Append(gs, g)[i] = gs[i]
      /\ Append(gs, g)[Len(gs) + 1] = g
  OBVIOUS
<1> SUFFICES ASSUME NEW i \in 1..(Len(gs) + 1) PROVE SignedIn(s, b, e, Append(gs, g)[i], p)
  BY <1>1 DEF AllSignedIn
<1>2. CASE i \in 1..Len(gs)
  BY <1>1, <1>2 DEF AllSignedIn
<1>3. CASE i = Len(gs) + 1
  BY <1>1, <1>3
<1>4. QED
  BY <1>1, <1>2, <1>3

\* One more packet of the block.
LEMMA BlockGrows ==
    ASSUME NEW s \in Seq(Item), NEW b \in Nat, NEW e \in Nat, Block(s, b, e),
           e + 1 <= Len(s), s[e + 1].tag \notin PrimaryTags
    PROVE  Block(s, b, e + 1)
<1>1. b <= e + 1 /\ e + 1 \in Nat /\ \A m \in (b + 1)..(e + 1) : m \in (b + 1)..e \/ m = e + 1
  BY DEF Block
<1>2. QED
  BY <1>1 DEF Block

\* One more signature behind a packet.
LEMMA RunGrows ==
    ASSUME NEW s, NEW o \in Nat, NEW e \in Nat, o <= e, Run(s, o, e), s[e + 1].tag = "Signature"
    PROVE  Run(s, o, e + 1)
<1>1. \A m \in (o + 1)..(e + 1) : m \in (o + 1)..e \/ m = e + 1
  OBVIOUS
<1>2. QED
  BY <1>1 DEF Run

\* A signature behind a run of signatures belongs to what the run follows.
LEMMA NextSigned ==
    ASSUME NEW s, NEW b \in Nat, NEW e \in Nat, NEW o \in b..e, Run(s, o, e),
           s[o].tag # "Signature", s[e + 1].tag = "Signature"
    PROVE  SignedIn(s, b, e + 1, s[e + 1], s[o])
<1>1. o \in Nat /\ o <= e /\ o \in b..(e + 1) /\ e + 1 \in b..(e + 1) /\ o < e + 1
  OBVIOUS
<1>2. Run(s, o, e + 1)
  BY <1>1, RunGrows
<1>3. QED
  BY <1>1, <1>2 DEF SignedIn

\* The constructors only drop.
LEMMA NewKeyIn ==
    ASSUME NEW s, NEW b \in Nat, NEW e \in Nat, NEW k \in Key, KeyIn(s, b, e, k)
    PROVE  KeyIn(s, b, e, NewKey(k))
<1>1. /\ NewKey(k).primary = k.primary /\ NewKey(k).revocations = k.revocations
      /\ NewKey(k).directs = k.directs
      /\ \A c \in Container : NewKey(k).parts[c] = SignedParts(KeptParts(k.parts[c], c))
  BY NewKeyFacts
<1>2. ASSUME NEW c \in Container PROVE PartsIn(s, b, e, NewKey(k).parts[c])
  <2>1. PICK ps \in Seq(Part) : ps = k.parts[c]
    BY KeyFields
  <2>2. PICK qs : qs = SignedParts(KeptParts(ps, c)) /\ qs = NewKey(k).parts[c]
    BY <1>1, <2>1
  <2>3. ASSUME NEW j \in 1..Len(qs) PROVE PartIn(s, b, e, qs[j])
    <3>0. \A l \in 1..Len(SignedParts(KeptParts(ps, c))) :
             \E i \in 1..Len(ps) : SignedParts(KeptParts(ps, c))[l] = KeptPart(ps[i], c)
      BY SignedPartsFacts
    <3>1. PICK i \in 1..Len(ps) : qs[j] = KeptPart(ps[i], c)
      BY <2>2, <3>0
    <3>2. PICK part \in Part : part = ps[i]
      OBVIOUS
    <3>3. PartIn(s, b, e, part)
      BY <2>1, <3>2 DEF KeyIn, PartsIn
    <3>4. part.signatures \in Seq(Item)
      BY DEF Part
    <3>5. PICK gs : gs = Retain(part.signatures, KeptTypes(c))
      OBVIOUS
    <3>6. qs[j].packet = part.packet /\ qs[j].signatures = gs
      BY <3>1, <3>2, <3>5 DEF KeptPart
    <3>7. \A l \in 1..Len(gs) : \E m \in 1..Len(part.signatures) : gs[l] = part.signatures[m]
      BY <3>4, <3>5, RetainFacts
    <3>8. AllSignedIn(s, b, e, gs, part.packet)
      BY <3>3, <3>7 DEF PartIn, AllSignedIn
    <3>9. QED
      BY <3>3, <3>6, <3>8 DEF PartIn
  <2>4. QED
    BY <2>2, <2>3 DEF PartsIn
<1>3. QED
  BY <1>1, <1>2 DEF KeyIn

-----------------------------------------------------------------------------
(* The invariant holds                                                     *)

\* What a result adds to what the consumer was given.
LEMMA OutGrows ==
    ASSUME out \in Seq(Result), HandedOut, NEW x \in Result, out' = Append(out, x),
           packets' = packets, x.r = "Ok" => FromBlock(packets, x.key)
    PROVE  out' \in Seq(Result) /\ HandedOut'
<1>1. /\ out' \in Seq(Result) /\ Len(out') = Len(out) + 1 /\ Len(out) \in Nat
      /\ \A i \in 1..Len(out) : out'[i] = out[i]
      /\ out'[Len(out) + 1] = x
  OBVIOUS
<1>2. ASSUME NEW n \in 1..Len(out'), out'[n].r = "Ok" PROVE FromBlock(packets, out'[n].key)
  <2>1. CASE n \in 1..Len(out)
    BY <1>1, <1>2, <2>1 DEF HandedOut
  <2>2. CASE n = Len(out) + 1
    BY <1>1, <1>2, <2>2
  <2>3. QED
    BY <1>1, <2>1, <2>2
<1>3. HandedOut'
  BY <1>2 DEF HandedOut
<1>4. QED
  BY <1>1, <1>3

\* An error result hands out no key.
LEMMA GiveErrKeeps ==
    ASSUME out \in Seq(Result), HandedOut, NEW cause \in Seq(Item), GiveErr(cause),
           packets' = packets
    PROVE  out' \in Seq(Result) /\ HandedOut'
<1>1. PICK x : x = [r |-> "Err", key |-> NoKey, cause |-> cause]
  OBVIOUS
<1>2. x \in Result /\ x.r # "Ok"
  BY <1>1, NoKeyType DEF Result
<1>3. out' = Append(out, x)
  BY <1>1 DEF GiveErr
<1>4. QED
  BY <1>2, <1>3, OutGrows

\* filter_parsed_packet_results delivers packets.
LEMMA DeliveredType ==
    ASSUME NEW x, x.written \in Seq(Item)
    PROVE  Delivered(x) \in Seq(Item)
<1>1. PICK P : P = { i \in DOMAIN x.written : x.written[i].id \notin x.ignored }
  OBVIOUS
<1>2. Delivered(x) = Select(x.written, P)
  BY <1>1 DEF Delivered
<1>3. QED
  BY <1>2, SelectFacts

\* An iterator that was never called has handed out nothing.
LEMMA InitKeeps == Init => KInv
<1> SUFFICES ASSUME Init PROVE KInv
  OBVIOUS
<1>1. input.written \in Seq(Item) /\ input.ignored \in SUBSET Nat /\ mode \in AllModes
  BY InputsAssumption, ModesAssumption DEF Init
<1>2. packets \in Seq(Item) /\ packets = Delivered(input)
  BY <1>1, DeliveredType DEF Init
<1>3. pos \in Nat /\ pos <= Len(packets)
  BY <1>2 DEF Init
<1>4. keyTag \in PrimaryTags /\ pc \notin Building /\ pc = "idle" /\ pc # "search"
  BY DEF Init, PrimaryTags, Building
<1>5. out \in Seq(Result) /\ Len(out) = 0 /\ key \in Key /\ first \in Key
  BY NoKeyType DEF Init
<1>6. TypeInv
  BY <1>1, <1>2, <1>3, <1>4, <1>5 DEF Init, TypeInv
<1>7. HandedOut
  BY <1>5 DEF HandedOut
<1>8. QED
  BY <1>4, <1>6, <1>7 DEF KInv, InProgress, SearchesFresh

\* next() begins, and looks for a primary key.
LEMMA CallKeeps ==
    ASSUME KInv, CallKeyParser \/ CallPubPriv
    PROVE  KInv'
<1> USE DEF KInv
<1>1. TypeInv /\ pc = "idle"
  BY DEF CallKeyParser, CallPubPriv
<1>2. UNCHANGED <<input, mode, packets, pos, key, round, first>>
  BY DEF CallKeyParser, CallPubPriv
<1>3. \/ /\ \E t \in PrimaryTags : Begin(t)
         /\ out' = out
      \/ /\ pc' = "idle" /\ keyTag' = keyTag /\ cur' = cur
         /\ PeekIn({"Err"}) /\ GiveErr(<<Peek>>)
      \/ /\ pc' = "exhausted" /\ keyTag' = keyTag /\ cur' = cur /\ out' = out
  <2>1. CASE CallKeyParser
    BY <2>1 DEF CallKeyParser, PrimaryTags
  <2>2. CASE CallPubPriv
    <3>1. CASE inner /\ PeekIn(PrimaryTags) /\ Begin(Peek.tag) /\ UNCHANGED <<inner, out>>
      BY <1>1, <3>1, PeekFacts
    <3>2. CASE inner /\ PeekIn({"Err"}) /\ GiveErr(<<Peek>>) /\ UNCHANGED <<pc, keyTag, cur>>
      BY <1>1, <3>2
    <3>3. CASE pc' = "exhausted" /\ UNCHANGED <<keyTag, cur, out>>
      BY <3>3
    <3>4. QED
      BY <2>2, <3>1, <3>2, <3>3 DEF CallPubPriv
  <2>3. QED
    BY <2>1, <2>2
<1>i. inner' \in BOOLEAN
  <2>1. CASE CallKeyParser
    BY <1>1, <2>1 DEF CallKeyParser, TypeInv
  <2>2. CASE CallPubPriv
    <3>1. CASE inner' = inner
      BY <1>1, <3>1 DEF TypeInv
    <3>2. CASE inner' = FALSE
      BY <3>2
    <3>3. CASE inner' = (inner /\ ~AtEnd)
      BY <1>1, <3>3 DEF TypeInv
    <3>4. QED
      BY <2>2, <3>1, <3>2, <3>3 DEF CallPubPriv
  <2>3. QED
    BY <2>1, <2>2
<1>4. CASE (\E t \in PrimaryTags : Begin(t)) /\ out' = out
  <2>1. pc' = "search" /\ keyTag' \in PrimaryTags /\ cur' = "none"
    BY <1>4 DEF Begin
  <2>2. TypeInv'
    BY <1>1, <1>2, <1>4, <1>i, <2>1 DEF TypeInv
  <2>3. HandedOut' /\ InProgress' /\ SearchesFresh'
    BY <1>2, <1>4, <2>1 DEF HandedOut, InProgress, SearchesFresh, Building
  <2>4. QED
    BY <2>2, <2>3
<1>5. CASE pc' = "idle" /\ keyTag' = keyTag /\ cur' = cur /\ PeekIn({"Err"}) /\ GiveErr(<<Peek>>)
  <2>1. <<Peek>> \in Seq(Item)
    BY <1>1, <1>5, PeekFacts
  <2>2. out' \in Seq(Result) /\ HandedOut'
    BY <1>1, <1>2, <1>5, <2>1, GiveErrKeeps DEF TypeInv
  <2>3. TypeInv'
    BY <1>1, <1>2, <1>5, <1>i, <2>2 DEF TypeInv
  <2>4. InProgress' /\ SearchesFresh'
    BY <1>5 DEF InProgress, SearchesFresh, Building
  <2>5. QED
    BY <2>2, <2>3, <2>4
<1>6. CASE pc' = "exhausted" /\ keyTag' = keyTag /\ cur' = cur /\ out' = out
  <2>1. TypeInv'
    BY <1>1, <1>2, <1>6, <1>i DEF TypeInv
  <2>2. HandedOut' /\ InProgress' /\ SearchesFresh'
    BY <1>2, <1>6 DEF HandedOut, InProgress, SearchesFresh, Building
  <2>3. QED
    BY <2>1, <2>2
<1>7. QED
  BY <1>3, <1>4, <1>5, <1>6

\* Looking for a primary key touches no key.
LEMMA SearchKeeps ==
    ASSUME KInv, SearchSkip \/ SearchErr \/ SearchEnd
    PROVE  KInv'
<1> USE DEF KInv
<1>1. TypeInv /\ pc = "search" /\ cur = "none"
  BY DEF SearchSkip, SearchErr, SearchEnd, SearchesFresh
<1>2. CASE SearchSkip
  <2>1. pos + 1 \in Nat /\ pos + 1 <= Len(packets)
    BY <1>1, <1>2, PeekFacts DEF SearchSkip
  <2>2. TypeInv'
    BY <1>1, <1>2, <2>1 DEF SearchSkip, TypeInv
  <2>3. HandedOut' /\ InProgress' /\ SearchesFresh'
    BY <1>1, <1>2 DEF SearchSkip, HandedOut, InProgress, SearchesFresh, Building
  <2>4. QED
    BY <2>2, <2>3
<1>3. CASE SearchErr
  <2>1. pos + 1 \in Nat /\ pos + 1 <= Len(packets) /\ <<Peek>> \in Seq(Item)
    BY <1>1, <1>3, PeekFacts DEF SearchErr
  <2>2. out' \in Seq(Result) /\ HandedOut'
    BY <1>1, <1>3, <2>1, GiveErrKeeps DEF SearchErr, TypeInv
  <2>3. TypeInv'
    BY <1>1, <1>3, <2>1, <2>2 DEF SearchErr, TypeInv
  <2>4. InProgress' /\ SearchesFresh'
    BY <1>3 DEF SearchErr, InProgress, SearchesFresh, Building
  <2>5. QED
    BY <2>2, <2>3, <2>4
<1>4. CASE SearchEnd
  <2>1. TypeInv'
    BY <1>1, <1>4 DEF SearchEnd, TypeInv
  <2>2. HandedOut' /\ InProgress' /\ SearchesFresh'
    BY <1>4 DEF SearchEnd, HandedOut, InProgress, SearchesFresh, Building
  <2>3. QED
    BY <2>1, <2>2
<1>5. QED
  BY <1>2, <1>3, <1>4

\* The primary key: the block begins.
LEMMA PrimaryKeeps ==
    ASSUME KInv, SearchPrimary
    PROVE  KInv'
<1> USE DEF KInv
<1>1. TypeInv /\ pc = "search" /\ cur = "none"
  BY DEF SearchPrimary, SearchesFresh
<1>2. PICK b \in Nat : /\ b = pos + 1 /\ b \in 1..Len(packets) /\ pos' = b
                       /\ Peek = packets[b] /\ Peek \in Item /\ Peek.tag = keyTag
  BY <1>1, PeekFacts DEF SearchPrimary
<1>3. /\ key' \in Key /\ key'.primary = <<packets[b]>> /\ key'.revocations = <<>>
      /\ key'.directs = <<>> /\ \A c \in Container : key'.parts[c] = <<>>
  BY <1>2, FreshKeyFacts DEF SearchPrimary
<1>4. Block(packets, b, b)
  <2>1. (b + 1)..b = {} /\ packets[b].tag \in PrimaryTags
    BY <1>1, <1>2 DEF TypeInv
  <2>2. QED
    BY <1>2, <2>1 DEF Block
<1>5. KeyIn(packets, b, b, key')
  <2>1. Len(<<>>) = 0 /\ 1..0 = {}
    OBVIOUS
  <2>2. QED
    BY <1>3, <2>1 DEF KeyIn, AllSignedIn, PartsIn
<1>6. Open(packets, b, b, key', "signatures", "none")
  BY <1>2 DEF Open, Run
<1>7. InProgress'
  <2>1. b \in 1..b
    BY <1>2
  <2>2. packets' = packets /\ pos' = b /\ pc' = "signatures" /\ cur' = "none"
    BY <1>1, <1>2 DEF SearchPrimary
  <2>3. QED
    BY <1>4, <1>5, <1>6, <2>1, <2>2 DEF InProgress
<1>8. TypeInv'
  BY <1>1, <1>2, <1>3 DEF SearchPrimary, TypeInv, Building
<1>9. HandedOut' /\ SearchesFresh'
  BY DEF SearchPrimary, HandedOut, SearchesFresh
<1>10. QED
  BY <1>7, <1>8, <1>9

\* The block the parser is in.
LEMMA CurrentBlock ==
    ASSUME KInv, pc \in Building
    PROVE  \E b \in Nat : /\ b \in 1..pos /\ Block(packets, b, pos)
                          /\ KeyIn(packets, b, pos, key)
                          /\ Open(packets, b, pos, key, pc, cur)
<1>1. PICK b \in 1..pos : /\ Block(packets, b, pos) /\ KeyIn(packets, b, pos, key)
                          /\ Open(packets, b, pos, key, pc, cur)
  BY DEF KInv, InProgress
<1>2. b \in Nat
  BY <1>1 DEF Block
<1>3. QED
  BY <1>1, <1>2

\* A signature right behind the primary key goes to the primary key.
LEMMA PrimarySignatureKeeps ==
    ASSUME KInv, PrimarySignature
    PROVE  KInv'
<1> USE DEF KInv
<1>1. TypeInv /\ pc = "signatures" /\ pc \in Building
  BY DEF PrimarySignature, Building
<1>2. PICK b \in Nat : /\ b \in 1..pos /\ Block(packets, b, pos) /\ KeyIn(packets, b, pos, key)
                       /\ Open(packets, b, pos, key, pc, cur)
  BY <1>1, CurrentBlock
<1>3. PICK e \in Nat : e = pos /\ e + 1 <= Len(packets) /\ pos' = e + 1
  BY <1>1, PeekFacts DEF PrimarySignature, TypeInv
<1>4. PICK g \in Item : g = Peek /\ g = packets[e + 1] /\ g.tag = "Signature"
  BY <1>1, <1>3, PeekFacts DEF PrimarySignature
<1>5. PICK s \in Seq(Item) : s = packets
  BY <1>1 DEF TypeInv
<1>6. Block(s, b, e) /\ KeyIn(s, b, e, key) /\ Open(s, b, e, key, "signatures", cur)
  BY <1>1, <1>2, <1>3, <1>5
<1>7. cur = "none" /\ Run(s, b, e) /\ b \in b..e /\ s[b].tag # "Signature"
      /\ s[e + 1].tag = "Signature" /\ g = s[e + 1] /\ e <= e + 1 /\ b <= e
  BY <1>2, <1>3, <1>4, <1>5, <1>6 DEF Open, Block, PrimaryTags
<1>8. Block(s, b, e + 1)
  BY <1>3, <1>5, <1>6, <1>7, BlockGrows DEF PrimaryTags
<1>9. SignedIn(s, b, e + 1, g, s[b])
  BY <1>7, NextSigned
<1>10. Run(s, b, e + 1)
  BY <1>7, RunGrows
<1>11. KeyIn(s, b, e + 1, key)
  BY <1>6, <1>7, KeyGrows
<1>12. key \in Key /\ key.revocations \in Seq(Item) /\ key.directs \in Seq(Item)
  BY <1>1, KeyFields DEF TypeInv
<1>13. key' \in Key /\ KeyIn(s, b, e + 1, key')
  <2>1. CASE g.typ = "KeyRevocation"
    <3>1. key' = AddRevocation(key, g)
      BY <1>4, <2>1 DEF PrimarySignature, AddRevocation
    <3>2. key' = [primary |-> key.primary, revocations |-> Append(key.revocations, g),
                  directs |-> key.directs, parts |-> key.parts] /\ key' \in Key
      BY <1>12, <3>1, AddPrimaryFacts
    <3>3. AllSignedIn(s, b, e + 1, Append(key.revocations, g), s[b])
      BY <1>9, <1>11, <1>12, AllSignedAppend DEF KeyIn
    <3>4. QED
      BY <1>11, <3>2, <3>3 DEF KeyIn
  <2>2. CASE g.typ # "KeyRevocation"
    <3>1. key' = AddDirect(key, g)
      BY <1>4, <2>2 DEF PrimarySignature, AddDirect
    <3>2. key' = [primary |-> key.primary, revocations |-> key.revocations,
                  directs |-> Append(key.directs, g), parts |-> key.parts] /\ key' \in Key
      BY <1>12, <3>1, AddPrimaryFacts
    <3>3. AllSignedIn(s, b, e + 1, Append(key.directs, g), s[b])
      BY <1>9, <1>11, <1>12, AllSignedAppend DEF KeyIn
    <3>4. QED
      BY <1>11, <3>2, <3>3 DEF KeyIn
  <2>3. QED
    BY <2>1, <2>2
<1>14. Open(s, b, e + 1, key', "signatures", "none")
  BY <1>10 DEF Open
<1>15. InProgress'
  <2>1. b \in 1..(e + 1)
    BY <1>2, <1>3
  <2>2. packets' = s /\ pos' = e + 1 /\ pc' = "signatures" /\ cur' = "none"
    BY <1>1, <1>3, <1>5, <1>7 DEF PrimarySignature
  <2>3. QED
    BY <1>8, <1>13, <1>14, <2>1, <2>2 DEF InProgress
<1>16. TypeInv'
  BY <1>1, <1>3, <1>13 DEF PrimarySignature, TypeInv
<1>17. HandedOut' /\ SearchesFresh'
  BY <1>1 DEF PrimarySignature, HandedOut, SearchesFresh
<1>18. QED
  BY <1>15, <1>16, <1>17

\* The loops end.
LEMMA LoopEndKeeps ==
    ASSUME KInv, PrimarySignaturesEnd \/ UsersEnd
    PROVE  KInv'
<1> USE DEF KInv
<1>1. /\ TypeInv /\ pc \in Building /\ pc' \in Building /\ pc' # "signatures" /\ pc' # "search"
      /\ UNCHANGED <<input, mode, packets, pos, keyTag, key, inner, out, round, first>>
      /\ cur' = cur \/ cur' = "none"
  BY DEF PrimarySignaturesEnd, UsersEnd, Building
<1>2. PICK b \in Nat : /\ b \in 1..pos /\ Block(packets, b, pos) /\ KeyIn(packets, b, pos, key)
                       /\ Open(packets, b, pos, key, pc, cur)
  BY <1>1, CurrentBlock
<1>3. Open(packets, b, pos, key, pc', cur')
  BY <1>1, <1>2 DEF Open
<1>4. InProgress'
  BY <1>1, <1>2, <1>3 DEF InProgress
<1>5. TypeInv'
  BY <1>1 DEF TypeInv
<1>6. HandedOut' /\ SearchesFresh'
  BY <1>1 DEF HandedOut, SearchesFresh
<1>7. QED
  BY <1>4, <1>5, <1>6

\* A part begins.
LEMMA TakePartKeeps ==
    ASSUME KInv, User \/ Subkey
    PROVE  KInv'
<1> USE DEF KInv
<1>1. /\ TypeInv /\ pc \in {"users", "subkeys"} /\ pc \in Building /\ TakePart
      /\ PeekIn(Container)
      /\ UNCHANGED <<input, mode, packets, pc, keyTag, inner, out, round, first>>
  <2>1. UserTags \subseteq Container /\ SubkeyTagsOf(keyTag) \subseteq Container
    BY DEF UserTags, SubkeyTagsOf, SubkeyTags, Container
  <2>2. QED
    BY <2>1 DEF User, Subkey, Building, PeekIn
<1>2. PICK b \in Nat : /\ b \in 1..pos /\ Block(packets, b, pos) /\ KeyIn(packets, b, pos, key)
                       /\ Open(packets, b, pos, key, pc, cur)
  BY <1>1, CurrentBlock
<1>3. PICK e \in Nat : e = pos /\ e + 1 <= Len(packets) /\ pos' = e + 1
  BY <1>1, PeekFacts DEF TakePart, TypeInv
<1>4. PICK g \in Item : g = Peek /\ g = packets[e + 1] /\ g.tag \in Container
  BY <1>1, <1>3, PeekFacts
<1>5. PICK s \in Seq(Item) : s = packets
  BY <1>1 DEF TypeInv
<1>6. Block(s, b, e) /\ KeyIn(s, b, e, key)
  BY <1>2, <1>3, <1>5
<1>7. s[e + 1] = g /\ g.tag \notin PrimaryTags /\ g.tag # "Signature" /\ e <= e + 1 /\ b <= e
      /\ e + 1 \in b..(e + 1)
  BY <1>4, <1>5, <1>6 DEF Container, PrimaryTags, Block
<1>8. Block(s, b, e + 1)
  BY <1>3, <1>5, <1>6, <1>7, BlockGrows
<1>9. KeyIn(s, b, e + 1, key)
  BY <1>6, <1>7, KeyGrows
<1>10. key \in Key /\ key.parts[g.tag] \in Seq(Part)
  BY <1>1, <1>4, KeyFields DEF TypeInv
<1>11. /\ key' = AddPart(key, g) /\ key' \in Key /\ NewPart(g) \in Part
       /\ key'.parts[g.tag] = Append(key.parts[g.tag], NewPart(g))
       /\ \A c \in Container : c # g.tag => key'.parts[c] = key.parts[c]
  <2>1. key' = [key EXCEPT !.parts[g.tag] = Append(@, [packet |-> g, signatures |-> <<>>])]
    BY <1>1, <1>4 DEF TakePart
  <2>2. /\ AddPart(key, g) \in Key
        /\ [key EXCEPT !.parts[g.tag] = Append(@, [packet |-> g, signatures |-> <<>>])] = AddPart(key, g)
        /\ NewPart(g) \in Part
        /\ AddPart(key, g).parts[g.tag] = Append(key.parts[g.tag], NewPart(g))
        /\ \A c \in Container : c # g.tag => AddPart(key, g).parts[c] = key.parts[c]
    BY <1>4, <1>10, AddPartFacts
  <2>3. key' = AddPart(key, g)
    BY <2>1, <2>2, Zenon
  <2>4. QED
    BY <2>2, <2>3, Zenon
<1>12. PartIn(s, b, e + 1, NewPart(g))
  BY <1>7 DEF PartIn, NewPart, AllSignedIn
<1>13. PICK ps \in Seq(Part), n \in Nat : ps = key.parts[g.tag] /\ n = Len(ps)
  BY <1>10
<1>14. /\ Len(key'.parts[g.tag]) = n + 1 /\ key'.parts[g.tag][n + 1] = NewPart(g)
       /\ \A i \in 1..n : key'.parts[g.tag][i] = ps[i]
  <2>1. PICK p \in Part : p = NewPart(g)
    BY <1>11
  <2>2. /\ Len(Append(ps, p)) = n + 1 /\ Append(ps, p)[n + 1] = p
        /\ \A i \in 1..n : Append(ps, p)[i] = ps[i]
    BY <1>13
  <2>3. key'.parts[g.tag] = Append(ps, p)
    BY <1>11, <1>13, <2>1
  <2>4. QED
    BY <2>1, <2>2, <2>3
<1>15. KeyIn(s, b, e + 1, key')
  <2>1. key'.primary = key.primary /\ key'.revocations = key.revocations /\ key'.directs = key.directs
    BY <1>11 DEF AddPart
  <2>2. ASSUME NEW c \in Container PROVE PartsIn(s, b, e + 1, key'.parts[c])
    <3>1. CASE c # g.tag
      BY <1>9, <1>11, <3>1 DEF KeyIn
    <3>2. CASE c = g.tag
      <4>1. \A i \in 1..n : PartIn(s, b, e + 1, ps[i])
        BY <1>9, <1>13, <2>2, <3>2 DEF KeyIn, PartsIn
      <4>2. \A i \in 1..(n + 1) : PartIn(s, b, e + 1, key'.parts[g.tag][i])
        <5> TAKE i \in 1..(n + 1)
        <5>1. CASE i \in 1..n
          BY <1>14, <4>1, <5>1
        <5>2. CASE i = n + 1
          BY <1>12, <1>14, <5>2
        <5>3. QED
          BY <5>1, <5>2
      <4>3. QED
        BY <1>14, <3>2, <4>2 DEF PartsIn
    <3>3. QED
      BY <3>1, <3>2
  <2>3. QED
    BY <1>9, <2>1, <2>2 DEF KeyIn
<1>16. Open(s, b, e + 1, key', pc, g.tag)
  <2>1. Run(s, e + 1, e + 1)
    BY DEF Run
  <2>2. key'.parts[g.tag][Len(key'.parts[g.tag])].packet = g /\ Len(key'.parts[g.tag]) > 0
    BY <1>14 DEF NewPart
  <2>3. pc # "signatures"
    BY <1>1
  <2>4. QED
    BY <1>7, <2>1, <2>2, <2>3 DEF Open
<1>17. InProgress'
  <2>1. b \in 1..(e + 1)
    BY <1>2, <1>3
  <2>2. packets' = s /\ pos' = e + 1 /\ pc' = pc /\ cur' = g.tag
    BY <1>1, <1>3, <1>4, <1>5 DEF TakePart
  <2>3. QED
    BY <1>8, <1>15, <1>16, <2>1, <2>2 DEF InProgress
<1>18. TypeInv'
  <2>1. cur' \in Container
    BY <1>1, <1>4 DEF TakePart
  <2>2. QED
    BY <1>1, <1>3, <1>11, <2>1 DEF TypeInv
<1>19. HandedOut' /\ SearchesFresh'
  BY <1>1 DEF HandedOut, SearchesFresh
<1>20. QED
  BY <1>17, <1>18, <1>19

\* A signature goes to the part it was written for.
LEMMA PartSignatureKeeps ==
    ASSUME KInv, PartSignature
    PROVE  KInv'
<1> USE DEF KInv
<1>1. /\ TypeInv /\ pc \in {"users", "subkeys"} /\ pc \in Building /\ cur # "none"
      /\ PeekIn({"Signature"})
      /\ UNCHANGED <<input, mode, packets, pc, keyTag, cur, inner, out, round, first>>
  BY DEF PartSignature, Building
<1>2. PICK b \in Nat : /\ b \in 1..pos /\ Block(packets, b, pos) /\ KeyIn(packets, b, pos, key)
                       /\ Open(packets, b, pos, key, pc, cur)
  BY <1>1, CurrentBlock
<1>3. PICK e \in Nat : e = pos /\ e + 1 <= Len(packets) /\ pos' = e + 1
  BY <1>1, PeekFacts DEF PartSignature, TypeInv
<1>4. PICK g \in Item : g = Peek /\ g = packets[e + 1] /\ g.tag = "Signature"
  BY <1>1, <1>3, PeekFacts
<1>5. PICK s \in Seq(Item), c \in Container : s = packets /\ c = cur
  BY <1>1 DEF TypeInv
<1>6. Block(s, b, e) /\ KeyIn(s, b, e, key) /\ Open(s, b, e, key, pc, c)
  BY <1>2, <1>3, <1>5
<1>7. s[e + 1] = g /\ g.tag \notin PrimaryTags /\ e <= e + 1 /\ b <= e /\ c # "none"
  BY <1>1, <1>4, <1>5, <1>6 DEF PrimaryTags, Block
<1>8. Block(s, b, e + 1)
  BY <1>3, <1>5, <1>6, <1>7, BlockGrows
<1>9. KeyIn(s, b, e + 1, key)
  BY <1>6, <1>7, KeyGrows
<1>10. PICK o \in b..e : /\ s[o] = LastPart(key, c).packet
                         /\ s[o].tag # "Signature" /\ Run(s, o, e)
  BY <1>6, <1>7 DEF Open, LastPart
<1>11. key \in Key /\ Len(key.parts[c]) > 0
  BY <1>1, <1>6, <1>7 DEF Open, TypeInv
<1>12. PICK ps \in Seq(Part), n \in Nat : ps = key.parts[c] /\ n = Len(ps) /\ n > 0
  BY <1>11, KeyFields
<1>13. PICK p \in Part : p = LastPart(key, c) /\ p = ps[n]
  BY <1>11, <1>12, AddSignatureFacts DEF LastPart
<1>14. /\ key' = AddSignature(key, c, g) /\ key' \in Key
       /\ \A d \in Container : /\ Len(key'.parts[d]) = Len(key.parts[d])
                               /\ d # c => key'.parts[d] = key.parts[d]
       /\ \A i \in 1..n : key'.parts[c][i] = IF i = n THEN Signed(p, g) ELSE ps[i]
  <2>1. key' = [key EXCEPT !.parts[c][OpenPart(key.parts[c])].signatures = Append(@, g)]
    BY <1>4, <1>5 DEF PartSignature
  <2>2. key' = AddSignature(key, c, g)
    BY <1>11, <2>1, AddSignatureFacts
  <2>3. AddSignature(key, c, g) \in Key /\ SignatureAdded(key, AddSignature(key, c, g), c, g)
    BY <1>11, AddSignatureFacts
  <2>4. key' \in Key /\ SignatureAdded(key, key', c, g)
    BY <2>2, <2>3, Zenon
  <2>5. \A i \in 1..n : key'.parts[c][i] = IF i = n THEN Signed(p, g) ELSE ps[i]
    BY <1>12, <1>13, <2>4 DEF SignatureAdded
  <2>6. QED
    BY <2>2, <2>4, <2>5 DEF SignatureAdded
<1>15. SignedIn(s, b, e + 1, g, p.packet)
  BY <1>4, <1>7, <1>10, <1>13, NextSigned
<1>16. PartIn(s, b, e + 1, Signed(p, g))
  <2>1. n \in 1..Len(ps)
    BY <1>12
  <2>2. PartIn(s, b, e + 1, p)
    BY <1>9, <1>12, <1>13, <2>1 DEF KeyIn, PartsIn
  <2>3. p.signatures \in Seq(Item)
    BY DEF Part
  <2>4. AllSignedIn(s, b, e + 1, Append(p.signatures, g), p.packet)
    BY <1>15, <2>2, <2>3, AllSignedAppend DEF PartIn
  <2>5. Signed(p, g).packet = p.packet /\ Signed(p, g).signatures = Append(p.signatures, g)
    BY DEF Signed
  <2>6. QED
    BY <2>2, <2>4, <2>5 DEF PartIn
<1>17. KeyIn(s, b, e + 1, key')
  <2>1. key'.primary = key.primary /\ key'.revocations = key.revocations /\ key'.directs = key.directs
    BY <1>14 DEF AddSignature
  <2>2. ASSUME NEW d \in Container PROVE PartsIn(s, b, e + 1, key'.parts[d])
    <3>1. CASE d # c
      BY <1>9, <1>14, <3>1 DEF KeyIn
    <3>2. CASE d = c
      <4>1. \A i \in 1..n : PartIn(s, b, e + 1, ps[i])
        BY <1>9, <1>12, <2>2, <3>2 DEF KeyIn, PartsIn
      <4>2. \A i \in 1..n : PartIn(s, b, e + 1, key'.parts[c][i])
        BY <1>14, <1>16, <4>1
      <4>3. Len(key'.parts[c]) = n
        BY <1>12, <1>14
      <4>4. QED
        BY <3>2, <4>2, <4>3 DEF PartsIn
    <3>3. QED
      BY <3>1, <3>2
  <2>3. QED
    BY <1>9, <2>1, <2>2 DEF KeyIn
<1>18. Open(s, b, e + 1, key', pc, c)
  <2>1. o \in b..(e + 1) /\ o \in Nat /\ o <= e
    BY <1>10
  <2>2. Run(s, o, e + 1)
    BY <1>4, <1>7, <1>10, <2>1, RunGrows
  <2>3. Len(key'.parts[c]) = n /\ n \in 1..n
    BY <1>12, <1>14
  <2>4. key'.parts[c][n] = Signed(p, g)
    BY <1>14, <2>3
  <2>5. s[o] = key'.parts[c][Len(key'.parts[c])].packet /\ Len(key'.parts[c]) > 0
    BY <1>10, <1>12, <1>13, <2>3, <2>4 DEF Signed
  <2>6. pc # "signatures"
    BY <1>1
  <2>7. QED
    BY <1>10, <2>1, <2>2, <2>5, <2>6 DEF Open
<1>19. InProgress'
  <2>1. b \in 1..(e + 1)
    BY <1>2, <1>3
  <2>2. packets' = s /\ pos' = e + 1 /\ pc' = pc /\ cur' = c
    BY <1>1, <1>3, <1>5 DEF PartSignature
  <2>3. QED
    BY <1>8, <1>17, <1>18, <2>1, <2>2 DEF InProgress
<1>20. TypeInv'
  BY <1>1, <1>3, <1>14 DEF TypeInv
<1>21. HandedOut' /\ SearchesFresh'
  BY <1>1 DEF HandedOut, SearchesFresh
<1>22. QED
  BY <1>19, <1>20, <1>21

\* The key is given up, or handed out.
LEMMA SubkeysOutKeeps ==
    ASSUME KInv, SubkeyRejected \/ SubkeysEnd
    PROVE  KInv'
<1> USE DEF KInv
<1>1. /\ TypeInv /\ pc = "subkeys" /\ pc \in Building /\ pc' = "idle"
      /\ UNCHANGED <<input, mode, packets, keyTag, key, cur, inner, round, first>>
  BY DEF SubkeyRejected, SubkeysEnd, Building
<1>2. pos' \in Nat /\ pos' <= Len(packets)
  <2>1. CASE SubkeyRejected
    BY <1>1, <2>1, PeekFacts DEF SubkeyRejected
  <2>2. CASE SubkeysEnd
    BY <1>1, <2>2 DEF SubkeysEnd, LeavesTheNext, TypeInv
  <2>3. QED
    BY <2>1, <2>2
<1>3. out' \in Seq(Result) /\ HandedOut'
  <2>1. CASE SubkeyRejected
    <3>1. <<>> \in Seq(Item)
      OBVIOUS
    <3>2. QED
      BY <1>1, <2>1, <3>1, GiveErrKeeps DEF SubkeyRejected, TypeInv
  <2>2. CASE SubkeysEnd
    <3>1. PICK b \in Nat : b \in 1..pos /\ Block(packets, b, pos) /\ KeyIn(packets, b, pos, key)
      BY <1>1, CurrentBlock
    <3>2. key \in Key /\ pos \in Nat
      BY <1>1 DEF TypeInv
    <3>3. NewKey(key) \in Key /\ KeyIn(packets, b, pos, NewKey(key))
      BY <3>1, <3>2, NewKeyFacts, NewKeyIn
    <3>4. FromBlock(packets, NewKey(key))
      BY <3>1, <3>2, <3>3 DEF FromBlock
    <3>5. PICK x : x = [r |-> "Ok", key |-> NewKey(key), cause |-> <<>>]
      OBVIOUS
    <3>6. x \in Result /\ x.key = NewKey(key)
      BY <3>3, <3>5 DEF Result
    <3>7. out' = Append(out, x)
      BY <2>2, <3>5 DEF SubkeysEnd
    <3>8. QED
      BY <1>1, <3>4, <3>6, <3>7, OutGrows DEF TypeInv
  <2>3. QED
    BY <2>1, <2>2
<1>4. TypeInv'
  BY <1>1, <1>2, <1>3 DEF TypeInv
<1>5. InProgress' /\ SearchesFresh'
  BY <1>1 DEF InProgress, SearchesFresh, Building
<1>6. QED
  BY <1>3, <1>4, <1>5

\* A key is written and parsed again.
LEMMA ReparseKeeps ==
    ASSUME KInv, Reparse
    PROVE  KInv'
<1> USE DEF KInv
<1>1. PICK i \in DOMAIN out : /\ out[i].r = "Ok" /\ first' = out[i].key
                              /\ packets' = Serialize(out[i].key)
                              /\ input' = [written |-> packets', ignored |-> {}]
  BY DEF Reparse
<1>2. TypeInv /\ out[i] \in Result
  BY DEF TypeInv
<1>3. first' \in Key
  BY <1>1, <1>2 DEF Result
<1>4. packets' \in Seq(Item)
  BY <1>1, <1>3, SerializeElems
<1>5. packets' = Delivered(input') /\ input'.written = packets' /\ input'.ignored = {}
  <2>1. input'.written = packets' /\ input'.ignored = {}
    BY <1>1
  <2>2. PICK P : P = { j \in DOMAIN packets' : packets'[j].id \notin {} }
    OBVIOUS
  <2>3. \A j \in 1..Len(packets') : j \in P
    BY <1>4, <2>2
  <2>4. Select(packets', P) = packets'
    BY <1>4, <2>3, SelectAll
  <2>5. QED
    BY <2>1, <2>2, <2>4 DEF Delivered
<1>6. pos' \in Nat /\ pos' <= Len(packets')
  BY <1>4 DEF Reparse
<1>7. /\ pc' = "idle" /\ out' = <<>> /\ inner' = TRUE /\ round' = 2
      /\ UNCHANGED <<mode, keyTag, key, cur>>
  BY DEF Reparse
<1>8. TypeInv'
  BY <1>2, <1>3, <1>4, <1>5, <1>6, <1>7 DEF TypeInv
<1>9. InProgress' /\ SearchesFresh' /\ HandedOut'
  BY <1>7 DEF InProgress, SearchesFresh, HandedOut, Building
<1>10. QED
  BY <1>8, <1>9

\* What holds of every key in progress and of every key handed out: it is read
\* from a block of its own, and each signature lies behind what it is attached to.
THEOREM KInvHolds == Spec => []KInv
<1>1. KInv /\ [Next]_vars => KInv'
  <2> SUFFICES ASSUME KInv, [Next]_vars PROVE KInv'
    OBVIOUS
  <2>1. CASE UNCHANGED vars
    BY <2>1 DEF vars, KInv, TypeInv, SearchesFresh, InProgress, HandedOut
  <2>2. CASE Next
    BY <2>2, CallKeeps, SearchKeeps, PrimaryKeeps, PrimarySignatureKeeps, LoopEndKeeps,
       TakePartKeeps, PartSignatureKeeps, SubkeysOutKeeps, ReparseKeeps DEF Next
  <2>3. QED
    BY <2>1, <2>2
<1>2. QED
  BY <1>1, InitKeeps, PTL DEF Spec

-----------------------------------------------------------------------------
(* Keys hold their own packets only                                        *)

\* The least element of a set of numbers.
LEMMA MinFacts ==
    ASSUME NEW T \in SUBSET Nat, T # {}
    PROVE  Min(T) \in T /\ \A y \in T : Min(T) <= y
<1>1. \E x \in T : \A y \in T : x <= y
  BY LeastExists
<1>2. QED
  BY <1>1 DEF Min

\* The greatest element, when it is known.
LEMMA MaxIs ==
    ASSUME NEW T \in SUBSET Nat, NEW x \in T, \A y \in T : y <= x
    PROVE  Max(T) = x
<1>1. \A y \in T : x >= y
  OBVIOUS
<1>2. Max(T) \in T /\ \A y \in T : Max(T) >= y
  BY <1>1 DEF Max
<1>3. Max(T) \in Nat /\ x \in Nat /\ Max(T) >= x /\ Max(T) <= x
  BY <1>1, <1>2
<1>4. QED
  BY <1>3

\* A block ends before the next primary key.
LEMMA BlockEndBehind ==
    ASSUME NEW s \in Seq(Item), NEW b \in Nat, NEW e \in Nat, Block(s, b, e)
    PROVE  BlockEnd(s, b) \in Nat /\ e <= BlockEnd(s, b) - 1
<1>1. PICK n \in Nat : n = Len(s)
  OBVIOUS
<1>2. 1 <= b /\ b <= e /\ e <= n /\ \A m \in (b + 1)..e : s[m].tag \notin PrimaryTags
  BY <1>1 DEF Block
<1> DEFINE T == { j \in (b + 1)..(Len(s) + 1) : j = Len(s) + 1 \/ s[j].tag \in PrimaryTags }
<1>3. T \in SUBSET Nat
  OBVIOUS
<1>4. n + 1 \in T
  BY <1>1, <1>2
<1>5. \A j \in T : j >= e + 1
  <2> TAKE j \in T
  <2>1. j \in (b + 1)..(n + 1) /\ (j = n + 1 \/ s[j].tag \in PrimaryTags)
    BY <1>1
  <2>2. j \notin (b + 1)..e
    BY <1>2, <2>1
  <2>3. QED
    BY <1>2, <2>1, <2>2
<1>6. BlockEnd(s, b) = Min(T)
  BY DEF BlockEnd
<1> HIDE DEF T
<1>7. Min(T) \in T
  BY <1>3, <1>4, MinFacts
<1>8. Min(T) \in Nat /\ Min(T) >= e + 1
  BY <1>3, <1>5, <1>7
<1>9. QED
  BY <1>6, <1>8

\* Every packet of a key lies in its block.
LEMMA KeyElemsIn ==
    ASSUME NEW s \in Seq(Item), NEW b \in Nat, NEW e \in Nat, Block(s, b, e),
           NEW k \in Key, KeyIn(s, b, e, k), NEW p, Elem(p, Serialize(k))
    PROVE  \E j \in b..e : s[j] = p
<1>1. \A gs, x : AllSignedIn(s, b, e, gs, x) /\ Elem(p, gs) => \E j \in b..e : s[j] = p
  BY DEF AllSignedIn, SignedIn, Elem
<1>2. CASE Elem(p, k.primary)
  <2>1. p = s[b]
    BY <1>2 DEF Elem, KeyIn
  <2>2. b \in b..e
    BY DEF Block
  <2>3. QED
    BY <2>1, <2>2
<1>3. CASE Elem(p, k.revocations) \/ Elem(p, k.directs)
  BY <1>1, <1>3 DEF KeyIn
<1>4. ASSUME NEW c \in Container, PartElem(p, k.parts[c])
      PROVE  \E j \in b..e : s[j] = p
  <2>1. PICK i \in 1..Len(k.parts[c]) :
           p = k.parts[c][i].packet \/ Elem(p, k.parts[c][i].signatures)
    BY <1>4 DEF PartElem
  <2>2. PartIn(s, b, e, k.parts[c][i])
    BY DEF KeyIn, PartsIn
  <2>3. QED
    BY <1>1, <2>1, <2>2 DEF PartIn
<1>5. QED
  BY <1>2, <1>3, <1>4, SerializeElems

\* A returned key holds only packets of its own block.
LEMMA OneBlockFollows == KInv => OneBlock
<1> SUFFICES ASSUME KInv, NEW n \in DOMAIN out, out[n].r = "Ok"
             PROVE  \E i \in DOMAIN packets :
                       /\ <<packets[i]>> = out[n].key.primary
                       /\ \A p \in ToSet(Serialize(out[n].key)) :
                             \E j \in i..(BlockEnd(packets, i) - 1) : packets[j] = p
  BY DEF OneBlock
<1>1. packets \in Seq(Item) /\ out \in Seq(Result)
  BY DEF KInv, TypeInv
<1>2. n \in 1..Len(out) /\ out[n] \in Result
  BY <1>1
<1>3. PICK k \in Key : k = out[n].key
  BY <1>2 DEF Result
<1>4. PICK b \in Nat, e \in Nat : Block(packets, b, e) /\ KeyIn(packets, b, e, k)
  BY <1>2, <1>3 DEF KInv, HandedOut, FromBlock
<1>5. b \in DOMAIN packets /\ <<packets[b]>> = k.primary
  BY <1>1, <1>4 DEF Block, KeyIn
<1>6. ASSUME NEW p \in ToSet(Serialize(k))
      PROVE  \E j \in b..(BlockEnd(packets, b) - 1) : packets[j] = p
  <2>1. Serialize(k) \in Seq(Item)
    BY SerializeElems
  <2>2. Elem(p, Serialize(k))
    BY <2>1 DEF ToSet, Elem
  <2>3. PICK j \in b..e : packets[j] = p
    BY <1>1, <1>4, <2>2, KeyElemsIn
  <2>4. BlockEnd(packets, b) \in Nat /\ e <= BlockEnd(packets, b) - 1
    BY <1>1, <1>4, BlockEndBehind
  <2>5. j \in b..(BlockEnd(packets, b) - 1)
    BY <2>3, <2>4
  <2>6. QED
    BY <2>3, <2>5
<1>7. QED
  BY <1>3, <1>5, <1>6

\* Where only signatures are ignored, a signature that follows a packet in what
\* is delivered has that packet as its owner in what was written.
LEMMA OwnerKept ==
    ASSUME TypeInv, NEW b \in Nat, NEW e \in Nat, Block(packets, b, e),
           \A i \in DOMAIN input.written :
              input.written[i].id \in input.ignored => input.written[i].tag = "Signature",
           NEW g, NEW p, SignedIn(packets, b, e, g, p)
    PROVE  OwnedBy(g, p)
<1>1. PICK w \in Seq(Item) : w = input.written
  BY DEF TypeInv
<1>2. PICK s \in Seq(Item) : s = packets
  BY DEF TypeInv
<1>3. PICK P : P = { i \in DOMAIN w : w[i].id \notin input.ignored }
  OBVIOUS
<1>4. s = Select(w, P)
  BY <1>1, <1>2, <1>3 DEF TypeInv, Delivered
<1>5. PICK h : ComesFrom(h, s, w, P, Len(w))
  BY <1>4, SelectPlaces
<1>6. PICK l \in Nat, n \in Nat : l = Len(w) /\ n = Len(s)
  OBVIOUS
<1>7. /\ h \in [1..n -> 1..l]
      /\ \A j \in 1..n : h[j] \in P /\ s[j] = w[h[j]]
      /\ \A i, j \in 1..n : i < j => h[i] < h[j]
      /\ \A i \in 1..l : i \in P => \E j \in 1..n : h[j] = i
  BY <1>5, <1>6 DEF ComesFrom
<1>8. PICK o \in b..e, j \in b..e : /\ o < j /\ s[o] = p /\ s[j] = g
                                    /\ s[o].tag # "Signature" /\ Run(s, o, j)
  BY <1>2 DEF SignedIn
<1>9. o \in 1..n /\ j \in 1..n /\ o \in Nat /\ j \in Nat
  BY <1>2, <1>6, <1>8 DEF Block
<1>10. PICK x \in 1..l, y \in 1..l : x = h[o] /\ y = h[j] /\ x < y /\ w[x] = p /\ w[y] = g
  <2>1. h[o] \in 1..l /\ h[j] \in 1..l /\ h[o] < h[j]
    BY <1>7, <1>8, <1>9
  <2>2. w[h[o]] = p /\ w[h[j]] = g
    BY <1>7, <1>8, <1>9
  <2>3. QED
    BY <2>1, <2>2
<1>11. w[x].tag # "Signature"
  BY <1>7, <1>8, <1>9, <1>10
<1>12. ASSUME NEW m \in 1..l, x < m, m < y PROVE w[m].tag = "Signature"
  <2>1. CASE m \in P
    <3>1. PICK t \in 1..n : h[t] = m
      BY <1>7, <2>1
    <3>2. ~(t <= o)
      <4>1. CASE t = o
        BY <1>10, <1>12, <3>1, <4>1
      <4>2. CASE t < o
        <5>1. h[t] < h[o]
          BY <1>7, <1>9, <4>2
        <5>2. m < x /\ x \in Nat /\ m \in Nat
          BY <1>10, <3>1, <5>1
        <5>3. QED
          BY <1>12, <5>2
      <4>3. QED
        BY <1>9, <4>1, <4>2
    <3>3. ~(t >= j)
      <4>1. CASE t = j
        BY <1>10, <1>12, <3>1, <4>1
      <4>2. CASE j < t
        <5>1. h[j] < h[t]
          BY <1>7, <1>9, <4>2
        <5>2. y < m /\ y \in Nat /\ m \in Nat
          BY <1>10, <3>1, <5>1
        <5>3. QED
          BY <1>12, <5>2
      <4>3. QED
        BY <1>9, <4>1, <4>2
    <3>4. t \in (o + 1)..j
      BY <1>9, <3>2, <3>3
    <3>5. s[t].tag = "Signature"
      BY <1>8, <3>4 DEF Run
    <3>6. s[t] = w[m]
      BY <1>7, <3>1
    <3>7. QED
      BY <3>5, <3>6
  <2>2. CASE m \notin P
    <3>1. m \in DOMAIN w /\ w[m].id \in input.ignored
      BY <1>3, <1>6, <2>2
    <3>2. QED
      BY <1>1, <3>1
  <2>3. QED
    BY <2>1, <2>2
<1> DEFINE T == { m \in 1..y : m < y /\ w[m].tag # "Signature" }
<1>13. T \in SUBSET Nat /\ x \in T
  BY <1>10, <1>11
<1>14. ASSUME NEW m \in T PROVE m <= x
  <2>1. m \in 1..l /\ m < y /\ w[m].tag # "Signature" /\ m \in Nat /\ x \in Nat
    <3>1. m \in 1..y /\ m < y /\ w[m].tag # "Signature"
      OBVIOUS
    <3>2. QED
      BY <1>6, <3>1
  <2>2. ~(x < m)
    BY <1>12, <2>1
  <2>3. QED
    BY <2>1, <2>2
<1>15. Owner(w, y) = p
  <2>1. Owner(w, y) = w[Max(T)]
    BY DEF Owner
  <2> HIDE DEF T
  <2>2. Max(T) = x
    BY <1>13, <1>14, MaxIs
  <2>3. QED
    BY <1>10, <2>1, <2>2
<1>16. y > 1 /\ y \in DOMAIN w
  BY <1>6, <1>10
<1>17. \E m \in 1..y : m < y /\ w[m].tag # "Signature"
  BY <1>10, <1>11
<1>18. QED
  BY <1>1, <1>10, <1>15, <1>16, <1>17 DEF OwnedBy

\* Every signature of a returned key is attached to the packet it was written
\* for, if only signatures are ignored.
LEMMA SignaturesFollow == KInv => SignaturesStayWithOwner
<1> SUFFICES ASSUME KInv, \A i \in DOMAIN input.written :
                        input.written[i].id \in input.ignored => input.written[i].tag = "Signature",
                    NEW n \in DOMAIN out, out[n].r = "Ok"
             PROVE  Attributed(out[n].key)
  BY DEF SignaturesStayWithOwner
<1>1. TypeInv /\ out \in Seq(Result)
  BY DEF KInv, TypeInv
<1>2. n \in 1..Len(out) /\ out[n] \in Result
  BY <1>1
<1>3. PICK k \in Key : k = out[n].key
  BY <1>2 DEF Result
<1>4. PICK b \in Nat, e \in Nat : Block(packets, b, e) /\ KeyIn(packets, b, e, k)
  BY <1>2, <1>3 DEF KInv, HandedOut, FromBlock
<1>5. \A g, p : SignedIn(packets, b, e, g, p) => OwnedBy(g, p)
  BY <1>1, <1>4, OwnerKept
<1>6. k.primary[1] = packets[b]
  BY <1>4 DEF KeyIn
<1>7. k.revocations \in Seq(Item) /\ k.directs \in Seq(Item)
  BY KeyFields
<1>8. \A i \in DOMAIN k.revocations : OwnedBy(k.revocations[i], k.primary[1])
  BY <1>4, <1>5, <1>6, <1>7 DEF KeyIn, AllSignedIn
<1>9. \A i \in DOMAIN k.directs : OwnedBy(k.directs[i], k.primary[1])
  BY <1>4, <1>5, <1>6, <1>7 DEF KeyIn, AllSignedIn
<1>10. ASSUME NEW c \in Container, NEW i \in DOMAIN k.parts[c],
              NEW j \in DOMAIN k.parts[c][i].signatures
       PROVE  OwnedBy(k.parts[c][i].signatures[j], k.parts[c][i].packet)
  <2>1. PICK ps \in Seq(Part) : ps = k.parts[c]
    BY KeyFields
  <2>2. i \in 1..Len(ps) /\ ps[i] \in Part
    BY <2>1
  <2>3. PICK part \in Part : part = ps[i]
    BY <2>2
  <2>4. PartIn(packets, b, e, part)
    BY <1>4, <2>1, <2>2, <2>3 DEF KeyIn, PartsIn
  <2>5. part.signatures \in Seq(Item) /\ j \in 1..Len(part.signatures)
    BY <2>1, <2>3 DEF Part
  <2>6. SignedIn(packets, b, e, part.signatures[j], part.packet)
    BY <2>4, <2>5 DEF PartIn, AllSignedIn
  <2>7. QED
    BY <1>5, <2>1, <2>3, <2>6
<1>11. QED
  BY <1>3, <1>8, <1>9, <1>10 DEF Attributed

\* A key never takes a packet of its neighbours, nor a part of it a signature of
\* another part, whatever the packets and the iterator (key_parser_macros.rs).
THEOREM OwnPacketsOnlyHolds == Spec => []OwnPacketsOnly
<1>1. KInv => OwnPacketsOnly
  BY OneBlockFollows, SignaturesFollow DEF OwnPacketsOnly
<1>2. QED
  BY <1>1, KInvHolds, PTL

-----------------------------------------------------------------------------
(* Writing a key and parsing it again.                                     *)
(*                                                                         *)
(* RoundTrip speaks of the end of the second round.  ShapeInv says what    *)
(* the parser and the constructors guarantee of a key beside where its     *)
(* packets come from: kinds, types and order (Shape).  Rereads says how    *)
(* much of the written key has been read again: its first packets, a       *)
(* container being full before the next begins.                            *)

AllSignatures(gs) == \A i \in 1..Len(gs) : gs[i].tag = "Signature"
AllOfTypes(gs, types) == \A i \in 1..Len(gs) : gs[i].typ \in types

\* A key of the kind tag, with parts of the kinds it may have.
RawShape(k, tag) ==
    /\ Len(k.primary) = 1 /\ k.primary[1].tag = tag
    /\ AllSignatures(k.revocations) /\ AllOfTypes(k.revocations, {"KeyRevocation"})
    /\ AllSignatures(k.directs) /\ AllOfTypes(k.directs, SigType \ {"KeyRevocation"})
    /\ \A c \in Container : \A i \in 1..Len(k.parts[c]) :
          k.parts[c][i].packet.tag = c /\ AllSignatures(k.parts[c][i].signatures)
    /\ \A c \in SubkeyTags : Len(k.parts[c]) > 0 => c \in SubkeyTagsOf(tag) /\ k.primary[1].v4

\* ... and all of them signed in the way it takes.
Shape(k, tag) ==
    /\ RawShape(k, tag)
    /\ \A c \in Container : \A i \in 1..Len(k.parts[c]) :
          /\ Len(k.parts[c][i].signatures) > 0
          /\ AllOfTypes(k.parts[c][i].signatures, KeptTypes(c))

ShapesOut ==
    \A n \in 1..Len(out) : out[n].r = "Ok" => \E t \in Wanted : Shape(out[n].key, t)

ShapeInv ==
    /\ pc \in {"search"} \cup Building => keyTag \in Wanted
    /\ pc \in Building => RawShape(key, keyTag)
    /\ ShapesOut

\* The containers in the order in which they are written.
Order == <<"UserId", "UserAttribute", "PublicSubkey", "SecretSubkey">>

Size(k, x) == Len(SerializeParts(k.parts[Order[x]]))

\* How much is written before the x-th container.
Base(k, x) ==
    LET head == 1 + Len(k.revocations) + Len(k.directs) IN
    CASE x = 1 -> head
      [] x = 2 -> head + Size(k, 1)
      [] x = 3 -> head + Size(k, 1) + Size(k, 2)
      [] x = 4 -> head + Size(k, 1) + Size(k, 2) + Size(k, 3)
      [] x = 5 -> head + Size(k, 1) + Size(k, 2) + Size(k, 3) + Size(k, 4)

WrittenParts(ps) == [i \in DOMAIN ps |-> PartPackets(ps[i])]

\* How much of a container is written before its parts.
Starts(ps) ==
    CHOOSE at \in [0..Len(ps) -> Nat] :
       at[0] = 0 /\ Layout(at, SerializeParts(ps), WrittenParts(ps), Len(ps))

\* How much is written before the i-th part of the x-th container.
Place(f, x, i) == Base(f, x) + Starts(f.parts[Order[x]])[i - 1]

FirstOf(a, b) == Len(a) <= Len(b) /\ \A i \in 1..Len(a) : a[i] = b[i]

SameHead(k, f) ==
    k.primary = f.primary /\ k.revocations = f.revocations /\ k.directs = f.directs

\* k has the containers before the x-th, and no part of the others.
Upto(k, f, x) ==
    \A y \in 1..4 : (y < x => k.parts[Order[y]] = f.parts[Order[y]])
                    /\ (y > x => k.parts[Order[y]] = <<>>)

\* The parser of f stands before the x-th container, with k.
Before(f, k, p, x) ==
    /\ SameHead(k, f) /\ Upto(k, f, x)
    /\ x < 5 => k.parts[Order[x]] = <<>>
    /\ p = Base(f, x)

\* It stands in the i-th part of the x-th container, behind m signatures.
Inside(f, k, p, x, i, m) ==
    LET ps == f.parts[Order[x]]
        qs == k.parts[Order[x]] IN
    /\ SameHead(k, f) /\ Upto(k, f, x)
    /\ i <= Len(ps) /\ Len(qs) = i
    /\ \A l \in 1..i : l < i => qs[l] = ps[l]
    /\ qs[i].packet = ps[i].packet
    /\ Len(qs[i].signatures) = m /\ FirstOf(qs[i].signatures, ps[i].signatures)
    /\ p = Place(f, x, i) + 1 + m

\* The same, with the containers named.
LEMMA InsideIs ==
    ASSUME NEW f, NEW k, NEW p, NEW x, NEW i, NEW m,
           NEW ps, ps = f.parts[Order[x]], NEW qs, qs = k.parts[Order[x]],
           SameHead(k, f), Upto(k, f, x), i <= Len(ps), Len(qs) = i,
           \A l \in 1..i : l < i => qs[l] = ps[l],
           qs[i].packet = ps[i].packet,
           Len(qs[i].signatures) = m, FirstOf(qs[i].signatures, ps[i].signatures),
           p = Place(f, x, i) + 1 + m
    PROVE  Inside(f, k, p, x, i, m)
BY DEF Inside

\* It stands among the signatures on the primary key.
InHead(f, k, p) ==
    /\ k.primary = f.primary
    /\ FirstOf(k.revocations, f.revocations) /\ FirstOf(k.directs, f.directs)
    /\ Len(k.directs) > 0 => k.revocations = f.revocations
    /\ \A c \in Container : k.parts[c] = <<>>
    /\ p = 1 + Len(k.revocations) + Len(k.directs)

\* Where the loops of next() may stand: the users are the first two containers,
\* the subkeys the others.
InLoop(f, k, p, c, lo) ==
    \/ c = "none" /\ Before(f, k, p, lo)
    \/ \E x \in {lo, lo + 1} : c = Order[x] /\ \E i, m \in Nat : i >= 1 /\ Inside(f, k, p, x, i, m)

ReadAgain == <<[r |-> "Ok", key |-> first, cause |-> <<>>]>>

Rereading(t) ==
    /\ pc \in {"search"} \cup Building => keyTag = t
    /\ pc \in {"idle", "search"} => pos = 0 /\ inner
    /\ pc = "signatures" => InHead(first, key, pos)
    /\ pc = "users" => InLoop(first, key, pos, cur, 1)
    /\ pc = "subkeys" => InLoop(first, key, pos, cur, 3)
    /\ pc # "exhausted"

Rereads ==
    round = 2 =>
       /\ packets = Serialize(first)
       /\ \E t \in Wanted : /\ Shape(first, t)
                            /\ out = <<>> => Rereading(t)
       /\ out # <<>> => /\ out = ReadAgain /\ pos = Len(packets)
                        /\ pc \in {"idle", "search", "exhausted"}

RInv == KInv /\ ShapeInv /\ Rereads

-----------------------------------------------------------------------------
(* The shape of keys                                                       *)

\* Which primary keys an iterator returns.
LEMMA WantedFacts ==
    ASSUME TypeInv
    PROVE  /\ Wanted \subseteq PrimaryTags
           /\ mode = "SignedPublicKeyParser" => Wanted = {"PublicKey"}
           /\ mode # "SignedPublicKeyParser" /\ mode # "PubPrivIterator" => Wanted = {"SecretKey"}
           /\ mode = "PubPrivIterator" => Wanted = PrimaryTags
<1>1. \/ mode = "SignedPublicKeyParser" \/ mode = "SignedSecretKeyParser" \/ mode = "PubPrivIterator"
  BY DEF TypeInv, AllModes
<1>2. CASE mode = "SignedPublicKeyParser"
  BY <1>2 DEF Wanted, PrimaryTags
<1>3. CASE mode = "SignedSecretKeyParser"
  BY <1>3 DEF Wanted, PrimaryTags
<1>4. CASE mode = "PubPrivIterator"
  BY <1>4 DEF Wanted, PrimaryTags
<1>5. QED
  BY <1>1, <1>2, <1>3, <1>4

\* What holds of all signatures holds with one more.
LEMMA AllAppend ==
    ASSUME NEW gs \in Seq(Item), NEW g \in Item, NEW types
    PROVE  /\ AllSignatures(gs) /\ g.tag = "Signature" => AllSignatures(Append(gs, g))
           /\ AllOfTypes(gs, types) /\ g.typ \in types => AllOfTypes(Append(gs, g), types)
<1>1. /\ Len(Append(gs, g)) = Len(gs) + 1 /\ Len(gs) \in Nat
      /\ \A i \in 1..Len(gs) : Append(gs, g)[i] = gs[i]
      /\ Append(gs, g)[Len(gs) + 1] = g
      /\ \A i \in 1..(Len(gs) + 1) : i \in 1..Len(gs) \/ i = Len(gs) + 1
  OBVIOUS
<1>2. QED
  BY <1>1 DEF AllSignatures, AllOfTypes

\* A key that was just started has the shape of a key.
LEMMA RawFresh ==
    ASSUME NEW p \in Item
    PROVE  RawShape(FreshKey(p), p.tag)
<1>1. FreshKey(p) = [primary |-> <<p>>, revocations |-> <<>>, directs |-> <<>>,
                     parts |-> [c \in Container |-> <<>>]]
  BY FreshKeyFacts
<1>2. Len(<<>>) = 0 /\ 1..0 = {} /\ Len(<<p>>) = 1 /\ <<p>>[1] = p /\ ~(0 > 0)
  OBVIOUS
<1>3. PICK k : k = FreshKey(p)
  OBVIOUS
<1>4. k.primary = <<p>> /\ k.revocations = <<>> /\ k.directs = <<>> /\ \A c \in Container : k.parts[c] = <<>>
  BY <1>1, <1>3
<1>5. SubkeyTags \subseteq Container
  BY DEF SubkeyTags, Container
<1>6. RawShape(k, p.tag)
  BY <1>2, <1>4, <1>5 DEF RawShape, AllSignatures, AllOfTypes
<1>7. QED
  BY <1>3, <1>6

\* A signature on the primary key goes to the vector for its type.
LEMMA RawAddPrimary ==
    ASSUME NEW k \in Key, NEW t, RawShape(k, t), NEW g \in Item, g.tag = "Signature"
    PROVE  /\ g.typ = "KeyRevocation" => RawShape(AddRevocation(k, g), t)
           /\ g.typ # "KeyRevocation" => RawShape(AddDirect(k, g), t)
<1>1. k.revocations \in Seq(Item) /\ k.directs \in Seq(Item) /\ g.typ \in SigType
  BY KeyFields DEF Item
<1>2. CASE g.typ = "KeyRevocation"
  <2>1. AddRevocation(k, g) = [primary |-> k.primary, revocations |-> Append(k.revocations, g),
                               directs |-> k.directs, parts |-> k.parts]
    BY AddPrimaryFacts
  <2>2. AllSignatures(Append(k.revocations, g)) /\ AllOfTypes(Append(k.revocations, g), {"KeyRevocation"})
    BY <1>1, <1>2, AllAppend DEF RawShape
  <2>3. QED
    BY <1>2, <2>1, <2>2 DEF RawShape
<1>3. CASE g.typ # "KeyRevocation"
  <2>1. AddDirect(k, g) = [primary |-> k.primary, revocations |-> k.revocations,
                           directs |-> Append(k.directs, g), parts |-> k.parts]
    BY AddPrimaryFacts
  <2>2. AllSignatures(Append(k.directs, g))
        /\ AllOfTypes(Append(k.directs, g), SigType \ {"KeyRevocation"})
    BY <1>1, <1>3, AllAppend DEF RawShape
  <2>3. QED
    BY <1>3, <2>1, <2>2 DEF RawShape
<1>4. QED
  BY <1>2, <1>3

\* A part goes to the container for its tag.
LEMMA RawAddPart ==
    ASSUME NEW k \in Key, NEW t, RawShape(k, t), NEW g \in Item, g.tag \in Container,
           g.tag \in SubkeyTags => g.tag \in SubkeyTagsOf(t) /\ k.primary[1].v4
    PROVE  RawShape(AddPart(k, g), t)
<1>1. PICK l : l = AddPart(k, g)
  OBVIOUS
<1>2. l.primary = k.primary /\ l.revocations = k.revocations /\ l.directs = k.directs
  BY <1>1 DEF AddPart
<1>3. /\ l.parts[g.tag] = Append(k.parts[g.tag], NewPart(g)) /\ NewPart(g) \in Part
      /\ \A c \in Container : c # g.tag => l.parts[c] = k.parts[c]
  BY <1>1, AddPartFacts
<1>4. PICK ps \in Seq(Part), p \in Part, n \in Nat : ps = k.parts[g.tag] /\ p = NewPart(g) /\ n = Len(ps)
  BY <1>3, KeyFields
<1>5. /\ Len(Append(ps, p)) = n + 1 /\ Append(ps, p)[n + 1] = p
      /\ \A i \in 1..n : Append(ps, p)[i] = ps[i]
      /\ \A i \in 1..(n + 1) : i \in 1..n \/ i = n + 1
  BY <1>4
<1>6. p.packet.tag = g.tag /\ AllSignatures(p.signatures)
  BY <1>4 DEF NewPart, AllSignatures
<1>7. ASSUME NEW c \in Container, NEW i \in 1..Len(l.parts[c])
      PROVE  l.parts[c][i].packet.tag = c /\ AllSignatures(l.parts[c][i].signatures)
  <2>1. CASE c # g.tag
    BY <1>3, <1>7, <2>1 DEF RawShape
  <2>2. CASE c = g.tag
    <3>1. l.parts[c] = Append(ps, p) /\ i \in 1..(n + 1)
      BY <1>3, <1>4, <1>5, <1>7, <2>2
    <3>2. CASE i \in 1..n
      <4>1. l.parts[c][i] = ps[i] /\ i \in 1..Len(k.parts[c]) /\ ps[i] = k.parts[c][i]
        BY <1>4, <1>5, <2>2, <3>1, <3>2
      <4>2. QED
        BY <4>1 DEF RawShape
    <3>3. CASE i = n + 1
      BY <1>5, <1>6, <2>2, <3>1, <3>3
    <3>4. QED
      BY <1>5, <3>1, <3>2, <3>3
  <2>3. QED
    BY <2>1, <2>2
<1>8. ASSUME NEW c \in SubkeyTags, Len(l.parts[c]) > 0
      PROVE  c \in SubkeyTagsOf(t) /\ l.primary[1].v4
  <2>1. CASE c = g.tag
    BY <1>2, <2>1
  <2>2. CASE c # g.tag
    <3>1. c \in Container
      BY DEF SubkeyTags, Container
    <3>2. QED
      BY <1>2, <1>3, <1>8, <2>2, <3>1 DEF RawShape
  <2>3. QED
    BY <2>1, <2>2
<1>9. RawShape(l, t)
  BY <1>2, <1>7, <1>8 DEF RawShape
<1>10. QED
  BY <1>1, <1>9

\* What is added to a part is a signature.
LEMMA RawAddSignature ==
    ASSUME NEW k \in Key, NEW t, RawShape(k, t), NEW g \in Item, g.tag = "Signature",
           NEW c \in Container, Len(k.parts[c]) > 0
    PROVE  RawShape(AddSignature(k, c, g), t)
<1>1. PICK l : l = AddSignature(k, c, g)
  OBVIOUS
<1>2. l.primary = k.primary /\ l.revocations = k.revocations /\ l.directs = k.directs
  BY <1>1 DEF AddSignature
<1>3. SignatureAdded(k, l, c, g) /\ LastPart(k, c) \in Part
  BY <1>1, AddSignatureFacts
<1>20. Len(k.parts[c]) \in Nat
  BY KeyFields
<1>4. PICK n \in Nat : n = Len(k.parts[c]) /\ n > 0 /\ n \in 1..n
  BY <1>20
<1>5. PICK p \in Part : p = LastPart(k, c) /\ p = k.parts[c][n]
  BY <1>3, <1>4 DEF LastPart
<1>6. p.packet.tag = c /\ AllSignatures(p.signatures) /\ p.signatures \in Seq(Item)
  BY <1>4, <1>5 DEF RawShape, Part
<1>7. Signed(p, g).packet.tag = c /\ AllSignatures(Signed(p, g).signatures)
  BY <1>6, AllAppend DEF Signed
<1>8. ASSUME NEW d \in Container, NEW i \in 1..Len(l.parts[d])
      PROVE  l.parts[d][i].packet.tag = d /\ AllSignatures(l.parts[d][i].signatures)
  <2>0. i \in 1..Len(k.parts[d])
    BY <1>3, <1>8 DEF SignatureAdded
  <2>1. CASE d # c
    BY <1>3, <2>0, <2>1 DEF SignatureAdded, RawShape
  <2>2. CASE d = c /\ i # n
    <3>1. l.parts[c][i] = k.parts[c][i]
      BY <1>3, <1>4, <2>0, <2>2 DEF SignatureAdded
    <3>2. QED
      BY <2>0, <2>2, <3>1 DEF RawShape
  <2>3. CASE d = c /\ i = n
    <3>1. l.parts[c][i] = Signed(p, g)
      BY <1>3, <1>4, <1>5, <2>0, <2>3 DEF SignatureAdded
    <3>2. QED
      BY <1>7, <2>3, <3>1
  <2>4. QED
    BY <2>1, <2>2, <2>3
<1>9. ASSUME NEW d \in SubkeyTags, Len(l.parts[d]) > 0
      PROVE  d \in SubkeyTagsOf(t) /\ l.primary[1].v4
  <2>1. d \in Container
    BY DEF SubkeyTags, Container
  <2>2. Len(k.parts[d]) > 0
    BY <1>3, <1>9, <2>1 DEF SignatureAdded
  <2>3. QED
    BY <1>2, <2>2 DEF RawShape
<1>10. RawShape(l, t)
  BY <1>2, <1>8, <1>9 DEF RawShape
<1>11. QED
  BY <1>1, <1>10

\* The constructors leave signed parts only.
LEMMA NewKeyShape ==
    ASSUME NEW k \in Key, NEW t, RawShape(k, t)
    PROVE  Shape(NewKey(k), t)
<1>1. PICK l \in Key : l = NewKey(k)
  BY NewKeyFacts
<1>2. /\ l.primary = k.primary /\ l.revocations = k.revocations /\ l.directs = k.directs
      /\ \A c \in Container : l.parts[c] = SignedParts(KeptParts(k.parts[c], c))
  BY <1>1, NewKeyFacts
<1>3. ASSUME NEW c \in Container, NEW j \in 1..Len(l.parts[c])
      PROVE  /\ l.parts[c][j].packet.tag = c /\ AllSignatures(l.parts[c][j].signatures)
             /\ Len(l.parts[c][j].signatures) > 0
             /\ AllOfTypes(l.parts[c][j].signatures, KeptTypes(c))
             /\ Len(k.parts[c]) > 0
  <2>1. PICK ps \in Seq(Part) : ps = k.parts[c]
    BY KeyFields
  <2>2. /\ \A m \in 1..Len(SignedParts(KeptParts(ps, c))) :
              /\ SignedParts(KeptParts(ps, c))[m].signatures # <<>>
              /\ \E i \in 1..Len(ps) : SignedParts(KeptParts(ps, c))[m] = KeptPart(ps[i], c)
    BY SignedPartsFacts
  <2>3. l.parts[c] = SignedParts(KeptParts(ps, c))
    BY <1>2, <2>1
  <2>4. PICK i \in 1..Len(ps) : l.parts[c][j] = KeptPart(ps[i], c) /\ l.parts[c][j].signatures # <<>>
    BY <1>3, <2>2, <2>3
  <2>20. PICK p \in Part : p = ps[i]
    OBVIOUS
  <2>5. p = ps[i] /\ p.signatures \in Seq(Item)
    BY <2>20 DEF Part
  <2>6. p.packet.tag = c /\ AllSignatures(p.signatures)
    BY <2>1, <2>4, <2>5 DEF RawShape
  <2>7. PICK gs \in Seq(Item) : gs = Retain(p.signatures, KeptTypes(c))
    BY <2>5, RetainFacts
  <2>8. \A m \in 1..Len(gs) : \E u \in 1..Len(p.signatures) :
           gs[m] = p.signatures[u] /\ p.signatures[u].typ \in KeptTypes(c)
    BY <2>5, <2>7, RetainFacts
  <2>9. l.parts[c][j].packet = p.packet /\ l.parts[c][j].signatures = gs
    BY <2>4, <2>5, <2>7 DEF KeptPart
  <2>10. AllSignatures(gs) /\ AllOfTypes(gs, KeptTypes(c))
    BY <2>6, <2>8 DEF AllSignatures, AllOfTypes
  <2>11. gs # <<>>
    BY <2>4, <2>9
  <2>12. Len(gs) > 0
    BY <2>11
  <2>13. Len(k.parts[c]) > 0
    BY <2>1, <2>4
  <2>14. QED
    BY <2>6, <2>9, <2>10, <2>12, <2>13
<1>4. ASSUME NEW c \in SubkeyTags, Len(l.parts[c]) > 0
      PROVE  c \in SubkeyTagsOf(t) /\ l.primary[1].v4
  <2>1. c \in Container
    BY DEF SubkeyTags, Container
  <2>2. Len(l.parts[c]) \in Nat
    BY <2>1, KeyFields
  <2>3. 1 \in 1..Len(l.parts[c])
    BY <1>4, <2>2
  <2>4. Len(k.parts[c]) > 0
    BY <1>3, <2>1, <2>3
  <2>5. QED
    BY <1>2, <2>4 DEF RawShape
<1>5. RawShape(l, t)
  BY <1>2, <1>3, <1>4 DEF RawShape
<1>6. Shape(l, t)
  BY <1>3, <1>5 DEF Shape
<1>7. QED
  BY <1>1, <1>6

\* ... and a key they have made as it is.
LEMMA NewKeySame ==
    ASSUME NEW k \in Key, NEW t, Shape(k, t)
    PROVE  NewKey(k) = k
<1>1. ASSUME NEW c \in Container PROVE SignedParts(KeptParts(k.parts[c], c)) = k.parts[c]
  <2>1. PICK ps \in Seq(Part) : ps = k.parts[c]
    BY KeyFields
  <2>2. ASSUME NEW i \in 1..Len(ps) PROVE KeptPart(ps[i], c) = ps[i] /\ ps[i].signatures # <<>>
    <3>1. PICK p \in Part : p = ps[i]
      OBVIOUS
    <3>2. p = [packet |-> p.packet, signatures |-> p.signatures] /\ p.signatures \in Seq(Item)
      BY DEF Part
    <3>3. Len(p.signatures) > 0 /\ AllOfTypes(p.signatures, KeptTypes(c))
      BY <2>1, <3>1 DEF Shape
    <3>4. PICK P : P = { m \in DOMAIN p.signatures : p.signatures[m].typ \in KeptTypes(c) }
      OBVIOUS
    <3>5. \A m \in 1..Len(p.signatures) : m \in P
      BY <3>2, <3>3, <3>4 DEF AllOfTypes
    <3>6. Retain(p.signatures, KeptTypes(c)) = p.signatures
      BY <3>2, <3>4, <3>5, SelectAll DEF Retain
    <3>7. KeptPart(p, c) = p
      BY <3>2, <3>6 DEF KeptPart
    <3>8. p.signatures # <<>>
      BY <3>3
    <3>9. QED
      BY <3>1, <3>7, <3>8
  <2>3. KeptParts(ps, c) = ps
    BY <2>2 DEF KeptParts
  <2>4. PICK P : P = { m \in DOMAIN ps : ps[m].signatures # <<>> }
    OBVIOUS
  <2>5. \A m \in 1..Len(ps) : m \in P
    BY <2>2, <2>4
  <2>6. SignedParts(ps) = ps
    BY <2>4, <2>5, SelectAll DEF SignedParts
  <2>7. QED
    BY <2>1, <2>3, <2>6
<1>2. PICK l \in Key : l = NewKey(k)
  BY NewKeyFacts
<1>3. /\ l.primary = k.primary /\ l.revocations = k.revocations /\ l.directs = k.directs
      /\ \A c \in Container : l.parts[c] = k.parts[c]
  BY <1>1, <1>2, NewKeyFacts
<1>4. l.parts = k.parts
  BY <1>3, KeyFields
<1>5. l = k
  BY <1>3, <1>4, KeyFields
<1>6. QED
  BY <1>2, <1>5

\* What the steps that take a packet do to the key.
LEMMA PrimarySignatureKey ==
    ASSUME TypeInv, PrimarySignature
    PROVE  /\ key \in Key /\ Peek \in Item /\ Peek.tag = "Signature"
           /\ Peek.typ = "KeyRevocation" => key' = AddRevocation(key, Peek)
           /\ Peek.typ # "KeyRevocation" => key' = AddDirect(key, Peek)
<1>1. key \in Key /\ PeekIn({"Signature"})
  BY DEF TypeInv, PrimarySignature
<1>2. PICK g \in Item : g = Peek /\ g.tag = "Signature"
  BY <1>1, PeekFacts
<1>3. /\ g.typ = "KeyRevocation" => key' = AddRevocation(key, g)
      /\ g.typ # "KeyRevocation" => key' = AddDirect(key, g)
  BY <1>2 DEF PrimarySignature, AddRevocation, AddDirect
<1>4. QED
  BY <1>1, <1>2, <1>3

\* A user or subkey.
LEMMA TakePartKey ==
    ASSUME TypeInv, TakePart, PeekIn(Container)
    PROVE  /\ key \in Key /\ Peek \in Item /\ Peek.tag \in Container
           /\ key' = AddPart(key, Peek)
<1>1. key \in Key
  BY DEF TypeInv
<1>2. PICK g \in Item : g = Peek /\ g.tag \in Container
  BY PeekFacts
<1>3. key' = [key EXCEPT !.parts[g.tag] = Append(@, [packet |-> g, signatures |-> <<>>])]
  BY <1>2 DEF TakePart
<1>4. key' = AddPart(key, g)
  BY <1>1, <1>2, <1>3, AddPartFacts
<1>5. QED
  BY <1>1, <1>2, <1>4

\* A signature on it.
LEMMA PartSignatureKey ==
    ASSUME KInv, PartSignature
    PROVE  /\ key \in Key /\ Peek \in Item /\ Peek.tag = "Signature"
           /\ cur \in Container /\ Len(key.parts[cur]) > 0
           /\ key' = AddSignature(key, cur, Peek)
<1>1. TypeInv /\ pc \in Building /\ cur # "none" /\ PeekIn({"Signature"}) /\ key \in Key /\ cur \in Container
  BY DEF PartSignature, Building, KInv, TypeInv
<1>2. Len(key.parts[cur]) > 0
  BY <1>1, CurrentBlock DEF Open
<1>3. PICK g \in Item, c \in Container : g = Peek /\ g.tag = "Signature" /\ c = cur
  BY <1>1, PeekFacts
<1>4. key' = [key EXCEPT !.parts[c][OpenPart(key.parts[c])].signatures = Append(@, g)]
  BY <1>3 DEF PartSignature
<1>5. key' = AddSignature(key, c, g)
  BY <1>1, <1>2, <1>3, <1>4, AddSignatureFacts
<1>6. QED
  BY <1>1, <1>2, <1>3, <1>5

\* What is wanted does not change.
LEMMA WantedSame ==
    ASSUME mode' = mode
    PROVE  Wanted' = Wanted
BY DEF Wanted

\* One more result.
LEMMA ShapesOutGrows ==
    ASSUME out \in Seq(Result), ShapesOut, mode' = mode, NEW x \in Result, out' = Append(out, x),
           x.r = "Ok" => \E t \in Wanted : Shape(x.key, t)
    PROVE  ShapesOut'
<1>1. /\ Len(out') = Len(out) + 1 /\ Len(out) \in Nat
      /\ \A i \in 1..Len(out) : out'[i] = out[i]
      /\ out'[Len(out) + 1] = x
      /\ \A i \in 1..(Len(out) + 1) : i \in 1..Len(out) \/ i = Len(out) + 1
  OBVIOUS
<1>2. Wanted' = Wanted
  BY WantedSame
<1>3. ASSUME NEW n \in 1..Len(out'), out'[n].r = "Ok"
      PROVE  \E t \in Wanted : Shape(out'[n].key, t)
  <2>1. CASE n \in 1..Len(out)
    BY <1>1, <1>3, <2>1 DEF ShapesOut
  <2>2. CASE n = Len(out) + 1
    BY <1>1, <1>3, <2>2
  <2>3. QED
    BY <1>1, <1>3, <2>1, <2>2
<1>4. QED
  BY <1>2, <1>3 DEF ShapesOut

\* An error result adds no key.
LEMMA ShapesOutErr ==
    ASSUME out \in Seq(Result), ShapesOut, mode' = mode, NEW cause \in Seq(Item), GiveErr(cause)
    PROVE  ShapesOut'
<1>1. PICK x : x = [r |-> "Err", key |-> NoKey, cause |-> cause]
  OBVIOUS
<1>2. x \in Result /\ x.r # "Ok" /\ out' = Append(out, x)
  BY <1>1, NoKeyType DEF Result, GiveErr
<1>3. QED
  BY <1>2, ShapesOutGrows

\* The key in progress is of the kind wanted, and keeps its shape.
LEMMA ShapeKeeps ==
    ASSUME KInv, ShapeInv, Next
    PROVE  ShapeInv'
<1> USE DEF KInv
<1>1. TypeInv /\ out \in Seq(Result) /\ key \in Key
  BY DEF TypeInv
<1>2. mode' = mode
  BY DEF Next, CallKeyParser, CallPubPriv, SearchSkip, SearchPrimary, SearchErr, SearchEnd,
         PrimarySignature, PrimarySignaturesEnd, User, PartSignature, UsersEnd, Subkey,
         SubkeyRejected, SubkeysEnd, Reparse
<1>3. Wanted' = Wanted
  BY <1>2, WantedSame
<1>4. ASSUME UNCHANGED out PROVE ShapesOut'
  BY <1>3, <1>4 DEF ShapeInv, ShapesOut
<1>5. ASSUME NEW k \in Key, key' = k, RawShape(k, keyTag), pc \in Building, keyTag' = keyTag, UNCHANGED out
      PROVE  ShapeInv'
  BY <1>3, <1>4, <1>5 DEF ShapeInv
<1>6. CASE CallKeyParser
  <2>1. keyTag' \in Wanted
    BY <1>1, <1>6, WantedFacts DEF CallKeyParser, Begin, TypeInv, AllModes
  <2>2. pc' = "search" /\ UNCHANGED out
    BY <1>6 DEF CallKeyParser, Begin
  <2>3. QED
    BY <1>3, <1>4, <2>1, <2>2 DEF ShapeInv, Building
<1>7. CASE CallPubPriv
  <2>1. CASE PeekIn(PrimaryTags) /\ Begin(Peek.tag) /\ UNCHANGED <<inner, out>>
    <3>1. keyTag' \in Wanted
      BY <1>1, <1>7, <2>1, WantedFacts, PeekFacts DEF CallPubPriv, Begin
    <3>2. pc' = "search"
      BY <2>1 DEF Begin
    <3>3. QED
      BY <1>3, <1>4, <2>1, <3>1, <3>2 DEF ShapeInv, Building
  <2>2. CASE PeekIn({"Err"}) /\ GiveErr(<<Peek>>) /\ UNCHANGED <<pc, keyTag, cur>>
    <3>1. Peek \in Item
      BY <1>1, <2>2, PeekFacts
    <3>2. <<Peek>> \in Seq(Item)
      BY <3>1
    <3>3. ShapesOut'
      BY <1>1, <1>2, <2>2, <3>2, ShapesOutErr DEF ShapeInv
    <3>4. pc' = "idle"
      BY <1>7, <2>2 DEF CallPubPriv
    <3>5. QED
      BY <3>3, <3>4 DEF ShapeInv, Building
  <2>3. CASE pc' = "exhausted" /\ UNCHANGED <<keyTag, cur, out>>
    BY <1>4, <2>3 DEF ShapeInv, Building
  <2>4. QED
    BY <1>7, <2>1, <2>2, <2>3 DEF CallPubPriv
<1>8. CASE SearchSkip \/ SearchEnd
  BY <1>3, <1>4, <1>8 DEF SearchSkip, SearchEnd, ShapeInv, Building
<1>9. CASE SearchPrimary
  <2>1. PICK p \in Item : p = Peek /\ p.tag = keyTag
    BY <1>1, <1>9, PeekFacts DEF SearchPrimary
  <2>2. RawShape(FreshKey(p), p.tag)
    BY RawFresh
  <2>3. key' = FreshKey(p) /\ keyTag' = keyTag /\ pc = "search" /\ UNCHANGED out
    BY <1>9, <2>1 DEF SearchPrimary
  <2>4. RawShape(key', keyTag') /\ keyTag' \in Wanted
    BY <2>1, <2>2, <2>3 DEF ShapeInv
  <2>5. QED
    BY <1>3, <1>4, <2>3, <2>4 DEF ShapeInv
<1>10. CASE SearchErr
  <2>1. Peek \in Item
    BY <1>1, <1>10, PeekFacts DEF SearchErr
  <2>2. <<Peek>> \in Seq(Item)
    BY <2>1
  <2>3. GiveErr(<<Peek>>) /\ pc' = "idle"
    BY <1>10, <2>2 DEF SearchErr
  <2>4. ShapesOut'
    BY <1>1, <1>2, <2>2, <2>3, ShapesOutErr DEF ShapeInv
  <2>5. QED
    BY <2>3, <2>4 DEF ShapeInv, Building
<1>11. CASE PrimarySignature
  <2>1. PICK g \in Item : /\ g = Peek /\ g.tag = "Signature"
                          /\ g.typ = "KeyRevocation" => key' = AddRevocation(key, g)
                          /\ g.typ # "KeyRevocation" => key' = AddDirect(key, g)
    BY <1>1, <1>11, PrimarySignatureKey
  <2>2. pc \in Building /\ keyTag' = keyTag /\ UNCHANGED out
    BY <1>11 DEF PrimarySignature, Building
  <2>3. RawShape(key, keyTag)
    BY <2>2 DEF ShapeInv
  <2>4. /\ g.typ = "KeyRevocation" => RawShape(AddRevocation(key, g), keyTag)
        /\ g.typ # "KeyRevocation" => RawShape(AddDirect(key, g), keyTag)
    BY <1>1, <2>1, <2>3, RawAddPrimary
  <2>5. AddRevocation(key, g) \in Key /\ AddDirect(key, g) \in Key
    BY <1>1, AddPrimaryFacts
  <2>6. QED
    BY <1>5, <2>1, <2>2, <2>4, <2>5
<1>12. CASE PrimarySignaturesEnd \/ UsersEnd
  <2>1. pc \in Building /\ UNCHANGED <<keyTag, key, out>>
    BY <1>12 DEF PrimarySignaturesEnd, UsersEnd, Building
  <2>2. QED
    BY <1>3, <1>4, <2>1 DEF ShapeInv
<1>13. CASE User \/ Subkey
  <2>1. TakePart /\ PeekIn(Container) /\ pc \in Building /\ keyTag' = keyTag /\ UNCHANGED out
    BY <1>1, <1>13 DEF User, Subkey, PeekIn, UserTags, SubkeyTagsOf, SubkeyTags, Container, Building, TypeInv
  <2>2. PICK g \in Item : g = Peek /\ g.tag \in Container /\ key' = AddPart(key, g)
    BY <1>1, <2>1, TakePartKey
  <2>3. g.tag \in SubkeyTags => g.tag \in SubkeyTagsOf(keyTag) /\ key.primary[1].v4
    BY <1>13, <2>2 DEF User, Subkey, PeekIn, UserTags, SubkeyTags
  <2>4. RawShape(key, keyTag)
    BY <2>1 DEF ShapeInv
  <2>5. RawShape(AddPart(key, g), keyTag)
    BY <1>1, <2>2, <2>3, <2>4, RawAddPart
  <2>6. AddPart(key, g) \in Key
    BY <1>1, <2>2, AddPartFacts
  <2>7. QED
    BY <1>5, <2>1, <2>2, <2>5, <2>6
<1>14. CASE PartSignature
  <2>1. PICK g \in Item, c \in Container : /\ g.tag = "Signature" /\ Len(key.parts[c]) > 0
                                           /\ key' = AddSignature(key, c, g)
    BY <1>14, PartSignatureKey
  <2>2. pc \in Building /\ keyTag' = keyTag /\ UNCHANGED out
    BY <1>14 DEF PartSignature, Building
  <2>3. RawShape(key, keyTag)
    BY <2>2 DEF ShapeInv
  <2>4. RawShape(AddSignature(key, c, g), keyTag) /\ AddSignature(key, c, g) \in Key
    BY <1>1, <2>1, <2>3, RawAddSignature, AddSignatureFacts
  <2>5. QED
    BY <1>5, <2>1, <2>2, <2>4
<1>15. CASE SubkeyRejected
  <2>1. <<>> \in Seq(Item)
    OBVIOUS
  <2>2. GiveErr(<<>>) /\ pc' = "idle"
    BY <1>15 DEF SubkeyRejected
  <2>3. ShapesOut'
    BY <1>1, <1>2, <2>1, <2>2, ShapesOutErr DEF ShapeInv
  <2>4. QED
    BY <2>2, <2>3 DEF ShapeInv, Building
<1>16. CASE SubkeysEnd
  <2>1. pc \in Building /\ pc' = "idle"
    BY <1>16 DEF SubkeysEnd, Building
  <2>2. Shape(NewKey(key), keyTag) /\ NewKey(key) \in Key /\ keyTag \in Wanted
    BY <1>1, <2>1, NewKeyShape, NewKeyFacts DEF ShapeInv
  <2>3. PICK x : x = [r |-> "Ok", key |-> NewKey(key), cause |-> <<>>]
    OBVIOUS
  <2>4. x \in Result /\ x.key = NewKey(key)
    BY <2>2, <2>3 DEF Result
  <2>5. out' = Append(out, x)
    BY <1>16, <2>3 DEF SubkeysEnd
  <2>6. ShapesOut'
    BY <1>1, <1>2, <2>2, <2>4, <2>5, ShapesOutGrows DEF ShapeInv
  <2>7. QED
    BY <2>1, <2>6 DEF ShapeInv, Building
<1>17. CASE Reparse
  BY <1>17 DEF Reparse, ShapeInv, ShapesOut, Building
<1>18. QED
  BY <1>6, <1>7, <1>8, <1>9, <1>10, <1>11, <1>12, <1>13, <1>14, <1>15, <1>16, <1>17 DEF Next

-----------------------------------------------------------------------------
(* What is written where                                                   *)

\* The packets of s lie in q, behind n others.
At(q, n, s) == n + Len(s) <= Len(q) /\ \A i \in 1..Len(s) : q[n + i] = s[i]

\* Joining sequences moves what lies in the second, and nothing else.
LEMMA AtConcat ==
    ASSUME NEW S, NEW s \in Seq(S), NEW t \in Seq(S)
    PROVE  /\ s \o t \in Seq(S) /\ Len(s \o t) = Len(s) + Len(t)
           /\ At(s \o t, 0, s) /\ At(s \o t, Len(s), t)
           /\ \A x \in Seq(S) : \A n \in Nat : At(s, n, x) => At(s \o t, n, x)
           /\ \A x \in Seq(S) : \A n \in Nat : At(t, n, x) => At(s \o t, Len(s) + n, x)
<1>1. PICK a \in Nat, b \in Nat : a = Len(s) /\ b = Len(t)
  OBVIOUS
<1>20. s \o t \in Seq(S)
  OBVIOUS
<1>2. PICK q \in Seq(S) : q = s \o t
  BY <1>20
<1>3. /\ Len(q) = a + b
      /\ \A i \in 1..a : q[i] = s[i]
      /\ \A m \in 1..b : q[a + m] = t[m]
  <2>1. /\ Len(s \o t) = Len(s) + Len(t)
        /\ \A i \in 1..Len(s) : (s \o t)[i] = s[i]
        /\ \A m \in 1..Len(t) : (s \o t)[Len(s) + m] = t[m]
    BY ConcatProperties
  <2>2. QED
    BY <1>1, <1>2, <2>1
<1>4. At(q, 0, s) /\ At(q, a, t)
  BY <1>1, <1>3 DEF At
<1>5. ASSUME NEW x \in Seq(S), NEW n \in Nat, At(s, n, x) PROVE At(q, n, x)
  <2>1. PICK l \in Nat : l = Len(x)
    OBVIOUS
  <2>2. n + l <= a /\ \A i \in 1..l : s[n + i] = x[i]
    BY <1>1, <1>5, <2>1 DEF At
  <2>3. \A i \in 1..l : n + i \in 1..a
    BY <2>2
  <2>4. n + l <= a + b /\ \A i \in 1..l : q[n + i] = x[i]
    BY <1>3, <2>2, <2>3
  <2>5. QED
    BY <1>3, <2>1, <2>4 DEF At
<1>6. ASSUME NEW x \in Seq(S), NEW n \in Nat, At(t, n, x) PROVE At(q, a + n, x)
  <2>1. PICK l \in Nat : l = Len(x)
    OBVIOUS
  <2>2. n + l <= b /\ \A i \in 1..l : t[n + i] = x[i]
    BY <1>1, <1>6, <2>1 DEF At
  <2>3. \A i \in 1..l : n + i \in 1..b /\ (a + n) + i = a + (n + i)
    BY <2>2
  <2>4. (a + n) + l <= a + b /\ \A i \in 1..l : q[(a + n) + i] = x[i]
    BY <1>3, <2>2, <2>3
  <2>5. QED
    BY <1>3, <2>1, <2>4 DEF At
<1>7. QED
  BY <1>1, <1>2, <1>3, <1>4, <1>5, <1>6

\* A container is written part by part.
LEMMA StartsFacts ==
    ASSUME NEW ps \in Seq(Part)
    PROVE  /\ Starts(ps) \in [0..Len(ps) -> Nat] /\ Starts(ps)[0] = 0
           /\ SerializeParts(ps) \in Seq(Item)
           /\ Len(SerializeParts(ps)) = Starts(ps)[Len(ps)]
           /\ \A i \in 1..Len(ps) :
                 /\ Starts(ps)[i] = Starts(ps)[i - 1] + (1 + Len(ps[i].signatures))
                 /\ Starts(ps)[i] <= Starts(ps)[Len(ps)]
                 /\ At(SerializeParts(ps), Starts(ps)[i - 1], PartPackets(ps[i]))
<1>1. PICK w \in Seq(Seq(Item)) : w = WrittenParts(ps) /\ Len(w) = Len(ps) /\ SerializeParts(ps) = FlattenSeq(w)
  BY AllPartPackets DEF WrittenParts
<1>2. PICK q \in Seq(Item) : q = SerializeParts(ps)
  BY SerializePartsElems
<1>3. \E at \in [0..Len(w) -> Nat] : at[0] = 0 /\ Layout(at, FlattenSeq(w), w, Len(w))
  BY FlattenLayout
<1>4. \E at \in [0..Len(ps) -> Nat] : at[0] = 0 /\ Layout(at, SerializeParts(ps), WrittenParts(ps), Len(ps))
  BY <1>1, <1>3
<1>5. /\ Starts(ps) \in [0..Len(ps) -> Nat] /\ Starts(ps)[0] = 0
      /\ Layout(Starts(ps), SerializeParts(ps), WrittenParts(ps), Len(ps))
  BY <1>4 DEF Starts
<1>6. PICK n \in Nat : n = Len(ps)
  OBVIOUS
<1>7. PICK at \in [0..n -> Nat] : at = Starts(ps) /\ at[0] = 0 /\ Layout(at, q, w, n)
  BY <1>1, <1>2, <1>5, <1>6
<1>8. Len(q) = at[n]
  BY <1>7 DEF Layout
<1>9. ASSUME NEW i \in 1..n
      PROVE  /\ at[i] = at[i - 1] + (1 + Len(ps[i].signatures)) /\ at[i] <= at[n]
             /\ At(q, at[i - 1], PartPackets(ps[i]))
  <2>1. PICK p \in Part : p = ps[i]
    BY <1>6
  <2>20. Len(PartPackets(p)) \in Nat /\ Len(PartPackets(p)) = 1 + Len(p.signatures)
    BY PartPacketsFacts
  <2>2. PICK l \in Nat : l = Len(PartPackets(p)) /\ l = 1 + Len(p.signatures)
    BY <2>20
  <2>3. w[i] = PartPackets(p)
    BY <1>1, <1>6, <2>1 DEF WrittenParts
  <2>4. /\ at[i] = at[i - 1] + Len(w[i]) /\ at[i] <= at[n]
        /\ \A m \in 1..Len(w[i]) : q[at[i - 1] + m] = w[i][m]
    BY <1>7 DEF Layout
  <2>5. at[i - 1] + Len(PartPackets(p)) <= Len(q)
    BY <1>8, <2>3, <2>4
  <2>6. At(q, at[i - 1], PartPackets(p))
    BY <2>3, <2>4, <2>5 DEF At
  <2>7. QED
    BY <2>1, <2>2, <2>3, <2>4, <2>6
<1>10. QED
  BY <1>2, <1>6, <1>7, <1>8, <1>9

\* Where a container begins, and what follows.
LEMMA BaseFacts ==
    ASSUME NEW k \in Key
    PROVE  /\ \A x \in 1..4 : Size(k, x) \in Nat /\ Order[x] \in Container
           /\ \A x \in 1..5 : Base(k, x) \in Nat
           /\ Base(k, 1) = 1 + Len(k.revocations) + Len(k.directs)
           /\ Base(k, 2) = Base(k, 1) + Size(k, 1)
           /\ Base(k, 3) = Base(k, 2) + Size(k, 2)
           /\ Base(k, 4) = Base(k, 3) + Size(k, 3)
           /\ Base(k, 5) = Base(k, 4) + Size(k, 4)
           /\ Len(k.revocations) \in Nat /\ Len(k.directs) \in Nat
<1>1. PICK r \in Nat, d \in Nat : r = Len(k.revocations) /\ d = Len(k.directs)
  BY KeyFields
<1>2. \A x \in 1..4 : Order[x] \in Container
  BY DEF Order, Container
<1>3. ASSUME NEW x \in 1..4 PROVE Size(k, x) \in Nat
  <2>1. k.parts[Order[x]] \in Seq(Part)
    BY <1>2, KeyFields
  <2>2. SerializeParts(k.parts[Order[x]]) \in Seq(Item)
    BY <2>1, SerializePartsElems
  <2>3. QED
    BY <2>2 DEF Size
<1>4. PICK a \in Nat, b \in Nat, c \in Nat, e \in Nat :
          a = Size(k, 1) /\ b = Size(k, 2) /\ c = Size(k, 3) /\ e = Size(k, 4)
  BY <1>3
<1>5. /\ Base(k, 1) = 1 + r + d
      /\ Base(k, 2) = 1 + r + d + a
      /\ Base(k, 3) = 1 + r + d + a + b
      /\ Base(k, 4) = 1 + r + d + a + b + c
      /\ Base(k, 5) = 1 + r + d + a + b + c + e
  BY <1>1, <1>4 DEF Base
<1>6. \A x \in 1..5 : x = 1 \/ x = 2 \/ x = 3 \/ x = 4 \/ x = 5
  OBVIOUS
<1>7. \A x \in 1..5 : Base(k, x) \in Nat
  BY <1>5, <1>6
<1>8. QED
  BY <1>1, <1>2, <1>3, <1>4, <1>5, <1>7

\* Serialize writes the primary key, its revocations, the other signatures on
\* it, and then the containers in their order.
LEMMA SerializeLayout ==
    ASSUME NEW k \in Key, Len(k.primary) = 1
    PROVE  /\ Serialize(k) \in Seq(Item) /\ Len(Serialize(k)) = Base(k, 5)
           /\ At(Serialize(k), 0, k.primary) /\ At(Serialize(k), 1, k.revocations)
           /\ At(Serialize(k), 1 + Len(k.revocations), k.directs)
           /\ \A x \in 1..4 : At(Serialize(k), Base(k, x), SerializeParts(k.parts[Order[x]]))
<1>1. k.primary \in Seq(Item) /\ k.revocations \in Seq(Item) /\ k.directs \in Seq(Item)
  BY KeyFields
<1>2. PICK a \in Seq(Item), b \in Seq(Item), c \in Seq(Item) :
          a = k.primary /\ b = k.revocations /\ c = k.directs
  BY <1>1
<1>3. \A y \in Container : SerializeParts(k.parts[y]) \in Seq(Item)
  BY KeyFields, SerializePartsElems
<1>4. PICK d \in Seq(Item), e \in Seq(Item), f \in Seq(Item), g \in Seq(Item) :
          /\ d = SerializeParts(k.parts["UserId"]) /\ e = SerializeParts(k.parts["UserAttribute"])
          /\ f = SerializeParts(k.parts["PublicSubkey"]) /\ g = SerializeParts(k.parts["SecretSubkey"])
  BY <1>3 DEF Container
<1>5. PICK lb \in Nat, lc \in Nat, ld \in Nat, le \in Nat, lf \in Nat, lg \in Nat :
          /\ lb = Len(b) /\ lc = Len(c) /\ ld = Len(d) /\ le = Len(e) /\ lf = Len(f) /\ lg = Len(g)
  OBVIOUS
<1>6. /\ Size(k, 1) = ld /\ Size(k, 2) = le /\ Size(k, 3) = lf /\ Size(k, 4) = lg
  BY <1>4, <1>5 DEF Size, Order
<1>7. /\ Base(k, 1) = 1 + (lb + lc)
      /\ Base(k, 2) = 1 + ((lb + lc) + ld)
      /\ Base(k, 3) = 1 + (((lb + lc) + ld) + le)
      /\ Base(k, 4) = 1 + (((lb + lc) + ld) + le) + lf
      /\ Base(k, 5) = 1 + (((lb + lc) + ld) + le) + lf + lg
  <2>1. /\ Base(k, 1) = 1 + lb + lc /\ Base(k, 2) = Base(k, 1) + ld /\ Base(k, 3) = Base(k, 2) + le
        /\ Base(k, 4) = Base(k, 3) + lf /\ Base(k, 5) = Base(k, 4) + lg
    BY <1>2, <1>5, <1>6, BaseFacts
  <2>2. QED
    BY <2>1
<1>20. PICK h1 \in Nat, h2 \in Nat, h3 \in Nat, h4 \in Nat, h5 \in Nat, lh \in Nat, ld3 \in Nat,
           kb \in Nat :
          /\ h1 = lb + lc /\ h2 = h1 + ld /\ h3 = h2 + le /\ h4 = 1 + h3 /\ h5 = h4 + lf
          /\ lh = 1 + h1 /\ ld3 = 1 + h2 /\ kb = 1 + lb
  OBVIOUS
<1>21. PICK d1 : d1 = b \o c
  OBVIOUS
<1>22. d1 \in Seq(Item) /\ Len(d1) = h1 /\ At(d1, 0, b) /\ At(d1, lb, c)
  <2>1. b \o c \in Seq(Item) /\ Len(b \o c) = Len(b) + Len(c) /\ At(b \o c, 0, b) /\ At(b \o c, Len(b), c)
    BY AtConcat
  <2>2. QED
    BY <1>5, <1>20, <1>21, <2>1
<1>23. PICK d2 : d2 = d1 \o d
  OBVIOUS
<1>24. /\ d2 \in Seq(Item) /\ Len(d2) = h2
      /\ At(d2, 0, b) /\ At(d2, lb, c) /\ At(d2, h1, d)
  <2>1. /\ d1 \o d \in Seq(Item) /\ Len(d1 \o d) = Len(d1) + Len(d)
        /\ At(d1 \o d, Len(d1), d)
        /\ \A z \in Seq(Item) : \A n \in Nat : At(d1, n, z) => At(d1 \o d, n, z)
    BY <1>22, AtConcat
  <2>2. QED
    BY <1>5, <1>20, <1>23, <1>22, <2>1
<1>25. PICK d3 : d3 = d2 \o e
  OBVIOUS
<1>26. /\ d3 \in Seq(Item) /\ Len(d3) = h3
      /\ At(d3, 0, b) /\ At(d3, lb, c) /\ At(d3, h1, d) /\ At(d3, h2, e)
  <2>1. /\ d2 \o e \in Seq(Item) /\ Len(d2 \o e) = Len(d2) + Len(e)
        /\ At(d2 \o e, Len(d2), e)
        /\ \A z \in Seq(Item) : \A n \in Nat : At(d2, n, z) => At(d2 \o e, n, z)
    BY <1>24, AtConcat
  <2>2. QED
    BY <1>5, <1>20, <1>25, <1>24, <2>1
<1>27. PICK q1 : q1 = a \o d3
  OBVIOUS
<1>28. /\ q1 \in Seq(Item) /\ Len(q1) = h4
       /\ At(q1, 0, a) /\ At(q1, 1, b) /\ At(q1, kb, c) /\ At(q1, lh, d) /\ At(q1, ld3, e)
  <2>1. /\ a \o d3 \in Seq(Item) /\ Len(a \o d3) = Len(a) + Len(d3) /\ At(a \o d3, 0, a)
        /\ \A z \in Seq(Item) : \A n \in Nat : At(d3, n, z) => At(a \o d3, Len(a) + n, z)
    BY <1>26, AtConcat
  <2>2. Len(a) = 1 /\ Len(a) + 0 = 1
    BY <1>2
  <2>3. /\ At(a \o d3, Len(a) + 0, b) /\ At(a \o d3, Len(a) + lb, c)
        /\ At(a \o d3, Len(a) + h1, d) /\ At(a \o d3, Len(a) + h2, e)
    BY <1>26, <2>1
  <2>4. QED
    BY <1>20, <1>26, <1>27, <2>1, <2>2, <2>3
<1>29. PICK q2 : q2 = q1 \o f
  OBVIOUS
<1>30. /\ q2 \in Seq(Item) /\ Len(q2) = h5
      /\ At(q2, 0, a) /\ At(q2, 1, b) /\ At(q2, kb, c) /\ At(q2, lh, d) /\ At(q2, ld3, e) /\ At(q2, h4, f)
  <2>1. /\ q1 \o f \in Seq(Item) /\ Len(q1 \o f) = Len(q1) + Len(f)
        /\ At(q1 \o f, Len(q1), f)
        /\ \A z \in Seq(Item) : \A n \in Nat : At(q1, n, z) => At(q1 \o f, n, z)
    BY <1>28, AtConcat
  <2>2. QED
    BY <1>5, <1>20, <1>29, <1>28, <2>1
<1>31. PICK q3 : q3 = q2 \o g
  OBVIOUS
<1>32. /\ q3 \in Seq(Item) /\ Len(q3) = h5 + lg
      /\ At(q3, 0, a) /\ At(q3, 1, b) /\ At(q3, kb, c) /\ At(q3, lh, d) /\ At(q3, ld3, e) /\ At(q3, h4, f) /\ At(q3, h5, g)
  <2>1. /\ q2 \o g \in Seq(Item) /\ Len(q2 \o g) = Len(q2) + Len(g)
        /\ At(q2 \o g, Len(q2), g)
        /\ \A z \in Seq(Item) : \A n \in Nat : At(q2, n, z) => At(q2 \o g, n, z)
    BY <1>30, AtConcat
  <2>2. QED
    BY <1>5, <1>20, <1>31, <1>30, <2>1
<1>8. Base(k, 1) = lh /\ Base(k, 2) = ld3 /\ Base(k, 3) = h4 /\ Base(k, 4) = h5 /\ Base(k, 5) = h5 + lg
  BY <1>7, <1>20
<1>14. q3 = Serialize(k)
  BY <1>2, <1>4, <1>21, <1>23, <1>25, <1>27, <1>29, <1>31 DEF Serialize, SerializeDetails
<1>15. ASSUME NEW x \in 1..4 PROVE At(q3, Base(k, x), SerializeParts(k.parts[Order[x]]))
  <2>1. x = 1 \/ x = 2 \/ x = 3 \/ x = 4
    OBVIOUS
  <2>2. Order[1] = "UserId" /\ Order[2] = "UserAttribute" /\ Order[3] = "PublicSubkey" /\ Order[4] = "SecretSubkey"
    BY DEF Order
  <2>3. QED
    BY <1>4, <1>8, <1>32, <2>1, <2>2
<1>16. QED
  BY <1>2, <1>5, <1>8, <1>14, <1>15, <1>20, <1>32

\* The place of a part, and what is written there.
LEMMA PlaceFacts ==
    ASSUME NEW f \in Key, Len(f.primary) = 1, NEW x \in 1..4, NEW ps \in Seq(Part), ps = f.parts[Order[x]]
    PROVE  /\ Order[x] \in Container
           /\ Len(ps) = 0 => Base(f, x + 1) = Base(f, x)
           /\ Len(ps) > 0 => Place(f, x, 1) = Base(f, x)
           /\ \A i \in 1..Len(ps) :
                 /\ Place(f, x, i) \in Nat
                 /\ Place(f, x, i) + (1 + Len(ps[i].signatures)) <= Len(Serialize(f))
                 /\ At(Serialize(f), Place(f, x, i), PartPackets(ps[i]))
                 /\ i < Len(ps) => Place(f, x, i + 1) = Place(f, x, i) + (1 + Len(ps[i].signatures))
                 /\ i = Len(ps) => Base(f, x + 1) = Place(f, x, i) + (1 + Len(ps[i].signatures))
<1>1. Order[x] \in Container
  BY BaseFacts
<1>2. PICK n \in Nat, b \in Nat, q \in Seq(Item), s \in Seq(Item) :
          /\ n = Len(ps) /\ b = Base(f, x) /\ q = SerializeParts(ps) /\ s = Serialize(f)
  <2>1. x \in 1..5
    OBVIOUS
  <2>5. Base(f, x) \in Nat
    BY <2>1, BaseFacts
  <2>2. SerializeParts(ps) \in Seq(Item)
    BY SerializePartsElems
  <2>3. Serialize(f) \in Seq(Item)
    BY SerializeElems
  <2>4. QED
    BY <2>5, <2>2, <2>3
<1>3. PICK at \in [0..n -> Nat] : at = Starts(ps) /\ at[0] = 0
  BY <1>2, StartsFacts
<1>4. /\ Len(q) = at[n]
      /\ \A i \in 1..n : /\ at[i] = at[i - 1] + (1 + Len(ps[i].signatures))
                         /\ at[i] <= at[n]
                         /\ At(q, at[i - 1], PartPackets(ps[i]))
  BY <1>2, <1>3, StartsFacts
<1>5. At(s, b, q)
  BY <1>2, SerializeLayout
<1>6. Size(f, x) = Len(q)
  BY <1>2 DEF Size
<1>7. Base(f, x + 1) = b + Len(q)
  <2>1. x = 1 \/ x = 2 \/ x = 3 \/ x = 4
    OBVIOUS
  <2>2. Base(f, 2) = Base(f, 1) + Size(f, 1) /\ Base(f, 3) = Base(f, 2) + Size(f, 2)
        /\ Base(f, 4) = Base(f, 3) + Size(f, 3) /\ Base(f, 5) = Base(f, 4) + Size(f, 4)
    BY BaseFacts
  <2>3. Base(f, x + 1) = Base(f, x) + Size(f, x)
    BY <2>1, <2>2
  <2>4. QED
    BY <1>2, <1>6, <2>3
<1>8. \A i \in 1..n : Place(f, x, i) = b + at[i - 1]
  BY <1>2, <1>3 DEF Place
<1>9. n = 0 => Base(f, x + 1) = b
  BY <1>3, <1>4, <1>7
<1>10. n > 0 => Place(f, x, 1) = b
  BY <1>3, <1>8
<1>11. ASSUME NEW i \in 1..n
       PROVE  /\ Place(f, x, i) \in Nat
              /\ Place(f, x, i) + (1 + Len(ps[i].signatures)) <= Len(s)
              /\ At(s, Place(f, x, i), PartPackets(ps[i]))
              /\ i < n => Place(f, x, i + 1) = Place(f, x, i) + (1 + Len(ps[i].signatures))
              /\ i = n => Base(f, x + 1) = Place(f, x, i) + (1 + Len(ps[i].signatures))
  <2>1. PICK p \in Part : p = ps[i]
    BY <1>2
  <2>2. Len(PartPackets(p)) \in Nat /\ Len(PartPackets(p)) = 1 + Len(p.signatures)
    BY PartPacketsFacts
  <2>3. PICK l \in Nat : l = Len(PartPackets(p)) /\ l = 1 + Len(p.signatures)
    BY <2>2
  <2>20. i - 1 \in 0..n /\ n \in 0..n
    OBVIOUS
  <2>21. at[i - 1] \in Nat /\ at[n] \in Nat
    BY <1>3, <2>20
  <2>4. PICK a \in Nat, z \in Nat : a = at[i - 1] /\ z = at[n]
    BY <2>21
  <2>5. at[i] = a + l /\ a + l <= z /\ At(q, a, PartPackets(p)) /\ Len(q) = z
    BY <1>4, <2>1, <2>3, <2>4
  <2>6. Place(f, x, i) = b + a
    BY <1>8, <2>4
  <2>7. b + z <= Len(s)
    BY <1>5, <2>5 DEF At
  <2>8. \A m \in 1..l : q[a + m] = PartPackets(p)[m]
    BY <2>3, <2>5 DEF At
  <2>9. \A m \in 1..z : s[b + m] = q[m]
    BY <1>5, <2>5 DEF At
  <2>10. \A m \in 1..l : a + m \in 1..z /\ (b + a) + m = b + (a + m)
    BY <2>5
  <2>11. \A m \in 1..l : s[(b + a) + m] = PartPackets(p)[m]
    BY <2>8, <2>9, <2>10
  <2>12. (b + a) + l <= Len(s)
    BY <2>5, <2>7
  <2>13. At(s, b + a, PartPackets(p))
    BY <2>3, <2>11, <2>12 DEF At
  <2>14. i < n => Place(f, x, i + 1) = (b + a) + l
    <3>1. ASSUME i < n PROVE Place(f, x, i + 1) = b + at[(i + 1) - 1]
      BY <1>8, <3>1
    <3>2. (i + 1) - 1 = i
      OBVIOUS
    <3>3. QED
      BY <2>5, <3>1, <3>2
  <2>15. i = n => Base(f, x + 1) = (b + a) + l
    BY <1>7, <2>4, <2>5
  <2>16. QED
    BY <2>1, <2>3, <2>6, <2>12, <2>13, <2>14, <2>15
<1>12. QED
  BY <1>1, <1>2, <1>9, <1>10, <1>11

\* Arithmetic of places.
LEMMA PlusOne == \A z, m \in Nat : z + 1 + m = z + (1 + m) /\ z + 1 + (m + 1) = (z + 1 + m) + 1
OBVIOUS

\* A sequence of which all is there, and one of which one more is.
LEMMA FirstOfFacts ==
    ASSUME NEW S, NEW a \in Seq(S), NEW b \in Seq(S), FirstOf(a, b)
    PROVE  /\ Len(a) = Len(b) => a = b
           /\ Len(a) # Len(b) => Len(a) < Len(b)
           /\ Len(a) < Len(b) => FirstOf(Append(a, b[Len(a) + 1]), b)
<1>1. Len(a) <= Len(b) /\ \A i \in 1..Len(a) : a[i] = b[i]
  BY DEF FirstOf
<1>2. Len(a) = Len(b) => a = b
  BY <1>1
<1>3. ASSUME Len(a) < Len(b) PROVE FirstOf(Append(a, b[Len(a) + 1]), b)
  <2>1. PICK g \in S, n \in Nat : n = Len(a) /\ g = b[n + 1] /\ n + 1 <= Len(b)
    BY <1>3
  <2>2. Len(Append(a, g)) = n + 1
    BY <2>1
  <2>3. \A i \in 1..(n + 1) : (i \in 1..n /\ Append(a, g)[i] = a[i]) \/ (i = n + 1 /\ Append(a, g)[i] = g)
    BY <2>1
  <2>4. \A i \in 1..(n + 1) : Append(a, g)[i] = b[i]
    BY <1>1, <2>1, <2>3
  <2>5. QED
    BY <2>1, <2>2, <2>4 DEF FirstOf
<1>4. QED
  BY <1>1, <1>2, <1>3

\* An empty container is passed.
LEMMA BeforeEmpty ==
    ASSUME NEW f \in Key, Len(f.primary) = 1, NEW k \in Key, NEW p \in Nat, NEW x \in 1..4,
           Before(f, k, p, x), Len(f.parts[Order[x]]) = 0
    PROVE  Before(f, k, p, x + 1)
<1>1. f.parts[Order[x]] \in Seq(Part)
  BY BaseFacts, KeyFields
<1>2. f.parts[Order[x]] = <<>> /\ k.parts[Order[x]] = <<>>
  BY <1>1 DEF Before
<1>3. p = Base(f, x + 1)
  BY <1>1, PlaceFacts DEF Before
<1>4. Upto(k, f, x + 1)
  <2>1. ASSUME NEW y \in 1..4
        PROVE  (y < x + 1 => k.parts[Order[y]] = f.parts[Order[y]]) /\ (y > x + 1 => k.parts[Order[y]] = <<>>)
    <3>1. (y < x => k.parts[Order[y]] = f.parts[Order[y]]) /\ (y > x => k.parts[Order[y]] = <<>>)
      BY DEF Before, Upto
    <3>2. (y < x + 1 => y < x \/ y = x) /\ (y > x + 1 => y > x)
      OBVIOUS
    <3>3. QED
      BY <1>2, <3>1, <3>2
  <2>2. QED
    BY <2>1 DEF Upto
<1>5. x + 1 < 5 => k.parts[Order[x + 1]] = <<>>
  <2>1. x + 1 < 5 => x + 1 \in 1..4 /\ x + 1 > x
    OBVIOUS
  <2>2. QED
    BY <2>1 DEF Before, Upto
<1>6. QED
  BY <1>3, <1>4, <1>5 DEF Before

\* A full one, too.
LEMMA InsideFull ==
    ASSUME NEW f \in Key, Len(f.primary) = 1, NEW k \in Key, NEW p \in Nat, NEW x \in 1..4,
           NEW ps \in Seq(Part), ps = f.parts[Order[x]], NEW n \in Nat, n = Len(ps), n >= 1,
           NEW m \in Nat, m = Len(ps[n].signatures), Inside(f, k, p, x, n, m)
    PROVE  Before(f, k, p, x + 1)
<1>1. PICK qs \in Seq(Part) : qs = k.parts[Order[x]]
  BY BaseFacts, KeyFields
<1>2. /\ SameHead(k, f) /\ Upto(k, f, x) /\ Len(qs) = n
      /\ \A l \in 1..n : l < n => qs[l] = ps[l]
      /\ qs[n].packet = ps[n].packet
      /\ Len(qs[n].signatures) = m /\ FirstOf(qs[n].signatures, ps[n].signatures)
      /\ p = Place(f, x, n) + 1 + m
  BY <1>1 DEF Inside
<1>21. n \in 1..Len(qs) /\ n \in 1..Len(ps)
  BY <1>2, InRange, Zenon
<1>22. qs[n] \in Part /\ ps[n] \in Part
  BY <1>21, ElementOf
<1>3. PICK a \in Part, b \in Part : a = qs[n] /\ b = ps[n]
  BY <1>22
<1>4. /\ a.signatures \in Seq(Item) /\ b.signatures \in Seq(Item)
      /\ a = [packet |-> a.packet, signatures |-> a.signatures]
      /\ b = [packet |-> b.packet, signatures |-> b.signatures]
  BY DEF Part
<1>20. Len(a.signatures) = Len(b.signatures) /\ FirstOf(a.signatures, b.signatures)
  BY <1>2, <1>3
<1>5. a.signatures = b.signatures
  BY <1>4, <1>20, FirstOfFacts
<1>6. a = b
  BY <1>2, <1>3, <1>4, <1>5
<1>7. \A l \in 1..n : qs[l] = ps[l]
  <2>1. \A l \in 1..n : l < n \/ l = n
    OBVIOUS
  <2>2. QED
    BY <1>2, <1>3, <1>6, <2>1
<1>8. qs = ps
  BY <1>2, <1>7, SameElements
<1>9. p = Base(f, x + 1)
  <2>1. n \in 1..Len(ps)
    OBVIOUS
  <2>2. Place(f, x, n) \in Nat /\ Base(f, x + 1) = Place(f, x, n) + (1 + m)
    BY <2>1, PlaceFacts
  <2>3. PICK z \in Nat : z = Place(f, x, n)
    BY <2>2
  <2>4. p = z + 1 + m /\ Base(f, x + 1) = z + (1 + m)
    BY <1>2, <2>2, <2>3
  <2>5. z + 1 + m = z + (1 + m)
    BY PlusOne
  <2>6. QED
    BY <2>4, <2>5
<1>10. Upto(k, f, x + 1)
  <2>1. ASSUME NEW y \in 1..4
        PROVE  (y < x + 1 => k.parts[Order[y]] = f.parts[Order[y]]) /\ (y > x + 1 => k.parts[Order[y]] = <<>>)
    <3>1. (y < x => k.parts[Order[y]] = f.parts[Order[y]]) /\ (y > x => k.parts[Order[y]] = <<>>)
      BY <1>2 DEF Upto
    <3>2. (y < x + 1 => y < x \/ y = x) /\ (y > x + 1 => y > x)
      OBVIOUS
    <3>3. QED
      BY <1>1, <1>8, <3>1, <3>2
  <2>2. QED
    BY <2>1 DEF Upto
<1>11. x + 1 < 5 => k.parts[Order[x + 1]] = <<>>
  <2>1. x + 1 < 5 => x + 1 \in 1..4 /\ x + 1 > x
    OBVIOUS
  <2>2. QED
    BY <1>2, <2>1 DEF Upto
<1>12. QED
  BY <1>2, <1>9, <1>10, <1>11 DEF Before

\* Before a container: the key is read, or the first part of a later one comes.
Settled(f, k, p, y) == y \in 1..4 /\ Before(f, k, p, y) /\ Len(f.parts[Order[y]]) > 0

\* Empty containers are passed over: either all is read or a part comes next.
LEMMA Settles ==
    ASSUME NEW f \in Key, Len(f.primary) = 1, NEW k \in Key, NEW p \in Nat, NEW x \in 1..5,
           Before(f, k, p, x)
    PROVE  Before(f, k, p, 5) \/ \E y \in 1..4 : x <= y /\ Settled(f, k, p, y)
<1>1. \A y \in 1..4 : Len(f.parts[Order[y]]) \in Nat
  BY BaseFacts, KeyFields
<1>2. ASSUME NEW y \in 1..4, Before(f, k, p, y)
      PROVE  Before(f, k, p, y + 1) \/ Settled(f, k, p, y)
  <2>1. CASE Len(f.parts[Order[y]]) = 0
    BY <1>2, <2>1, BeforeEmpty
  <2>2. CASE Len(f.parts[Order[y]]) > 0
    BY <1>2, <2>2 DEF Settled
  <2>3. QED
    BY <1>1, <2>1, <2>2
<1>3. ASSUME Before(f, k, p, 4) PROVE Before(f, k, p, 5) \/ Settled(f, k, p, 4)
  BY <1>2, <1>3
<1>4. ASSUME Before(f, k, p, 3) PROVE Before(f, k, p, 4) \/ Settled(f, k, p, 3)
  BY <1>2, <1>4
<1>5. ASSUME Before(f, k, p, 2) PROVE Before(f, k, p, 3) \/ Settled(f, k, p, 2)
  BY <1>2, <1>5
<1>6. ASSUME Before(f, k, p, 1) PROVE Before(f, k, p, 2) \/ Settled(f, k, p, 1)
  BY <1>2, <1>6
<1>7. x = 1 \/ x = 2 \/ x = 3 \/ x = 4 \/ x = 5
  OBVIOUS
<1>8. QED
  BY <1>3, <1>4, <1>5, <1>6, <1>7

\* The kinds of the packets of a written key.
PartShaped(part, c) ==
    /\ part \in Part /\ part.packet \in Item /\ part.packet.tag = c
    /\ part.signatures \in Seq(Item) /\ Len(part.signatures) \in Nat
    /\ \A m \in 1..Len(part.signatures) :
          part.signatures[m] \in Item /\ part.signatures[m].tag = "Signature"

\* The tags of what a key of the right shape writes for a container.
LEMMA ShapeTags ==
    ASSUME NEW f \in Key, NEW t, Shape(f, t), NEW x \in 1..4
    PROVE  /\ Len(f.primary) = 1 /\ f.parts[Order[x]] \in Seq(Part)
           /\ \A i \in 1..Len(f.parts[Order[x]]) : PartShaped(f.parts[Order[x]][i], Order[x])
<1>1. PICK c \in Container : c = Order[x]
  BY BaseFacts
<1>2. PICK ps \in Seq(Part) : ps = f.parts[c]
  BY KeyFields
<1>3. ASSUME NEW i \in 1..Len(ps) PROVE PartShaped(ps[i], c)
  <2>1. PICK p \in Part : p = ps[i]
    OBVIOUS
  <2>2. p.packet \in Item /\ p.signatures \in Seq(Item)
    BY DEF Part
  <2>3. p.packet.tag = c /\ AllSignatures(p.signatures)
    BY <1>2, <2>1 DEF Shape, RawShape
  <2>4. PartShaped(p, c)
    BY <2>2, <2>3 DEF AllSignatures, PartShaped
  <2>5. QED
    BY <2>1, <2>4
<1>4. Len(f.primary) = 1
  BY DEF Shape, RawShape
<1>5. QED
  BY <1>1, <1>2, <1>3, <1>4

\* A part is written behind a packets.
WrittenAt(s, a, part) ==
    /\ a \in Nat /\ a + 1 <= Len(s) /\ s[a + 1] = part.packet
    /\ \A m \in 1..Len(part.signatures) : a + 1 + m <= Len(s) /\ s[a + 1 + m] = part.signatures[m]

\* What is written at the place of a part.
LEMMA PartPlaced ==
    ASSUME NEW f \in Key, Len(f.primary) = 1, NEW x \in 1..4
    PROVE  \A i \in 1..Len(f.parts[Order[x]]) :
              WrittenAt(Serialize(f), Place(f, x, i), f.parts[Order[x]][i])
<1>1. PICK c \in Container : c = Order[x]
  BY BaseFacts
<1>2. Serialize(f) \in Seq(Item)
  BY SerializeElems
<1>3. PICK ps \in Seq(Part), s \in Seq(Item) : ps = f.parts[Order[x]] /\ s = Serialize(f)
  BY <1>1, <1>2, KeyFields
<1>4. ASSUME NEW i \in 1..Len(ps) PROVE WrittenAt(s, Place(f, x, i), ps[i])
  <2>1. /\ Place(f, x, i) \in Nat /\ Place(f, x, i) + (1 + Len(ps[i].signatures)) <= Len(s)
        /\ At(s, Place(f, x, i), PartPackets(ps[i]))
    BY <1>3, PlaceFacts
  <2>2. PICK p \in Part, a \in Nat : p = ps[i] /\ a = Place(f, x, i)
    BY <2>1
  <2>3. p.signatures \in Seq(Item)
    BY DEF Part
  <2>4. PICK l \in Nat : l = Len(p.signatures)
    BY <2>3
  <2>5. a + (1 + l) <= Len(s) /\ At(s, a, PartPackets(p))
    BY <2>1, <2>2, <2>4
  <2>6. /\ Len(PartPackets(p)) = 1 + l /\ PartPackets(p)[1] = p.packet
        /\ \A m \in 1..l : PartPackets(p)[1 + m] = p.signatures[m]
    BY <2>4, PartPacketsFacts
  <2>7. \A j \in 1..(1 + l) : s[a + j] = PartPackets(p)[j]
    BY <2>5, <2>6 DEF At
  <2>8. 1 \in 1..(1 + l) /\ \A m \in 1..l : 1 + m \in 1..(1 + l) /\ a + 1 + m = a + (1 + m)
    OBVIOUS
  <2>9. s[a + 1] = p.packet /\ \A m \in 1..l : s[a + 1 + m] = p.signatures[m]
    BY <2>6, <2>7, <2>8
  <2>10. a + 1 <= Len(s) /\ \A m \in 1..l : a + 1 + m <= Len(s)
    BY <1>3, <2>5
  <2>11. WrittenAt(s, a, p)
    BY <2>4, <2>9, <2>10 DEF WrittenAt
  <2>12. QED
    BY <2>2, <2>11
<1>5. QED
  BY <1>3, <1>4

\* The first part of a container is next, and it is taken.
LEMMA SettledNext ==
    ASSUME NEW f \in Key, NEW t, Shape(f, t), NEW k \in Key, NEW p \in Nat, NEW y \in 1..4,
           Settled(f, k, p, y), NEW s \in Seq(Item), s = Serialize(f)
    PROVE  /\ p + 1 <= Len(s) /\ s[p + 1] \in Item /\ s[p + 1].tag = Order[y]
           /\ Inside(f, AddPart(k, s[p + 1]), p + 1, y, 1, 0)
<1>1. PICK ps \in Seq(Part), n \in Nat : ps = f.parts[Order[y]] /\ n = Len(ps) /\ n > 0
  <2>1. f.parts[Order[y]] \in Seq(Part)
    BY BaseFacts, KeyFields
  <2>2. QED
    BY <2>1 DEF Settled
<1>2. 1 \in 1..Len(ps) /\ 1 <= n
  BY <1>1
<1>3. /\ Len(f.primary) = 1 /\ ps[1] \in Part /\ ps[1].packet \in Item /\ ps[1].packet.tag = Order[y]
      /\ ps[1].signatures \in Seq(Item)
  <2>1. Len(f.primary) = 1 /\ PartShaped(ps[1], Order[y])
    BY <1>1, <1>2, ShapeTags
  <2>2. QED
    BY <2>1 DEF PartShaped
<1>4. p = Base(f, y) /\ Place(f, y, 1) = Base(f, y)
  BY <1>1, <1>2, <1>3, PlaceFacts DEF Settled, Before
<1>5. p + 1 <= Len(s) /\ s[p + 1] = ps[1].packet
  <2>1. WrittenAt(s, Place(f, y, 1), ps[1])
    BY <1>1, <1>2, <1>3, PartPlaced
  <2>2. QED
    BY <1>4, <2>1 DEF WrittenAt
<1>6. PICK g \in Item : g = s[p + 1] /\ g = ps[1].packet /\ g.tag = Order[y]
  BY <1>3, <1>5
<1>7. Order[y] \in Container
  BY BaseFacts
<1>8. PICK l : l = AddPart(k, g)
  OBVIOUS
<1>9. /\ l.primary = k.primary /\ l.revocations = k.revocations /\ l.directs = k.directs
  BY <1>8 DEF AddPart
<1>10. /\ l.parts[Order[y]] = Append(k.parts[Order[y]], NewPart(g))
       /\ \A c \in Container : c # Order[y] => l.parts[c] = k.parts[c]
  BY <1>6, <1>7, <1>8, AddPartFacts
<1>11. k.parts[Order[y]] = <<>> /\ SameHead(k, f) /\ Upto(k, f, y)
  BY DEF Settled, Before
<1>12. PICK qs : qs = l.parts[Order[y]]
  OBVIOUS
<1>13. Len(qs) = 1 /\ qs[1] = NewPart(g)
  BY <1>10, <1>11, <1>12
<1>14. qs[1].packet = ps[1].packet /\ qs[1].signatures = <<>>
  BY <1>6, <1>13 DEF NewPart
<1>15. Len(qs[1].signatures) = 0 /\ FirstOf(qs[1].signatures, ps[1].signatures)
  BY <1>3, <1>14 DEF FirstOf
<1>16. Upto(l, f, y)
  <2>1. \A z \in 1..4 : z # y => Order[z] # Order[y] /\ Order[z] \in Container
    BY DEF Order, Container
  <2>2. \A z \in 1..4 : (z < y => z # y) /\ (z > y => z # y)
    OBVIOUS
  <2>3. QED
    BY <1>10, <1>11, <2>1, <2>2 DEF Upto
<1>17. SameHead(l, f)
  BY <1>9, <1>11 DEF SameHead
<1>18. p + 1 = Place(f, y, 1) + 1 + 0
  BY <1>4
<1>19. \A j \in 1..1 : ~(j < 1)
  OBVIOUS
<1>20. Inside(f, l, p + 1, y, 1, 0)
  BY <1>1, <1>2, <1>12, <1>13, <1>14, <1>15, <1>16, <1>17, <1>18, <1>19 DEF Inside
<1>21. QED
  BY <1>5, <1>6, <1>8, <1>20

TakesSignature(f, k, p, x, i, m, s) ==
    /\ p + 1 <= Len(s) /\ s[p + 1] \in Item /\ s[p + 1].tag = "Signature"
    /\ Inside(f, AddSignature(k, Order[x], s[p + 1]), p + 1, x, i, m + 1)

TakesPart(f, k, p, x, i, s) ==
    /\ p + 1 <= Len(s) /\ s[p + 1] \in Item /\ s[p + 1].tag = Order[x]
    /\ Inside(f, AddPart(k, s[p + 1]), p + 1, x, i + 1, 0)

\* The next signature on a part.
LEMMA InsideSignature ==
    ASSUME NEW f \in Key, NEW t, Shape(f, t), NEW k \in Key, NEW p \in Nat, NEW x \in 1..4,
           NEW i \in Nat, i >= 1, NEW m \in Nat, Inside(f, k, p, x, i, m),
           m < Len(f.parts[Order[x]][i].signatures)
    PROVE  TakesSignature(f, k, p, x, i, m, Serialize(f))
<1>1. Order[x] \in Container
  BY BaseFacts
<1>30. PICK ps \in Seq(Part) : ps = f.parts[Order[x]]
  BY <1>1, KeyFields
<1>31. PICK s : s = Serialize(f)
  OBVIOUS
<1>32. s \in Seq(Item)
  BY <1>31, SerializeElems
<1>2. PICK qs \in Seq(Part) : qs = k.parts[Order[x]]
  BY <1>1, KeyFields
<1>3. /\ SameHead(k, f) /\ Upto(k, f, x) /\ i <= Len(ps) /\ Len(qs) = i
      /\ \A l \in 1..i : l < i => qs[l] = ps[l]
      /\ qs[i].packet = ps[i].packet
      /\ Len(qs[i].signatures) = m /\ FirstOf(qs[i].signatures, ps[i].signatures)
      /\ p = Place(f, x, i) + 1 + m
  BY <1>2, <1>30 DEF Inside
<1>4. i \in 1..Len(ps) /\ i \in 1..Len(qs) /\ i \in 1..i
  BY <1>3
<1>5. Len(f.primary) = 1 /\ PartShaped(ps[i], Order[x])
  BY <1>4, <1>30, ShapeTags
<1>6. WrittenAt(s, Place(f, x, i), ps[i])
  BY <1>4, <1>5, <1>30, <1>31, PartPlaced
<1>7. PICK a \in Nat, gs \in Seq(Item), n \in Nat : a = Place(f, x, i) /\ gs = ps[i].signatures /\ n = Len(gs)
  BY <1>5, <1>6 DEF WrittenAt, PartShaped
<1>8. PICK j \in Nat : j = m + 1 /\ j \in 1..n
  BY <1>7, <1>30
<1>9. a + 1 + j <= Len(s) /\ s[a + 1 + j] = gs[j] /\ gs[j] \in Item /\ gs[j].tag = "Signature"
  BY <1>5, <1>6, <1>7, <1>8 DEF WrittenAt, PartShaped
<1>10. a + 1 + j = p + 1
  <2>1. p = a + 1 + m
    BY <1>3, <1>7
  <2>2. a + 1 + (m + 1) = (a + 1 + m) + 1
    BY PlusOne
  <2>3. QED
    BY <1>8, <2>1, <2>2
<1>11. p + 1 <= Len(s) /\ s[p + 1] = gs[j]
  BY <1>9, <1>10
<1>12. PICK g \in Item : g = s[p + 1] /\ g = gs[j] /\ g.tag = "Signature"
  BY <1>9, <1>11
<1>13. PICK c \in Container : c = Order[x]
  BY <1>1
<1>14. Len(k.parts[c]) > 0 /\ Len(k.parts[c]) = i /\ k.parts[c] = qs
  BY <1>2, <1>3, <1>4, <1>13
<1>15. PICK l : l = AddSignature(k, c, g)
  OBVIOUS
<1>16. l.primary = k.primary /\ l.revocations = k.revocations /\ l.directs = k.directs
  BY <1>15 DEF AddSignature
<1>17. SignatureAdded(k, l, c, g) /\ LastPart(k, c) \in Part
  BY <1>14, <1>15, AddSignatureFacts
<1>18. PICK b \in Part : b = LastPart(k, c) /\ b = qs[i]
  BY <1>14, <1>17 DEF LastPart
<1>19. PICK rs : rs = l.parts[c]
  OBVIOUS
<1>20. Len(rs) = i /\ rs[i] = Signed(b, g) /\ \A y \in 1..i : y < i => rs[y] = qs[y]
  BY <1>4, <1>14, <1>17, <1>18, <1>19 DEF SignatureAdded
<1>21. b.signatures \in Seq(Item) /\ Len(b.signatures) = m /\ FirstOf(b.signatures, gs)
  BY <1>3, <1>7, <1>18 DEF Part
<1>22. FirstOf(Append(b.signatures, g), gs) /\ Len(Append(b.signatures, g)) = m + 1
  <2>1. Len(b.signatures) < Len(gs) /\ g = gs[Len(b.signatures) + 1]
    BY <1>7, <1>8, <1>12, <1>21
  <2>2. FirstOf(Append(b.signatures, gs[Len(b.signatures) + 1]), gs)
    BY <1>21, <2>1, FirstOfFacts
  <2>3. QED
    BY <1>21, <2>1, <2>2
<1>23. rs[i].packet = ps[i].packet /\ rs[i].signatures = Append(b.signatures, g)
  BY <1>3, <1>18, <1>20 DEF Signed
<1>24. Upto(l, f, x)
  <2>1. \A z \in 1..4 : z # x => Order[z] # Order[x] /\ Order[z] \in Container
    BY DEF Order, Container
  <2>2. \A z \in 1..4 : (z < x => z # x) /\ (z > x => z # x)
    OBVIOUS
  <2>3. \A d \in Container : d # Order[x] => l.parts[d] = k.parts[d]
    BY <1>13, <1>17 DEF SignatureAdded
  <2>4. QED
    BY <1>3, <2>1, <2>2, <2>3 DEF Upto
<1>25. SameHead(l, f)
  BY <1>3, <1>16 DEF SameHead
<1>26. p + 1 = Place(f, x, i) + 1 + (m + 1)
  BY <1>7, <1>8, <1>10
<1>27. \A y \in 1..i : y < i => rs[y] = ps[y]
  BY <1>3, <1>20
<1>28. Inside(f, l, p + 1, x, i, m + 1)
  BY <1>3, <1>7, <1>30, <1>13, <1>19, <1>20, <1>22, <1>23, <1>24, <1>25, <1>26, <1>27 DEF Inside
<1>29. TakesSignature(f, k, p, x, i, m, s)
  BY <1>11, <1>12, <1>13, <1>15, <1>28 DEF TakesSignature
<1>33. QED
  BY <1>29, <1>31

\* The next part of the same container.
LEMMA InsidePart ==
    ASSUME NEW f \in Key, NEW t, Shape(f, t), NEW k \in Key, NEW p \in Nat, NEW x \in 1..4,
           NEW i \in Nat, i >= 1, i < Len(f.parts[Order[x]]), NEW m \in Nat, Inside(f, k, p, x, i, m),
           m = Len(f.parts[Order[x]][i].signatures)
    PROVE  TakesPart(f, k, p, x, i, Serialize(f))
<1>1. PICK c \in Container : c = Order[x]
  BY BaseFacts
<1>31. PICK ps \in Seq(Part) : ps = f.parts[Order[x]] /\ i < Len(ps)
  BY <1>1, KeyFields
<1>32. PICK s : s = Serialize(f)
  OBVIOUS
<1>33. s \in Seq(Item)
  BY <1>32, SerializeElems
<1>2. PICK qs \in Seq(Part) : qs = k.parts[c]
  BY KeyFields
<1>3. /\ SameHead(k, f) /\ Upto(k, f, x) /\ i <= Len(ps) /\ Len(qs) = i
      /\ \A l \in 1..i : l < i => qs[l] = ps[l]
      /\ qs[i].packet = ps[i].packet
      /\ Len(qs[i].signatures) = m /\ FirstOf(qs[i].signatures, ps[i].signatures)
      /\ p = Place(f, x, i) + 1 + m
  BY <1>1, <1>2, <1>31 DEF Inside
<1>4. i \in 1..Len(ps) /\ i \in 1..Len(qs) /\ i \in 1..i
  BY <1>3
<1>5. PICK a \in Part, b \in Part : a = qs[i] /\ b = ps[i]
  BY <1>4
<1>6. /\ a.signatures \in Seq(Item) /\ b.signatures \in Seq(Item)
      /\ a = [packet |-> a.packet, signatures |-> a.signatures]
      /\ b = [packet |-> b.packet, signatures |-> b.signatures]
  BY DEF Part
<1>7. Len(a.signatures) = Len(b.signatures) /\ FirstOf(a.signatures, b.signatures)
  BY <1>3, <1>5, <1>31
<1>8. a.signatures = b.signatures
  BY <1>6, <1>7, FirstOfFacts
<1>9. a = b
  BY <1>3, <1>5, <1>6, <1>8
<1>10. \A l \in 1..i : qs[l] = ps[l]
  <2>1. \A l \in 1..i : l < i \/ l = i
    OBVIOUS
  <2>2. QED
    BY <1>3, <1>5, <1>9, <2>1
<1>11. PICK n \in Nat : n = i + 1 /\ n \in 1..Len(ps) /\ n \in 1..n
  BY <1>31
<1>12. /\ Len(f.primary) = 1 /\ ps[n] \in Part /\ ps[n].packet \in Item /\ ps[n].packet.tag = Order[x]
       /\ ps[n].signatures \in Seq(Item) /\ Len(ps[n].signatures) \in Nat
  <2>1. Len(f.primary) = 1 /\ PartShaped(ps[n], Order[x])
    BY <1>11, <1>31, ShapeTags
  <2>2. QED
    BY <2>1 DEF PartShaped
<1>13. p = Place(f, x, n)
  <2>1. Place(f, x, i) \in Nat /\ Place(f, x, n) = Place(f, x, i) + (1 + m)
    BY <1>4, <1>11, <1>12, <1>31, PlaceFacts
  <2>2. PICK z \in Nat : z = Place(f, x, i)
    BY <2>1
  <2>3. z + 1 + m = z + (1 + m)
    BY PlusOne
  <2>4. QED
    BY <1>3, <2>1, <2>2, <2>3
<1>14. p + 1 <= Len(s) /\ s[p + 1] = ps[n].packet
  <2>1. WrittenAt(s, Place(f, x, n), ps[n])
    BY <1>11, <1>12, <1>31, <1>32, PartPlaced
  <2>2. QED
    BY <1>13, <2>1 DEF WrittenAt
<1>15. PICK g \in Item : g = s[p + 1] /\ g = ps[n].packet /\ g.tag = c
  BY <1>1, <1>12, <1>14
<1>16. PICK l : l = AddPart(k, g)
  OBVIOUS
<1>17. /\ l.primary = k.primary /\ l.revocations = k.revocations /\ l.directs = k.directs
  BY <1>16 DEF AddPart
<1>18. /\ l.parts[c] = Append(k.parts[c], NewPart(g)) /\ NewPart(g) \in Part
       /\ \A d \in Container : d # c => l.parts[d] = k.parts[d]
  BY <1>15, <1>16, AddPartFacts
<1>29. PICK w \in Part : w = NewPart(g)
  BY <1>18
<1>30. PICK rs : rs = l.parts[c]
  OBVIOUS
<1>19. rs = l.parts[c] /\ w = NewPart(g) /\ rs = Append(qs, w)
  BY <1>2, <1>18, <1>29, <1>30
<1>20. Len(rs) = n /\ rs[n] = w /\ \A y \in 1..n : y < n => y \in 1..i /\ rs[y] = qs[y]
  BY <1>3, <1>11, <1>19
<1>21. w.packet = ps[n].packet /\ w.signatures = <<>>
  BY <1>15, <1>19 DEF NewPart
<1>22. Len(rs[n].signatures) = 0 /\ FirstOf(rs[n].signatures, ps[n].signatures)
  <2>1. rs[n].signatures = <<>> /\ Len(<<>>) = 0 /\ 1..0 = {}
    BY <1>20, <1>21
  <2>2. Len(ps[n].signatures) \in Nat
    BY <1>12
  <2>3. QED
    BY <2>1, <2>2 DEF FirstOf
<1>23. Upto(l, f, x)
  <2>1. \A z \in 1..4 : z # x => Order[z] # Order[x] /\ Order[z] \in Container
    BY DEF Order, Container
  <2>2. \A z \in 1..4 : (z < x => z # x) /\ (z > x => z # x)
    OBVIOUS
  <2>3. QED
    BY <1>1, <1>3, <1>18, <2>1, <2>2 DEF Upto
<1>24. SameHead(l, f)
  BY <1>3, <1>17 DEF SameHead
<1>25. p + 1 = Place(f, x, n) + 1 + 0
  BY <1>13
<1>26. \A y \in 1..n : y < n => rs[y] = ps[y]
  BY <1>10, <1>20
<1>27. Inside(f, l, p + 1, x, n, 0)
  <2>1. n <= Len(ps) /\ rs[n].packet = ps[n].packet
    BY <1>11, <1>20, <1>21
  <2>2. ps = f.parts[Order[x]] /\ rs = l.parts[Order[x]]
    BY <1>1, <1>19, <1>31
  <2>3. QED
    BY <1>20, <1>22, <1>23, <1>24, <1>25, <1>26, <2>1, <2>2, InsideIs
<1>28. TakesPart(f, k, p, x, i, s)
  BY <1>1, <1>11, <1>14, <1>15, <1>16, <1>27 DEF TakesPart
<1>34. QED
  BY <1>28, <1>32

\* What can come next in a loop: a signature on the part last taken, a part of
\* its two containers, or the end of both.
SignatureNext(f, k, p, c, lo, s) ==
    /\ c \in Container /\ p + 1 <= Len(s) /\ s[p + 1] \in Item /\ s[p + 1].tag = "Signature"
    /\ InLoop(f, AddSignature(k, c, s[p + 1]), p + 1, c, lo)

PartNext(f, k, p, lo, s) ==
    /\ p + 1 <= Len(s) /\ s[p + 1] \in Item
    /\ \E x \in {lo, lo + 1} : s[p + 1].tag = Order[x] /\ Len(f.parts[Order[x]]) > 0
    /\ InLoop(f, AddPart(k, s[p + 1]), p + 1, s[p + 1].tag, lo)

EndNext(f, k, p, lo, s) ==
    /\ Before(f, k, p, lo + 2)
    /\ p = Len(s) \/ \E y \in 1..4 : lo + 2 <= y /\ p + 1 <= Len(s) /\ s[p + 1].tag = Order[y]

\* Before a container of the loop, or behind it.
LEMMA BeforeNext ==
    ASSUME NEW f \in Key, NEW t, Shape(f, t), NEW k \in Key, NEW p \in Nat, NEW lo \in {1, 3},
           NEW x \in 1..5, lo <= x, x <= lo + 2, Before(f, k, p, x), NEW s \in Seq(Item), s = Serialize(f)
    PROVE  PartNext(f, k, p, lo, s) \/ EndNext(f, k, p, lo, s)
<1>1. Len(f.primary) = 1 /\ Len(s) = Base(f, 5)
  BY SerializeLayout DEF Shape, RawShape
<1>2. \A y \in 1..4 : Settled(f, k, p, y) => /\ p + 1 <= Len(s) /\ s[p + 1] \in Item /\ s[p + 1].tag = Order[y]
                                             /\ Inside(f, AddPart(k, s[p + 1]), p + 1, y, 1, 0)
  BY SettledNext
<1>3. ASSUME NEW y \in 1..4, Settled(f, k, p, y), y \in {lo, lo + 1}
      PROVE  PartNext(f, k, p, lo, s)
  <2>1. Len(f.parts[Order[y]]) > 0
    BY <1>3 DEF Settled
  <2>2. 1 \in Nat /\ 0 \in Nat /\ 1 >= 1
    OBVIOUS
  <2>3. InLoop(f, AddPart(k, s[p + 1]), p + 1, s[p + 1].tag, lo)
    BY <1>2, <1>3, <2>2 DEF InLoop
  <2>4. QED
    BY <1>2, <1>3, <2>1, <2>3 DEF PartNext
<1>4. \A y \in 1..5 : (x <= y /\ y < lo + 2 => y \in {lo, lo + 1}) /\ (y < lo + 2 \/ lo + 2 <= y)
  OBVIOUS
<1>5. lo + 2 \in 1..5
  OBVIOUS
<1>6. ASSUME NEW z \in 1..4, Before(f, k, p, z) PROVE Before(f, k, p, z + 1) \/ Settled(f, k, p, z)
  <2>1. Len(f.parts[Order[z]]) \in Nat
    BY BaseFacts, KeyFields
  <2>2. CASE Len(f.parts[Order[z]]) = 0
    BY <1>1, <1>6, <2>2, BeforeEmpty
  <2>3. CASE Len(f.parts[Order[z]]) > 0
    BY <1>6, <2>3 DEF Settled
  <2>4. QED
    BY <2>1, <2>2, <2>3
<1>7. ASSUME ~PartNext(f, k, p, lo, s) PROVE Before(f, k, p, lo + 2)
  <2>1. x = lo \/ x = lo + 1 \/ x = lo + 2
    OBVIOUS
  <2>2. lo \in 1..4 /\ lo + 1 \in 1..4 /\ (lo + 1) + 1 = lo + 2
    OBVIOUS
  <2>3. Before(f, k, p, lo) => Before(f, k, p, lo + 1)
    BY <1>3, <1>6, <1>7, <2>2
  <2>4. Before(f, k, p, lo + 1) => Before(f, k, p, (lo + 1) + 1)
    BY <1>3, <1>6, <1>7, <2>2
  <2>5. QED
    BY <2>1, <2>2, <2>3, <2>4
<1>8. ASSUME Before(f, k, p, lo + 2) PROVE EndNext(f, k, p, lo, s)
  <2>1. Before(f, k, p, 5) \/ \E y \in 1..4 : lo + 2 <= y /\ Settled(f, k, p, y)
    BY <1>1, <1>5, <1>8, Settles
  <2>2. Before(f, k, p, 5) => p = Len(s)
    BY <1>1 DEF Before
  <2>3. QED
    BY <1>2, <1>8, <2>1, <2>2 DEF EndNext
<1>9. QED
  BY <1>7, <1>8

\* Somewhere in the loop.
LEMMA LoopNext ==
    ASSUME NEW f \in Key, NEW t, Shape(f, t), NEW k \in Key, NEW p \in Nat, NEW lo \in {1, 3},
           NEW c, InLoop(f, k, p, c, lo), NEW s \in Seq(Item), s = Serialize(f)
    PROVE  /\ k.primary = f.primary
           /\ \/ SignatureNext(f, k, p, c, lo, s)
              \/ PartNext(f, k, p, lo, s)
              \/ EndNext(f, k, p, lo, s)
<1>1. CASE c = "none" /\ Before(f, k, p, lo)
  <2>1. lo \in 1..5 /\ lo <= lo /\ lo <= lo + 2
    OBVIOUS
  <2>2. PartNext(f, k, p, lo, s) \/ EndNext(f, k, p, lo, s)
    BY <1>1, <2>1, BeforeNext
  <2>3. k.primary = f.primary
    BY <1>1 DEF Before, SameHead
  <2>4. QED
    BY <2>2, <2>3
<1>2. CASE \E x \in {lo, lo + 1} : c = Order[x] /\ \E i, m \in Nat : i >= 1 /\ Inside(f, k, p, x, i, m)
  <2>1. PICK x \in {lo, lo + 1}, i \in Nat, m \in Nat : c = Order[x] /\ i >= 1 /\ Inside(f, k, p, x, i, m)
    BY <1>2
  <2>2. x \in 1..4 /\ x + 1 \in 1..5 /\ lo <= x + 1 /\ x + 1 <= lo + 2
    OBVIOUS
  <2>3. Order[x] \in Container
    BY <2>2, BaseFacts
  <2>4. PICK ps \in Seq(Part) : ps = f.parts[Order[x]]
    BY <2>3, KeyFields
  <2>5. /\ SameHead(k, f) /\ i <= Len(ps)
        /\ Len(k.parts[Order[x]][i].signatures) = m
        /\ FirstOf(k.parts[Order[x]][i].signatures, ps[i].signatures)
    BY <2>1, <2>4 DEF Inside
  <2>6. k.primary = f.primary
    BY <2>5 DEF SameHead
  <2>7. i \in 1..Len(ps) /\ Len(ps) \in Nat
    BY <2>1, <2>5
  <2>8. Len(f.primary) = 1 /\ PartShaped(ps[i], Order[x])
    BY <2>2, <2>4, <2>7, ShapeTags
  <2>9. PICK n \in Nat : n = Len(ps[i].signatures) /\ m <= n
    BY <2>5, <2>8 DEF PartShaped, FirstOf
  <2>10. CASE m < n
    <3>1. /\ p + 1 <= Len(s) /\ s[p + 1] \in Item /\ s[p + 1].tag = "Signature"
          /\ Inside(f, AddSignature(k, Order[x], s[p + 1]), p + 1, x, i, m + 1)
      <4>1. m < Len(f.parts[Order[x]][i].signatures)
        BY <2>4, <2>9, <2>10
      <4>2. TakesSignature(f, k, p, x, i, m, Serialize(f))
        BY <2>1, <2>2, <4>1, InsideSignature
      <4>3. QED
        BY <4>2 DEF TakesSignature
    <3>2. m + 1 \in Nat
      OBVIOUS
    <3>3. InLoop(f, AddSignature(k, c, s[p + 1]), p + 1, c, lo)
      BY <2>1, <3>1, <3>2 DEF InLoop
    <3>4. QED
      BY <2>1, <2>3, <2>6, <3>1, <3>3 DEF SignatureNext
  <2>11. CASE m = n /\ i < Len(ps)
    <3>1. /\ p + 1 <= Len(s) /\ s[p + 1] \in Item /\ s[p + 1].tag = Order[x]
          /\ Inside(f, AddPart(k, s[p + 1]), p + 1, x, i + 1, 0)
      <4>1. m = Len(f.parts[Order[x]][i].signatures) /\ i < Len(f.parts[Order[x]])
        BY <2>4, <2>9, <2>11
      <4>2. TakesPart(f, k, p, x, i, Serialize(f))
        BY <2>1, <2>2, <4>1, InsidePart
      <4>3. QED
        BY <4>2 DEF TakesPart
    <3>2. i + 1 \in Nat /\ 0 \in Nat /\ i + 1 >= 1
      OBVIOUS
    <3>3. InLoop(f, AddPart(k, s[p + 1]), p + 1, s[p + 1].tag, lo)
      BY <2>1, <3>1, <3>2 DEF InLoop
    <3>4. Len(f.parts[Order[x]]) > 0
      BY <2>4, <2>7
    <3>5. QED
      BY <2>1, <2>6, <3>1, <3>3, <3>4 DEF PartNext
  <2>12. CASE m = n /\ i = Len(ps)
    <3>1. Before(f, k, p, x + 1)
      BY <2>1, <2>2, <2>4, <2>8, <2>9, <2>12, InsideFull
    <3>2. PICK z \in 1..5 : z = x + 1 /\ lo <= z /\ z <= lo + 2
      BY <2>2
    <3>3. Before(f, k, p, z)
      BY <3>1, <3>2
    <3>4. PartNext(f, k, p, lo, s) \/ EndNext(f, k, p, lo, s)
      BY <3>2, <3>3, BeforeNext
    <3>5. QED
      BY <2>6, <3>4
  <2>13. m < n \/ m = n
    BY <2>9
  <2>14. i < Len(ps) \/ i = Len(ps)
    BY <2>5, <2>7
  <2>15. QED
    BY <2>10, <2>11, <2>12, <2>13, <2>14
<1>3. QED
  BY <1>1, <1>2 DEF InLoop

\* What can come next among the signatures on the primary key.
RevocationNext(f, k, p, s) ==
    /\ p + 1 <= Len(s) /\ s[p + 1] \in Item
    /\ s[p + 1].tag = "Signature" /\ s[p + 1].typ = "KeyRevocation"
    /\ InHead(f, AddRevocation(k, s[p + 1]), p + 1)

DirectNext(f, k, p, s) ==
    /\ p + 1 <= Len(s) /\ s[p + 1] \in Item
    /\ s[p + 1].tag = "Signature" /\ s[p + 1].typ # "KeyRevocation"
    /\ InHead(f, AddDirect(k, s[p + 1]), p + 1)

PartsNext(f, k, p, s) ==
    /\ Before(f, k, p, 1)
    /\ p = Len(s) \/ (p + 1 <= Len(s) /\ s[p + 1].tag \in Container)

\* What comes next while the signatures of the primary key are read again.
LEMMA HeadNext ==
    ASSUME NEW f \in Key, NEW t, Shape(f, t), NEW k \in Key, NEW p \in Nat,
           InHead(f, k, p), NEW s \in Seq(Item), s = Serialize(f)
    PROVE  RevocationNext(f, k, p, s) \/ DirectNext(f, k, p, s) \/ PartsNext(f, k, p, s)
<1>1. /\ Len(f.primary) = 1 /\ AllSignatures(f.revocations) /\ AllOfTypes(f.revocations, {"KeyRevocation"})
      /\ AllSignatures(f.directs) /\ AllOfTypes(f.directs, SigType \ {"KeyRevocation"})
  BY DEF Shape, RawShape
<1>2. f.revocations \in Seq(Item) /\ f.directs \in Seq(Item) /\ k.revocations \in Seq(Item) /\ k.directs \in Seq(Item)
  BY KeyFields
<1>3. PICK fr \in Seq(Item), fd \in Seq(Item), kr \in Seq(Item), kd \in Seq(Item) :
          fr = f.revocations /\ fd = f.directs /\ kr = k.revocations /\ kd = k.directs
  BY <1>2
<1>4. PICK a \in Nat, b \in Nat, c \in Nat, d \in Nat : a = Len(fr) /\ b = Len(fd) /\ c = Len(kr) /\ d = Len(kd)
  OBVIOUS
<1>5. At(s, 1, fr) /\ At(s, 1 + a, fd) /\ Len(s) = Base(f, 5)
  BY <1>1, <1>3, <1>4, SerializeLayout
<1>6. /\ k.primary = f.primary /\ FirstOf(kr, fr) /\ FirstOf(kd, fd) /\ (d > 0 => kr = fr)
      /\ \A y \in Container : k.parts[y] = <<>>
      /\ p = 1 + c + d
  BY <1>3, <1>4 DEF InHead
<1>7. CASE c < a
  <2>1. d = 0
    <3>1. ASSUME d > 0 PROVE FALSE
      BY <1>4, <1>6, <1>7, <3>1
    <3>2. QED
      BY <3>1
  <2>2. PICK j \in Nat : j = c + 1 /\ j \in 1..a
    BY <1>7
  <2>3. p + 1 = 1 + j
    BY <1>6, <2>1, <2>2
  <2>4. 1 + a <= Len(s) /\ s[1 + j] = fr[j]
    BY <1>4, <1>5, <2>2 DEF At
  <2>5. p + 1 <= Len(s) /\ s[p + 1] = fr[j]
    BY <2>2, <2>3, <2>4
  <2>6. PICK g \in Item : g = fr[j] /\ g.tag = "Signature" /\ g.typ = "KeyRevocation"
    BY <1>1, <1>3, <1>4, <2>2 DEF AllSignatures, AllOfTypes
  <2>7. AddRevocation(k, g) = [primary |-> k.primary, revocations |-> Append(kr, g), directs |-> kd, parts |-> k.parts]
    BY <1>3, AddPrimaryFacts
  <2>8. FirstOf(Append(kr, g), fr) /\ Len(Append(kr, g)) = c + 1
    <3>1. Len(kr) < Len(fr) /\ g = fr[Len(kr) + 1]
      BY <1>4, <1>7, <2>2, <2>6
    <3>2. FirstOf(Append(kr, fr[Len(kr) + 1]), fr)
      BY <1>6, <3>1, FirstOfFacts
    <3>3. QED
      BY <1>4, <3>1, <3>2
  <2>9. p + 1 = 1 + (c + 1) + d
    BY <1>6
  <2>10. ~(d > 0)
    BY <2>1
  <2>11. PICK l : l = AddRevocation(k, g)
    OBVIOUS
  <2>12. l.primary = k.primary /\ l.revocations = Append(kr, g) /\ l.directs = kd /\ l.parts = k.parts
    BY <2>7, <2>11
  <2>13. InHead(f, l, p + 1)
    BY <1>3, <1>4, <1>6, <2>8, <2>9, <2>10, <2>12 DEF InHead
  <2>14. QED
    BY <2>5, <2>6, <2>11, <2>13 DEF RevocationNext
<1>8. CASE c = a /\ d < b
  <2>1. kr = fr
    BY <1>4, <1>6, <1>8, FirstOfFacts
  <2>2. PICK j \in Nat : j = d + 1 /\ j \in 1..b
    BY <1>8
  <2>3. p + 1 = (1 + a) + j
    BY <1>6, <1>8, <2>2
  <2>4. (1 + a) + b <= Len(s) /\ s[(1 + a) + j] = fd[j]
    BY <1>4, <1>5, <2>2 DEF At
  <2>5. p + 1 <= Len(s) /\ s[p + 1] = fd[j]
    BY <2>2, <2>3, <2>4
  <2>6. PICK g \in Item : g = fd[j] /\ g.tag = "Signature" /\ g.typ # "KeyRevocation"
    BY <1>1, <1>3, <1>4, <2>2 DEF AllSignatures, AllOfTypes
  <2>7. AddDirect(k, g) = [primary |-> k.primary, revocations |-> kr, directs |-> Append(kd, g), parts |-> k.parts]
    BY <1>3, AddPrimaryFacts
  <2>8. FirstOf(Append(kd, g), fd) /\ Len(Append(kd, g)) = d + 1
    <3>1. Len(kd) < Len(fd) /\ g = fd[Len(kd) + 1]
      BY <1>4, <1>8, <2>2, <2>6
    <3>2. FirstOf(Append(kd, fd[Len(kd) + 1]), fd)
      BY <1>6, <3>1, FirstOfFacts
    <3>3. QED
      BY <1>4, <3>1, <3>2
  <2>9. p + 1 = 1 + c + (d + 1)
    BY <1>6
  <2>10. PICK l : l = AddDirect(k, g)
    OBVIOUS
  <2>11. l.primary = k.primary /\ l.revocations = kr /\ l.directs = Append(kd, g) /\ l.parts = k.parts
    BY <2>7, <2>10
  <2>12. InHead(f, l, p + 1)
    BY <1>3, <1>4, <1>6, <2>1, <2>8, <2>9, <2>11 DEF InHead
  <2>13. QED
    BY <2>5, <2>6, <2>10, <2>12 DEF DirectNext
<1>9. CASE c = a /\ d = b
  <2>1. kr = fr /\ kd = fd
    BY <1>4, <1>6, <1>9, FirstOfFacts
  <2>2. SameHead(k, f)
    BY <1>3, <1>6, <2>1 DEF SameHead
  <2>10. \A y \in 1..4 : Order[y] \in Container
    BY BaseFacts
  <2>12. \A y \in 1..4 : ~(y < 1)
    OBVIOUS
  <2>3. \A y \in 1..4 : k.parts[Order[y]] = <<>> /\ ~(y < 1)
    BY <1>6, <2>10, <2>12
  <2>4. p = Base(f, 1)
    BY <1>3, <1>4, <1>6, <1>9, BaseFacts
  <2>5. 1 \in 1..4 /\ 1 \in 1..5
    OBVIOUS
  <2>6. Before(f, k, p, 1)
    BY <2>2, <2>3, <2>4, <2>5 DEF Before, Upto
  <2>7. Before(f, k, p, 5) \/ \E y \in 1..4 : Settled(f, k, p, y)
    BY <1>1, <2>5, <2>6, Settles
  <2>8. Before(f, k, p, 5) => p = Len(s)
    BY <1>5 DEF Before
  <2>9. \A y \in 1..4 : Settled(f, k, p, y) => p + 1 <= Len(s) /\ s[p + 1].tag = Order[y]
    BY SettledNext
  <2>11. QED
    BY <2>6, <2>7, <2>8, <2>9, <2>10 DEF PartsNext
<1>10. (c < a \/ c = a) /\ (d < b \/ d = b)
  BY <1>4, <1>6 DEF FirstOf
<1>11. QED
  BY <1>7, <1>8, <1>9, <1>10

\* All read: the keys are the same.
LEMMA AllRead ==
    ASSUME NEW f \in Key, NEW k \in Key, NEW p, Before(f, k, p, 5)
    PROVE  k = f
<1>1. SameHead(k, f) /\ \A y \in 1..4 : y < 5 /\ k.parts[Order[y]] = f.parts[Order[y]]
  BY DEF Before, Upto
<1>2. \A c \in Container : \E y \in 1..4 : c = Order[y]
  <2>1. Order[1] = "UserId" /\ Order[2] = "UserAttribute" /\ Order[3] = "PublicSubkey" /\ Order[4] = "SecretSubkey"
    BY DEF Order
  <2>2. 1 \in 1..4 /\ 2 \in 1..4 /\ 3 \in 1..4 /\ 4 \in 1..4
    OBVIOUS
  <2>3. QED
    BY <2>1, <2>2 DEF Container
<1>3. \A c \in Container : k.parts[c] = f.parts[c]
  BY <1>1, <1>2
<1>4. k.parts = f.parts
  BY <1>3, KeyFields
<1>5. QED
  BY <1>1, <1>4, KeyFields DEF SameHead

-----------------------------------------------------------------------------
(* The second round                                                        *)

\* A key of the kind t is being read again.
Again(t) ==
    /\ packets = Serialize(first) /\ t \in Wanted /\ Shape(first, t)
    /\ out = <<>> /\ Rereading(t)

\* A written key begins with its primary key.
LEMMA AtStart ==
    ASSUME TypeInv, NEW t, Again(t)
    PROVE  /\ 1 <= Len(packets) /\ packets[1] \in Item /\ packets[1].tag = t
           /\ first.primary = <<packets[1]>> /\ t \in PrimaryTags
<1>1. first \in Key /\ Len(first.primary) = 1 /\ first.primary[1].tag = t
  BY DEF TypeInv, Again, Shape, RawShape
<1>2. At(packets, 0, first.primary)
  BY <1>1, SerializeLayout DEF Again
<1>3. first.primary \in Seq(Item)
  BY <1>1, KeyFields
<1>4. PICK a \in Seq(Item) : a = first.primary /\ Len(a) = 1 /\ a = <<a[1]>> /\ a[1] \in Item
  BY <1>1, <1>3
<1>5. 0 + 1 <= Len(packets) /\ packets[0 + 1] = a[1]
  BY <1>2, <1>4 DEF At
<1>6. 1 <= Len(packets) /\ packets[1] = a[1]
  BY <1>5
<1>7. t \in PrimaryTags
  BY WantedFacts DEF Again
<1>8. QED
  BY <1>1, <1>4, <1>6, <1>7

\* It is found at once.
LEMMA AgainSearch ==
    ASSUME KInv, NEW t, Again(t),
           CallKeyParser \/ CallPubPriv \/ SearchSkip \/ SearchPrimary \/ SearchErr \/ SearchEnd
    PROVE  out' = <<>> /\ Rereading(t)'
<1>1. TypeInv /\ pc \in {"idle", "search"} /\ pos = 0 /\ inner
  BY DEF KInv, Again, Rereading, CallKeyParser, CallPubPriv, SearchSkip, SearchPrimary, SearchErr, SearchEnd
<1>2. /\ 1 <= Len(packets) /\ packets[1] \in Item /\ packets[1].tag = t
      /\ first.primary = <<packets[1]>> /\ t \in PrimaryTags
  BY <1>1, AtStart
<1>3. Len(packets) \in Nat
  BY <1>1 DEF TypeInv
<1>4. ~AtEnd /\ Peek = packets[1]
  BY <1>1, <1>2, <1>3 DEF AtEnd, Peek
<1>5. \A tags : PeekIn(tags) <=> t \in tags
  BY <1>2, <1>4 DEF PeekIn
<1>6. t # "Err" /\ t # "exhausted"
  BY <1>2 DEF PrimaryTags
<1>7. out = <<>> /\ t \in Wanted
  BY DEF Again
<1>8. CASE CallKeyParser
  <2>1. pc' = "search" /\ pos' = 0 /\ inner' /\ out' = <<>> /\ keyTag' = t
    BY <1>1, <1>7, <1>8, WantedFacts DEF CallKeyParser, Begin
  <2>2. QED
    BY <2>1 DEF Rereading, Building
<1>9. CASE CallPubPriv
  <2>1. PeekIn(PrimaryTags) /\ ~PeekIn({"Err"}) /\ PeekIn(PrimaryTags \cup {"Err"})
    BY <1>2, <1>5, <1>6
  <2>2. Begin(Peek.tag) /\ UNCHANGED <<inner, out, pos>>
    BY <1>1, <1>9, <2>1 DEF CallPubPriv
  <2>3. pc' = "search" /\ pos' = 0 /\ inner' /\ out' = <<>> /\ keyTag' = t
    BY <1>1, <1>2, <1>4, <1>7, <2>2 DEF Begin
  <2>4. QED
    BY <2>3 DEF Rereading, Building
<1>10. CASE SearchSkip
  <2>1. keyTag = t
    BY <1>10 DEF SearchSkip, Again, Rereading
  <2>2. QED
    BY <1>5, <1>10, <2>1 DEF SearchSkip
<1>11. CASE SearchPrimary
  <2>1. keyTag' = t /\ pos' = 1 /\ pc' = "signatures" /\ key' = FreshKey(packets[1])
        /\ out' = <<>> /\ first' = first
    BY <1>1, <1>4, <1>7, <1>11 DEF SearchPrimary, Again, Rereading
  <2>2. PICK g \in Item : g = packets[1]
    BY <1>2
  <2>3. FreshKey(g) = [primary |-> <<g>>, revocations |-> <<>>, directs |-> <<>>,
                       parts |-> [c \in Container |-> <<>>]]
    BY FreshKeyFacts
  <2>4. PICK k : k = FreshKey(g)
    OBVIOUS
  <2>5. /\ k.primary = <<g>> /\ k.revocations = <<>> /\ k.directs = <<>>
        /\ \A c \in Container : k.parts[c] = <<>>
    BY <2>3, <2>4
  <2>6. Len(<<>>) = 0 /\ 1..0 = {} /\ 1 = 1 + 0 + 0 /\ ~(0 > 0)
    OBVIOUS
  <2>7. Len(first.revocations) \in Nat /\ Len(first.directs) \in Nat
    BY <1>1, BaseFacts DEF TypeInv
  <2>8. FirstOf(<<>>, first.revocations) /\ FirstOf(<<>>, first.directs)
    BY <2>6, <2>7 DEF FirstOf
  <2>9. InHead(first, k, 1)
    BY <1>2, <2>2, <2>5, <2>6, <2>8 DEF InHead
  <2>10. QED
    BY <2>1, <2>2, <2>4, <2>9 DEF Rereading, Building
<1>12. CASE SearchErr
  BY <1>5, <1>6, <1>12 DEF SearchErr
<1>13. CASE SearchEnd
  BY <1>4, <1>13 DEF SearchEnd
<1>14. QED
  BY <1>8, <1>9, <1>10, <1>11, <1>12, <1>13

\* What is seen of the packets.
LEMMA PeekAgain ==
    ASSUME TypeInv
    PROVE  /\ packets \in Seq(Item) /\ pos \in Nat /\ pos + 1 \in Nat
           /\ pos = Len(packets) => AtEnd
           /\ pos + 1 <= Len(packets) => ~AtEnd
           /\ \A tags : PeekIn(tags) => pos + 1 <= Len(packets) /\ packets[pos + 1].tag \in tags
           /\ \A tags : pos + 1 <= Len(packets) /\ packets[pos + 1].tag \in tags => PeekIn(tags)
<1>1. packets \in Seq(Item) /\ pos \in Nat /\ pos <= Len(packets) /\ Len(packets) \in Nat
  BY DEF TypeInv
<1>2. pos + 1 <= Len(packets) <=> ~(pos = Len(packets))
  BY <1>1
<1>3. QED
  BY <1>1, <1>2 DEF PeekIn, Peek, AtEnd

\* The signatures on the primary key are read in their order.
LEMMA AgainHead ==
    ASSUME KInv, NEW t, Again(t), PrimarySignature \/ PrimarySignaturesEnd
    PROVE  out' = <<>> /\ Rereading(t)'
<1>1. /\ TypeInv /\ pc = "signatures" /\ InHead(first, key, pos) /\ keyTag = t /\ out = <<>>
      /\ UNCHANGED <<keyTag, first, packets, out, cur>> /\ Shape(first, t) /\ packets = Serialize(first)
  BY DEF KInv, Again, Rereading, Building, PrimarySignature, PrimarySignaturesEnd
<1>2. first \in Key /\ key \in Key /\ packets \in Seq(Item) /\ pos \in Nat
  BY <1>1 DEF TypeInv
<1>3. \/ RevocationNext(first, key, pos, packets) \/ DirectNext(first, key, pos, packets)
      \/ PartsNext(first, key, pos, packets)
  BY <1>1, <1>2, HeadNext
<1>4. CASE PrimarySignature
  <2>1. PeekIn({"Signature"}) /\ pos' = pos + 1 /\ pc' = "signatures"
    BY <1>1, <1>4 DEF PrimarySignature
  <2>2. pos + 1 <= Len(packets) /\ packets[pos + 1].tag = "Signature" /\ Peek = packets[pos + 1]
    BY <1>1, <2>1, PeekAgain DEF Peek
  <2>3. /\ Peek.typ = "KeyRevocation" => key' = AddRevocation(key, Peek)
        /\ Peek.typ # "KeyRevocation" => key' = AddDirect(key, Peek)
    BY <1>1, <1>4, PrimarySignatureKey
  <2>4. ~PartsNext(first, key, pos, packets)
    <3>1. ~(pos = Len(packets))
      BY <1>2, <2>2
    <3>2. "Signature" \notin Container
      BY DEF Container
    <3>3. QED
      BY <2>2, <3>1, <3>2 DEF PartsNext
  <2>5. InHead(first, key', pos + 1)
    <3>1. CASE RevocationNext(first, key, pos, packets)
      BY <2>2, <2>3, <3>1 DEF RevocationNext
    <3>2. CASE DirectNext(first, key, pos, packets)
      BY <2>2, <2>3, <3>2 DEF DirectNext
    <3>3. QED
      BY <1>3, <2>4, <3>1, <3>2
  <2>6. QED
    BY <1>1, <2>1, <2>5 DEF Rereading, Building
<1>5. CASE PrimarySignaturesEnd
  <2>1. ~PeekIn({"Signature"}) /\ UNCHANGED <<pos, key>> /\ pc' = "users"
    BY <1>5 DEF PrimarySignaturesEnd
  <2>2. ~(pos + 1 <= Len(packets) /\ packets[pos + 1].tag = "Signature")
    BY <1>1, <2>1, PeekAgain
  <2>3. PartsNext(first, key, pos, packets)
    BY <1>3, <2>2 DEF RevocationNext, DirectNext
  <2>4. cur = "none"
    BY <1>1, CurrentBlock DEF Open, Building, KInv
  <2>5. InLoop(first, key, pos, cur, 1)
    BY <2>3, <2>4 DEF PartsNext, InLoop
  <2>6. QED
    BY <1>1, <2>1, <2>5 DEF Rereading, Building
<1>6. QED
  BY <1>4, <1>5

\* The kinds of packets that the loops take.
LEMMA OrderTags ==
    /\ \A x \in {1, 2} : Order[x] \in UserTags
    /\ \A x \in {3, 4} : Order[x] \in SubkeyTags
    /\ \A x \in 1..4 : Order[x] # "Signature" /\ Order[x] \in Container
    /\ UserTags \cap SubkeyTags = {} /\ SubkeyTags \subseteq Container
<1>1. Order[1] = "UserId" /\ Order[2] = "UserAttribute" /\ Order[3] = "PublicSubkey" /\ Order[4] = "SecretSubkey"
  BY DEF Order
<1>2. \A x \in 1..4 : x \in {1, 2} \/ x \in {3, 4}
  OBVIOUS
<1>3. QED
  BY <1>1, <1>2 DEF UserTags, SubkeyTags, Container

\* What the state tells of the loops.
LEMMA AgainLoop ==
    ASSUME KInv, NEW t, Again(t), pc \in {"users", "subkeys"},
           NEW lo \in {1, 3}, lo = IF pc = "users" THEN 1 ELSE 3
    PROVE  /\ InLoop(first, key, pos, cur, lo) /\ keyTag = t /\ key.primary = first.primary
           /\ \/ SignatureNext(first, key, pos, cur, lo, packets)
              \/ PartNext(first, key, pos, lo, packets)
              \/ EndNext(first, key, pos, lo, packets)
<1>1. TypeInv /\ Shape(first, t) /\ packets = Serialize(first)
  BY DEF KInv, Again
<1>2. first \in Key /\ key \in Key /\ packets \in Seq(Item) /\ pos \in Nat
  BY <1>1 DEF TypeInv
<1>3. InLoop(first, key, pos, cur, lo) /\ keyTag = t
  BY DEF Again, Rereading, Building
<1>4. QED
  BY <1>1, <1>2, <1>3, LoopNext

\* The next signature is one that was written next.
LEMMA AgainPartSignature ==
    ASSUME KInv, NEW t, Again(t), PartSignature
    PROVE  out' = <<>> /\ Rereading(t)'
<1>1. /\ TypeInv /\ pc \in {"users", "subkeys"} /\ cur # "none" /\ PeekIn({"Signature"}) /\ pos' = pos + 1
      /\ UNCHANGED <<first, out, keyTag, cur, pc>> /\ out = <<>>
  BY DEF KInv, PartSignature, Again
<1>2. PICK lo \in {1, 3} : lo = IF pc = "users" THEN 1 ELSE 3
  OBVIOUS
<1>3. /\ keyTag = t
      /\ \/ SignatureNext(first, key, pos, cur, lo, packets)
         \/ PartNext(first, key, pos, lo, packets)
         \/ EndNext(first, key, pos, lo, packets)
  BY <1>1, <1>2, AgainLoop
<1>4. pos + 1 <= Len(packets) /\ packets[pos + 1].tag = "Signature" /\ Peek = packets[pos + 1]
      /\ ~(pos = Len(packets))
  BY <1>1, PeekAgain DEF Peek, PeekIn, AtEnd
<1>5. ~PartNext(first, key, pos, lo, packets)
  <2>1. \A x \in {lo, lo + 1} : x \in 1..4
    OBVIOUS
  <2>2. QED
    BY <1>4, <2>1, OrderTags DEF PartNext
<1>6. ~EndNext(first, key, pos, lo, packets)
  BY <1>4, OrderTags DEF EndNext
<1>7. key' = AddSignature(key, cur, Peek)
  BY PartSignatureKey
<1>8. InLoop(first, AddSignature(key, cur, Peek), pos + 1, cur, lo)
  BY <1>3, <1>4, <1>5, <1>6 DEF SignatureNext
<1>9. InLoop(first', key', pos', cur', lo)
  BY <1>1, <1>7, <1>8
<1>10. CASE pc = "users"
  BY <1>1, <1>2, <1>3, <1>9, <1>10 DEF Rereading, Building
<1>11. CASE pc = "subkeys"
  BY <1>1, <1>2, <1>3, <1>9, <1>11 DEF Rereading, Building
<1>12. QED
  BY <1>1, <1>10, <1>11

\* The next part, too; and no subkey is rejected.
LEMMA AgainPart ==
    ASSUME KInv, NEW t, Again(t), User \/ Subkey \/ SubkeyRejected
    PROVE  out' = <<>> /\ Rereading(t)'
<1>1. /\ TypeInv /\ pc \in {"users", "subkeys"} /\ pos' = pos + 1 /\ out = <<>> /\ Shape(first, t)
      /\ UNCHANGED <<first, keyTag>>
  BY DEF KInv, User, Subkey, SubkeyRejected, Again, TakePart
<1>2. PICK lo \in {1, 3} : lo = IF pc = "users" THEN 1 ELSE 3
  OBVIOUS
<1>3. /\ keyTag = t /\ key.primary = first.primary
      /\ \/ SignatureNext(first, key, pos, cur, lo, packets)
         \/ PartNext(first, key, pos, lo, packets)
         \/ EndNext(first, key, pos, lo, packets)
  BY <1>1, <1>2, AgainLoop
<1>4. /\ lo = 1 => PeekIn(UserTags)
      /\ lo = 3 => PeekIn(SubkeyTagsOf(t))
  BY <1>2, <1>3 DEF User, Subkey, SubkeyRejected
<1>5. SubkeyTagsOf(t) \subseteq SubkeyTags
  BY DEF SubkeyTagsOf, SubkeyTags
<1>6. /\ pos + 1 <= Len(packets) /\ Peek = packets[pos + 1] /\ ~(pos = Len(packets))
      /\ lo = 1 => packets[pos + 1].tag \in UserTags
      /\ lo = 3 => packets[pos + 1].tag \in SubkeyTags
  BY <1>1, <1>4, <1>5, PeekAgain DEF Peek, PeekIn, AtEnd
<1>7. packets[pos + 1].tag # "Signature"
  BY <1>6 DEF UserTags, SubkeyTags
<1>8. ~SignatureNext(first, key, pos, cur, lo, packets)
  BY <1>7 DEF SignatureNext
<1>9. ~EndNext(first, key, pos, lo, packets)
  <2>1. \A y \in 1..4 : lo + 2 <= y => lo = 1 /\ y \in {3, 4}
    OBVIOUS
  <2>2. QED
    BY <1>6, <2>1, OrderTags DEF EndNext
<1>10. PartNext(first, key, pos, lo, packets)
  BY <1>3, <1>8, <1>9
<1>11. ~SubkeyRejected
  <2>1. SUFFICES ASSUME SubkeyRejected PROVE FALSE
    OBVIOUS
  <2>2. pc = "subkeys" /\ ~key.primary[1].v4 /\ lo = 3
    BY <1>2, <2>1 DEF SubkeyRejected
  <2>3. PICK x \in {3, 4} : Len(first.parts[Order[x]]) > 0
    BY <1>10, <2>2 DEF PartNext
  <2>4. Order[x] \in SubkeyTags
    BY OrderTags
  <2>5. first.primary[1].v4
    BY <1>1, <2>3, <2>4 DEF Shape, RawShape
  <2>6. QED
    BY <1>3, <2>2, <2>5
<1>12. TakePart /\ UNCHANGED <<pc, out>>
  BY <1>11 DEF User, Subkey
<1>13. PeekIn(Container)
  <2>1. packets[pos + 1].tag \in Container
    BY <1>2, <1>6 DEF UserTags, SubkeyTags, Container
  <2>2. QED
    BY <1>1, <1>6, <2>1, PeekAgain
<1>14. key' = AddPart(key, Peek) /\ cur' = Peek.tag
  BY <1>1, <1>12, <1>13, TakePartKey DEF TakePart
<1>15. InLoop(first, AddPart(key, Peek), pos + 1, Peek.tag, lo)
  BY <1>6, <1>10 DEF PartNext
<1>16. InLoop(first', key', pos', cur', lo)
  BY <1>1, <1>14, <1>15
<1>17. CASE pc = "users"
  BY <1>1, <1>2, <1>3, <1>12, <1>16, <1>17 DEF Rereading, Building
<1>18. CASE pc = "subkeys"
  BY <1>1, <1>2, <1>3, <1>12, <1>16, <1>18 DEF Rereading, Building
<1>19. QED
  BY <1>1, <1>17, <1>18

\* The loop over users ends before the subkeys.
LEMMA AgainUsersEnd ==
    ASSUME KInv, NEW t, Again(t), UsersEnd
    PROVE  out' = <<>> /\ Rereading(t)'
<1>1. /\ TypeInv /\ pc = "users" /\ pc' = "subkeys" /\ cur' = "none" /\ out = <<>>
      /\ UNCHANGED <<first, keyTag, key, pos, out>>
      /\ ~PeekIn(UserTags) /\ ~(cur # "none" /\ PeekIn({"Signature"}))
  BY DEF KInv, UsersEnd, Again
<1>2. PICK lo \in {1, 3} : lo = 1
  OBVIOUS
<1>3. /\ keyTag = t
      /\ \/ SignatureNext(first, key, pos, cur, lo, packets)
         \/ PartNext(first, key, pos, lo, packets)
         \/ EndNext(first, key, pos, lo, packets)
  BY <1>1, <1>2, AgainLoop
<1>4. ~SignatureNext(first, key, pos, cur, lo, packets)
  <2>1. "none" \notin Container
    BY DEF Container
  <2>2. QED
    BY <1>1, <2>1, PeekAgain DEF SignatureNext
<1>5. ~PartNext(first, key, pos, lo, packets)
  <2>1. \A x \in {lo, lo + 1} : x \in {1, 2}
    BY <1>2
  <2>2. QED
    BY <1>1, <2>1, PeekAgain, OrderTags DEF PartNext
<1>6. Before(first, key, pos, lo + 2) /\ lo + 2 = 3
  BY <1>2, <1>3, <1>4, <1>5 DEF EndNext
<1>7. InLoop(first', key', pos', cur', 3)
  BY <1>1, <1>6 DEF InLoop
<1>8. QED
  BY <1>1, <1>3, <1>7 DEF Rereading, Building

\* The loop over subkeys ends with the packets, and the key is the one written.
LEMMA AgainSubkeysEnd ==
    ASSUME KInv, NEW t, Again(t), SubkeysEnd
    PROVE  out' = ReadAgain /\ pos' = Len(packets) /\ pc' = "idle"
<1>1. /\ TypeInv /\ pc = "subkeys" /\ pc' = "idle" /\ out = <<>> /\ pos' = pos /\ Shape(first, t)
      /\ out' = Append(out, [r |-> "Ok", key |-> NewKey(key), cause |-> <<>>])
      /\ ~PeekIn(SubkeyTagsOf(keyTag)) /\ ~(cur # "none" /\ PeekIn({"Signature"}))
  BY DEF KInv, SubkeysEnd, Again, LeavesTheNext
<1>2. PICK lo \in {1, 3} : lo = 3
  OBVIOUS
<1>3. /\ keyTag = t
      /\ \/ SignatureNext(first, key, pos, cur, lo, packets)
         \/ PartNext(first, key, pos, lo, packets)
         \/ EndNext(first, key, pos, lo, packets)
  BY <1>1, <1>2, AgainLoop
<1>4. ~SignatureNext(first, key, pos, cur, lo, packets)
  <2>1. "none" \notin Container
    BY DEF Container
  <2>2. QED
    BY <1>1, <2>1, PeekAgain DEF SignatureNext
<1>5. ~PartNext(first, key, pos, lo, packets)
  <2>1. SUFFICES ASSUME PartNext(first, key, pos, lo, packets) PROVE FALSE
    OBVIOUS
  <2>2. PICK x \in {3, 4} : /\ pos + 1 <= Len(packets) /\ packets[pos + 1].tag = Order[x]
                            /\ Len(first.parts[Order[x]]) > 0
    BY <1>2, <2>1 DEF PartNext
  <2>3. Order[x] \in SubkeyTags
    BY OrderTags
  <2>4. Order[x] \in SubkeyTagsOf(t)
    BY <1>1, <2>2, <2>3 DEF Shape, RawShape
  <2>5. PeekIn(SubkeyTagsOf(keyTag))
    BY <1>1, <1>3, <2>2, <2>4, PeekAgain
  <2>6. QED
    BY <1>1, <2>5
<1>6. EndNext(first, key, pos, lo, packets)
  BY <1>3, <1>4, <1>5
<1>7. Before(first, key, pos, 5) /\ pos = Len(packets)
  <2>1. lo + 2 = 5 /\ \A y \in 1..4 : ~(lo + 2 <= y)
    BY <1>2
  <2>2. QED
    BY <1>6, <2>1 DEF EndNext
<1>8. first \in Key /\ key \in Key
  BY <1>1 DEF TypeInv
<1>9. key = first
  BY <1>7, <1>8, AllRead
<1>10. NewKey(key) = first
  BY <1>1, <1>8, <1>9, NewKeySame
<1>11. QED
  BY <1>1, <1>7, <1>10 DEF ReadAgain

\* A key of round 1 is written: it has the shape of a wanted key.
LEMMA RereadsBegin ==
    ASSUME KInv, ShapeInv, Reparse
    PROVE  Rereads'
<1>1. PICK i \in DOMAIN out : out[i].r = "Ok" /\ first' = out[i].key /\ packets' = Serialize(out[i].key)
  BY DEF Reparse
<1>2. i \in 1..Len(out)
  BY DEF KInv, TypeInv
<1>3. PICK t \in Wanted : Shape(out[i].key, t)
  BY <1>1, <1>2 DEF ShapeInv, ShapesOut
<1>4. /\ mode' = mode /\ round' = 2 /\ pos' = 0 /\ pc' = "idle" /\ inner' /\ out' = <<>>
  BY DEF Reparse
<1>5. Wanted' = Wanted
  BY <1>4, WantedSame
<1>6. Rereading(t)'
  BY <1>4 DEF Rereading, Building
<1>7. packets' = Serialize(first') /\ t \in Wanted' /\ Shape(first', t)
  BY <1>1, <1>3, <1>5
<1>8. QED
  BY <1>4, <1>6, <1>7 DEF Rereads

\* Behind the key read again there is nothing.
LEMMA RereadsDone ==
    ASSUME KInv, Next, ~Reparse, AtEnd, pc \in {"idle", "search", "exhausted"}
    PROVE  pc' \in {"idle", "search", "exhausted"} /\ UNCHANGED <<out, pos>>
<1>1. \A tags : ~PeekIn(tags)
  BY DEF PeekIn
<1>2. CallKeyParser \/ CallPubPriv \/ SearchEnd
  BY <1>1 DEF Next, SearchSkip, SearchPrimary, SearchErr, PrimarySignature, PrimarySignaturesEnd,
              User, PartSignature, UsersEnd, Subkey, SubkeyRejected, SubkeysEnd
<1>3. QED
  BY <1>1, <1>2 DEF CallKeyParser, CallPubPriv, SearchEnd, Begin

\* Every step of round 2 reads on.
LEMMA RereadsKeeps ==
    ASSUME KInv, ShapeInv, Rereads, Next
    PROVE  Rereads'
<1>1. CASE Reparse
  BY <1>1, RereadsBegin
<1>2. CASE ~Reparse
  <2>1. UNCHANGED <<round, packets, first, mode>>
    BY <1>2 DEF Next, CallKeyParser, CallPubPriv, SearchSkip, SearchPrimary, SearchErr, SearchEnd,
           PrimarySignature, PrimarySignaturesEnd, User, PartSignature, UsersEnd, Subkey,
           SubkeyRejected, SubkeysEnd
  <2>2. SUFFICES ASSUME round = 2 PROVE Rereads'
    BY <2>1 DEF Rereads
  <2>3. Wanted' = Wanted
    BY <2>1, WantedSame
  <2>4. packets = Serialize(first)
    BY <2>2 DEF Rereads
  <2>5. CASE out # <<>>
    <3>1. out = ReadAgain /\ pos = Len(packets) /\ pc \in {"idle", "search", "exhausted"}
      BY <2>2, <2>5 DEF Rereads
    <3>2. pc' \in {"idle", "search", "exhausted"} /\ UNCHANGED <<out, pos>>
      BY <1>2, <3>1, RereadsDone DEF AtEnd
    <3>3. PICK t \in Wanted : Shape(first, t)
      BY <2>2 DEF Rereads
    <3>4. out' = ReadAgain' /\ pos' = Len(packets')
      BY <2>1, <3>1, <3>2 DEF ReadAgain
    <3>5. QED
      BY <2>1, <2>3, <2>4, <2>5, <3>2, <3>3, <3>4 DEF Rereads
  <2>6. CASE out = <<>>
    <3>1. PICK t \in Wanted : Shape(first, t) /\ Rereading(t)
      BY <2>2, <2>6 DEF Rereads
    <3>2. Again(t)
      BY <2>4, <2>6, <3>1 DEF Again
    <3>3. CASE SubkeysEnd
      <4>1. out' = ReadAgain /\ pos' = Len(packets) /\ pc' = "idle"
        BY <3>2, <3>3, AgainSubkeysEnd
      <4>2. out' = ReadAgain' /\ out' # <<>>
        BY <2>1, <4>1 DEF ReadAgain
      <4>3. QED
        BY <2>1, <2>3, <2>4, <3>1, <4>1, <4>2 DEF Rereads
    <3>4. CASE ~SubkeysEnd
      <4>1. out' = <<>> /\ Rereading(t)'
        BY <1>2, <3>2, <3>4, AgainSearch, AgainHead, AgainPartSignature, AgainPart, AgainUsersEnd DEF Next
      <4>2. QED
        BY <2>1, <2>3, <2>4, <3>1, <4>1 DEF Rereads
    <3>5. QED
      BY <3>3, <3>4
  <2>7. QED
    BY <2>5, <2>6
<1>3. QED
  BY <1>1, <1>2

\* What holds of keys beside where their packets come from: they have the shape
\* the parser and the constructors give them, and a written key is read again
\* packet by packet.
THEOREM RInvHolds == Spec => []RInv
<1>1. Init => RInv
  <2>1. Init => KInv
    BY InitKeeps
  <2>2. Init => ShapeInv /\ Rereads
    BY DEF Init, ShapeInv, ShapesOut, Rereads, Building
  <2>3. QED
    BY <2>1, <2>2 DEF RInv
<1>2. KInv' /\ RInv /\ [Next]_vars => RInv'
  <2> SUFFICES ASSUME KInv', RInv, [Next]_vars PROVE RInv'
    OBVIOUS
  <2>1. CASE UNCHANGED vars
    BY <2>1 DEF vars, RInv, ShapeInv, ShapesOut, Rereads, Rereading, ReadAgain, Wanted
  <2>2. CASE Next
    BY <2>2, ShapeKeeps, RereadsKeeps DEF RInv
  <2>3. QED
    BY <2>1, <2>2
<1>3. QED
  BY <1>1, <1>2, KInvHolds, PTL DEF Spec

\* RoundTrip: what the parser handed out, written by Serialize and parsed again,
\* is the same key and nothing else (key_parser_macros.rs, the constructors of
\* signed_key, and Serialize for keys).
THEOREM RoundTripHolds == Spec => []RoundTrip
<1>1. RInv => RoundTrip
  BY DEF RInv, Rereads, RoundTrip, Rereading, ReadAgain
<1>2. QED
  BY <1>1, RInvHolds, PTL

-----------------------------------------------------------------------------
(* What has been read of a block                                           *)

\* The signatures right behind j, as far as e.
Behind(s, j, e) == { m \in (j + 1)..e : Run(s, j, m) }
BehindOf(s, j, e, types) == { m \in Behind(s, j, e) : s[m].typ \in types }

\* A part with all signatures read so far.
RawPart(s, j, e) == [packet |-> s[j], signatures |-> Select(s, Behind(s, j, e))]
AllRaw(s, e) == [j \in 1..Len(s) |-> RawPart(s, j, e)]
Tagged(s, b, e, c) == { j \in (b + 1)..e : s[j].tag = c }
RawParts(s, b, e, c) == Select(AllRaw(s, e), Tagged(s, b, e, c))

\* The key that starts at b, read as far as e.
RawKey(s, b, e) ==
    [primary |-> <<s[b]>>,
     revocations |-> Select(s, BehindOf(s, b, e, {"KeyRevocation"})),
     directs |-> Select(s, BehindOf(s, b, e, SigType \ {"KeyRevocation"})),
     parts |-> [c \in Container |-> RawParts(s, b, e, c)]]

\* Parts with their packets and signatures.
LEMMA RawPartFacts ==
    ASSUME NEW s \in Seq(Item), NEW e \in Nat
    PROVE  /\ \A j \in 1..Len(s) : RawPart(s, j, e) \in Part
           /\ AllRaw(s, e) \in Seq(Part) /\ Len(AllRaw(s, e)) = Len(s)
           /\ \A j \in 1..Len(s) : AllRaw(s, e)[j] = RawPart(s, j, e)
<1>1. ASSUME NEW j \in 1..Len(s) PROVE RawPart(s, j, e) \in Part
  <2>1. Select(s, Behind(s, j, e)) \in Seq(Item)
    BY SelectFacts
  <2>2. s[j] \in Item
    BY ElementOf
  <2>3. QED
    BY <2>1, <2>2 DEF RawPart, Part
<1>2. QED
  BY <1>1 DEF AllRaw

\* The containers are sequences of parts.
LEMMA RawKeyType ==
    ASSUME NEW s \in Seq(Item), NEW b \in 1..Len(s), NEW e \in Nat
    PROVE  /\ RawKey(s, b, e) \in Key
           /\ \A c \in Container : RawKey(s, b, e).parts[c] = RawParts(s, b, e, c)
           /\ \A c \in Container : RawParts(s, b, e, c) \in Seq(Part)
<1>1. ASSUME NEW c \in Container PROVE RawParts(s, b, e, c) \in Seq(Part)
  BY RawPartFacts, SelectFacts DEF RawParts
<1>2. \A P : Select(s, P) \in Seq(Item)
  BY SelectFacts
<1>3. <<s[b]>> \in Seq(Item)
  BY ElementOf
<1>4. PICK x, y : /\ x = Select(s, BehindOf(s, b, e, {"KeyRevocation"}))
                  /\ y = Select(s, BehindOf(s, b, e, SigType \ {"KeyRevocation"}))
  OBVIOUS
<1>5. x \in Seq(Item) /\ y \in Seq(Item)
  BY <1>2, <1>4
<1>6. PICK f : f = [c \in Container |-> RawParts(s, b, e, c)]
  OBVIOUS
<1>7. f \in [Container -> Seq(Part)] /\ \A c \in Container : f[c] = RawParts(s, b, e, c)
  BY <1>1, <1>6
<1>8. RawKey(s, b, e) = [primary |-> <<s[b]>>, revocations |-> x, directs |-> y, parts |-> f]
  BY <1>4, <1>6 DEF RawKey
<1>9. QED
  BY <1>1, <1>3, <1>5, <1>7, <1>8 DEF Key

\* A run goes on with a signature, and ends with anything else.
LEMMA BehindNext ==
    ASSUME NEW s, NEW j \in Nat, NEW e \in Nat, j <= e
    PROVE  /\ \A m \in Nat : m \in Behind(s, j, e + 1) <=>
                 m \in Behind(s, j, e) \/ (m = e + 1 /\ Run(s, j, e) /\ s[e + 1].tag = "Signature")
           /\ \A m \in Behind(s, j, e) : m \in Nat /\ m < e + 1
<1>1. ASSUME NEW m \in Nat
      PROVE  m \in (j + 1)..(e + 1) <=> m \in (j + 1)..e \/ m = e + 1
  OBVIOUS
<1>2. Run(s, j, e + 1) <=> Run(s, j, e) /\ s[e + 1].tag = "Signature"
  <2>1. \A m \in (j + 1)..(e + 1) : m \in (j + 1)..e \/ m = e + 1
    OBVIOUS
  <2>2. e + 1 \in (j + 1)..(e + 1) /\ \A m \in (j + 1)..e : m \in (j + 1)..(e + 1)
    OBVIOUS
  <2>3. QED
    BY <2>1, <2>2 DEF Run
<1>3. \A m \in Behind(s, j, e) : m \in Nat /\ m < e + 1
  BY DEF Behind
<1>4. QED
  BY <1>1, <1>2, <1>3 DEF Behind

\* Anything but a signature leaves the parts before it as they are.
LEMMA RawPartSame ==
    ASSUME NEW s \in Seq(Item), NEW j \in Nat, NEW e \in Nat, j <= e,
           ~(Run(s, j, e) /\ s[e + 1].tag = "Signature")
    PROVE  RawPart(s, j, e + 1) = RawPart(s, j, e)
<1>1. \A i \in 1..Len(s) : /\ i \in Behind(s, j, e + 1) <=> i \in Behind(s, j, e)
                           /\ i \in Behind(s, j, e + 1) => s[i] = s[i]
  <2>1. PICK A, B : A = Behind(s, j, e) /\ B = Behind(s, j, e + 1)
    OBVIOUS
  <2>2. \A m \in Nat : m \in B <=> m \in A
    BY <2>1, BehindNext
  <2>3. \A i \in 1..Len(s) : i \in Nat
    OBVIOUS
  <2>4. QED
    BY <2>1, <2>2, <2>3
<1>2. Select(s, Behind(s, j, e + 1)) = Select(s, Behind(s, j, e))
  BY <1>1, SelectAgree
<1>3. QED
  BY <1>2 DEF RawPart

\* A signature goes to the part whose run it continues.
LEMMA RawPartSigned ==
    ASSUME NEW s \in Seq(Item), NEW j \in Nat, NEW e \in Nat, j <= e, e + 1 <= Len(s),
           Run(s, j, e), s[e + 1].tag = "Signature"
    PROVE  RawPart(s, j, e + 1) = Signed(RawPart(s, j, e), s[e + 1])
<1>1. PICK n \in 1..Len(s) : n = e + 1
  OBVIOUS
<1>2. \A i \in 1..Len(s) : /\ i \in Behind(s, j, e + 1) <=> i \in Behind(s, j, e) \/ i = n
                           /\ i \in Behind(s, j, e) => i < n
  BY <1>1, BehindNext
<1>3. Select(s, Behind(s, j, e + 1)) = Append(Select(s, Behind(s, j, e)), s[n])
  BY <1>2, SelectNext
<1>4. QED
  BY <1>1, <1>3 DEF RawPart, Signed

\* A part starts without signatures.
LEMMA RawPartNew ==
    ASSUME NEW s \in Seq(Item), NEW j \in Nat
    PROVE  RawPart(s, j, j) = NewPart(s[j])
<1>1. \A i \in 1..Len(s) : i \notin Behind(s, j, j)
  BY DEF Behind
<1>2. Select(s, Behind(s, j, j)) = <<>>
  BY <1>1, SelectNothing
<1>3. QED
  BY <1>2 DEF RawPart, NewPart

\* The packets of one kind, one step further.
LEMMA TaggedNext ==
    ASSUME NEW s, NEW b \in Nat, NEW e \in Nat, b <= e, NEW c
    PROVE  /\ \A j \in Nat : j \in Tagged(s, b, e + 1, c) <=>
                 j \in Tagged(s, b, e, c) \/ (j = e + 1 /\ s[e + 1].tag = c)
           /\ \A j \in Tagged(s, b, e, c) : j \in Nat /\ j < e + 1 /\ b < j /\ j <= e /\ s[j].tag = c
<1>1. ASSUME NEW m \in Nat
      PROVE  m \in (b + 1)..(e + 1) <=> m \in (b + 1)..e \/ m = e + 1
  OBVIOUS
<1>2. \A m \in (b + 1)..e : m \in Nat /\ m < e + 1 /\ b < m /\ m <= e
  OBVIOUS
<1>3. QED
  BY <1>1, <1>2 DEF Tagged

\* A container whose parts stay as they are.
LEMMA RawPartsSame ==
    ASSUME NEW s \in Seq(Item), NEW b \in Nat, NEW e \in Nat, b <= e, NEW c, s[e + 1].tag # c,
           \A j \in Tagged(s, b, e, c) : RawPart(s, j, e + 1) = RawPart(s, j, e)
    PROVE  RawParts(s, b, e + 1, c) = RawParts(s, b, e, c)
<1>1. PICK q \in Seq(Part), r \in Seq(Part) : q = AllRaw(s, e + 1) /\ r = AllRaw(s, e)
  BY RawPartFacts
<1>2. /\ Len(q) = Len(s) /\ Len(r) = Len(s)
      /\ \A j \in 1..Len(s) : q[j] = RawPart(s, j, e + 1) /\ r[j] = RawPart(s, j, e)
  BY <1>1, RawPartFacts
<1>3. \A i \in 1..Len(q) : /\ i \in Tagged(s, b, e + 1, c) <=> i \in Tagged(s, b, e, c)
                           /\ i \in Tagged(s, b, e + 1, c) => q[i] = r[i]
  BY <1>2, TaggedNext
<1>4. Select(q, Tagged(s, b, e + 1, c)) = Select(r, Tagged(s, b, e, c))
  BY <1>2, <1>3, SelectAgree
<1>5. QED
  BY <1>1, <1>4 DEF RawParts

\* A part more.
LEMMA RawPartsNew ==
    ASSUME NEW s \in Seq(Item), NEW b \in Nat, NEW e \in Nat, b <= e, e + 1 <= Len(s),
           NEW c, s[e + 1].tag = c, c # "Signature"
    PROVE  RawParts(s, b, e + 1, c) = Append(RawParts(s, b, e, c), NewPart(s[e + 1]))
<1>1. PICK q \in Seq(Part), r \in Seq(Part) : q = AllRaw(s, e + 1) /\ r = AllRaw(s, e)
  BY RawPartFacts
<1>2. /\ Len(q) = Len(s) /\ Len(r) = Len(s)
      /\ \A j \in 1..Len(s) : q[j] = RawPart(s, j, e + 1) /\ r[j] = RawPart(s, j, e)
  BY <1>1, RawPartFacts
<1>3. PICK n \in 1..Len(q) : n = e + 1 /\ n \in 1..Len(s) /\ n \in Nat
  BY <1>2
<1>4. \A i \in 1..Len(q) : /\ i \in Tagged(s, b, e + 1, c) <=> i \in Tagged(s, b, e, c) \/ i = n
                           /\ i \in Tagged(s, b, e, c) => i < n
  <2>1. PICK P, R : P = Tagged(s, b, e, c) /\ R = Tagged(s, b, e + 1, c)
    OBVIOUS
  <2>2. (\A j \in Nat : j \in R <=> j \in P \/ j = e + 1) /\ \A j \in P : j < e + 1
    BY <2>1, TaggedNext
  <2>3. \A i \in 1..Len(q) : i \in Nat
    OBVIOUS
  <2>4. QED
    BY <1>3, <2>1, <2>2, <2>3
<1>5. Select(q, Tagged(s, b, e + 1, c)) = Append(Select(q, Tagged(s, b, e, c)), q[n])
  BY <1>4, SelectNext
<1>6. ASSUME NEW i \in 1..Len(q), i \in Tagged(s, b, e, c) PROVE q[i] = r[i]
  <2>1. i \in Nat /\ i <= e /\ i \in 1..Len(s)
    BY <1>2, <1>6, TaggedNext
  <2>2. RawPart(s, i, e + 1) = RawPart(s, i, e)
    BY <2>1, RawPartSame
  <2>3. QED
    BY <1>2, <2>1, <2>2
<1>7. Select(q, Tagged(s, b, e, c)) = Select(r, Tagged(s, b, e, c))
  BY <1>2, <1>6, SelectAgree
<1>8. q[n] = NewPart(s[e + 1])
  BY <1>2, <1>3, RawPartNew
<1>9. QED
  BY <1>1, <1>5, <1>7, <1>8 DEF RawParts

\* A signature more, on the last part of a container.
LEMMA RawPartsSigned ==
    ASSUME NEW s \in Seq(Item), NEW b \in Nat, NEW e \in Nat, b <= e, e + 1 <= Len(s),
           NEW c, c # "Signature", NEW o \in Tagged(s, b, e, c), Run(s, o, e),
           s[e + 1].tag = "Signature"
    PROVE  \E x \in Seq(Part) :
              /\ RawParts(s, b, e, c) = Append(x, RawPart(s, o, e))
              /\ RawParts(s, b, e + 1, c) = Append(x, Signed(RawPart(s, o, e), s[e + 1]))
<1>1. PICK q \in Seq(Part), r \in Seq(Part) : q = AllRaw(s, e + 1) /\ r = AllRaw(s, e)
  BY RawPartFacts
<1>2. /\ Len(q) = Len(s) /\ Len(r) = Len(s)
      /\ \A j \in 1..Len(s) : q[j] = RawPart(s, j, e + 1) /\ r[j] = RawPart(s, j, e)
  BY <1>1, RawPartFacts
<1>3. o \in Nat /\ b < o /\ o <= e /\ s[o].tag = c /\ o \in 1..Len(s)
  BY TaggedNext
<1> DEFINE P == { j \in Tagged(s, b, e, c) : j < o }
<1>4. \A i \in 1..Len(s) : i \in Tagged(s, b, e, c) => i < o \/ i = o
  <2>1. \A i \in (o + 1)..e : s[i].tag = "Signature"
    BY DEF Run
  <2>2. ASSUME NEW i \in 1..Len(s), i \in Tagged(s, b, e, c), ~(i < o), i # o PROVE FALSE
    <3>1. i \in Nat /\ i <= e /\ s[i].tag = c
      BY <2>2, TaggedNext
    <3>2. i \in (o + 1)..e
      BY <1>3, <2>2, <3>1
    <3>3. QED
      BY <2>1, <3>1, <3>2
  <2>3. QED
    BY <2>2
<1>5. \A i \in 1..Len(s) : /\ i \in Tagged(s, b, e, c) <=> i \in P \/ i = o
                           /\ i \in P => i < o
  BY <1>4
<1>6. \A i \in 1..Len(s) : i \in Tagged(s, b, e + 1, c) <=> i \in Tagged(s, b, e, c)
  BY TaggedNext
<1>7. ASSUME NEW i \in 1..Len(s), i \in P PROVE q[i] = r[i]
  <2>1. i \in Nat /\ i < o /\ i <= e
    BY <1>7, TaggedNext
  <2>2. o \in (i + 1)..e
    BY <1>3, <2>1
  <2>3. ~Run(s, i, e)
    BY <1>3, <2>2 DEF Run
  <2>4. QED
    BY <1>2, <2>1, <2>3, RawPartSame
<1> HIDE DEF P
<1>8. Select(r, Tagged(s, b, e, c)) = Append(Select(r, P), r[o])
  <2>1. \A i \in 1..Len(r) : /\ i \in Tagged(s, b, e, c) <=> i \in P \/ i = o
                             /\ i \in P => i < o
    BY <1>2, <1>5
  <2>2. o \in 1..Len(r)
    BY <1>2, <1>3
  <2>3. QED
    BY <2>1, <2>2, SelectNext
<1>9. Select(q, Tagged(s, b, e + 1, c)) = Append(Select(q, P), q[o])
  <2>1. \A i \in 1..Len(q) : /\ i \in Tagged(s, b, e + 1, c) <=> i \in P \/ i = o
                             /\ i \in P => i < o
    BY <1>2, <1>5, <1>6
  <2>2. o \in 1..Len(q)
    BY <1>2, <1>3
  <2>3. QED
    BY <2>1, <2>2, SelectNext
<1>10. Select(q, P) = Select(r, P)
  BY <1>2, <1>7, SelectAgree
<1>11. q[o] = Signed(RawPart(s, o, e), s[e + 1]) /\ r[o] = RawPart(s, o, e)
  BY <1>2, <1>3, RawPartSigned
<1>12. PICK x \in Seq(Part) : x = Select(r, P)
  BY SelectFacts
<1>13. QED
  BY <1>1, <1>8, <1>9, <1>10, <1>11, <1>12 DEF RawParts

\* A key with nothing but its primary key.
LEMMA RawKeyStart ==
    ASSUME NEW s \in Seq(Item), NEW b \in 1..Len(s)
    PROVE  RawKey(s, b, b) = FreshKey(s[b])
<1>1. b \in Nat /\ s[b] \in Item
  BY ElementOf
<1>2. \A types : \A i \in 1..Len(s) : i \notin BehindOf(s, b, b, types)
  BY <1>1 DEF Behind, BehindOf
<1>3. \A types : Select(s, BehindOf(s, b, b, types)) = <<>>
  BY <1>2, SelectNothing
<1>4. ASSUME NEW c \in Container PROVE RawParts(s, b, b, c) = <<>>
  <2>1. PICK q \in Seq(Part) : q = AllRaw(s, b) /\ Len(q) = Len(s)
    BY <1>1, RawPartFacts
  <2>2. \A i \in 1..Len(q) : i \notin Tagged(s, b, b, c)
    BY <1>1 DEF Tagged
  <2>3. Select(q, Tagged(s, b, b, c)) = <<>>
    BY <2>2, SelectNothing
  <2>4. QED
    BY <2>1, <2>3 DEF RawParts
<1>5. [c \in Container |-> RawParts(s, b, b, c)] = [c \in Container |-> <<>>]
  BY <1>4
<1>6. FreshKey(s[b]) = [primary |-> <<s[b]>>, revocations |-> <<>>, directs |-> <<>>,
                        parts |-> [c \in Container |-> <<>>]]
  BY <1>1, FreshKeyFacts
<1>7. QED
  BY <1>3, <1>5, <1>6 DEF RawKey

\* The signatures on the primary key, one step further.
LEMMA PrimaryNext ==
    ASSUME NEW s \in Seq(Item), NEW b \in Nat, NEW e \in Nat, b <= e, e + 1 <= Len(s), NEW types
    PROVE  LET old == Select(s, BehindOf(s, b, e, types))
               new == Select(s, BehindOf(s, b, e + 1, types))
           IN  new = IF Run(s, b, e) /\ s[e + 1].tag = "Signature" /\ s[e + 1].typ \in types
                     THEN Append(old, s[e + 1]) ELSE old
<1>1. PICK n \in 1..Len(s) : n = e + 1
  OBVIOUS
<1>2. PICK P, R : P = BehindOf(s, b, e, types) /\ R = BehindOf(s, b, e + 1, types)
  OBVIOUS
<1>3. \A i \in 1..Len(s) :
         /\ i \in R <=> i \in P \/ (i = n /\ Run(s, b, e) /\ s[n].tag = "Signature" /\ s[n].typ \in types)
         /\ i \in P => i < n
  <2>1. PICK A, B : A = Behind(s, b, e) /\ B = Behind(s, b, e + 1)
    OBVIOUS
  <2>2. /\ \A m \in Nat : m \in B <=> m \in A \/ (m = e + 1 /\ Run(s, b, e) /\ s[e + 1].tag = "Signature")
        /\ \A m \in A : m < e + 1
    BY <2>1, BehindNext
  <2>3. \A i \in 1..Len(s) : i \in Nat
    OBVIOUS
  <2>4. P = { m \in A : s[m].typ \in types } /\ R = { m \in B : s[m].typ \in types }
    BY <1>2, <2>1 DEF BehindOf
  <2>5. QED
    BY <1>1, <2>2, <2>3, <2>4
<1>4. CASE Run(s, b, e) /\ s[n].tag = "Signature" /\ s[n].typ \in types
  <2>3. \A i \in 1..Len(s) : (i \in R <=> i \in P \/ i = n) /\ (i \in P => i < n)
    BY <1>3, <1>4
  <2>1. Select(s, R) = Append(Select(s, P), s[n])
    BY <2>3, SelectNext
  <2>2. QED
    BY <1>1, <1>2, <1>4, <2>1
<1>5. CASE ~(Run(s, b, e) /\ s[n].tag = "Signature" /\ s[n].typ \in types)
  <2>1. \A i \in 1..Len(s) : (i \in R <=> i \in P) /\ (i \in R => s[i] = s[i])
    BY <1>3, <1>5
  <2>2. Select(s, R) = Select(s, P)
    BY <2>1, SelectAgree
  <2>3. QED
    BY <1>1, <1>2, <1>5, <2>2
<1>6. QED
  BY <1>4, <1>5

\* Containers that no part of is open.
LEMMA RawPartsKept ==
    ASSUME NEW s \in Seq(Item), NEW b \in Nat, NEW e \in Nat, b <= e, NEW c, s[e + 1].tag # c,
           \A j \in Tagged(s, b, e, c) : ~(Run(s, j, e) /\ s[e + 1].tag = "Signature")
    PROVE  RawParts(s, b, e + 1, c) = RawParts(s, b, e, c)
<1>1. ASSUME NEW j \in Tagged(s, b, e, c) PROVE RawPart(s, j, e + 1) = RawPart(s, j, e)
  <2>1. j \in Nat /\ j <= e
    BY TaggedNext
  <2>2. QED
    BY <2>1, RawPartSame
<1>2. QED
  BY <1>1, RawPartsSame

\* PrimarySignature.
LEMMA RawKeyPrimary ==
    ASSUME NEW s \in Seq(Item), NEW b \in 1..Len(s), NEW e \in Nat, b <= e, e + 1 <= Len(s),
           Run(s, b, e), NEW g \in Item, g = s[e + 1], g.tag = "Signature"
    PROVE  RawKey(s, b, e + 1) = IF g.typ = "KeyRevocation" THEN AddRevocation(RawKey(s, b, e), g)
                                                            ELSE AddDirect(RawKey(s, b, e), g)
<1>1. b \in Nat /\ g.typ \in SigType
  BY DEF Item
<1>2. PICK k \in Key : k = RawKey(s, b, e)
  BY RawKeyType
<1>3. ASSUME NEW c \in Container PROVE RawParts(s, b, e + 1, c) = RawParts(s, b, e, c)
  <2>1. c # "Signature"
    BY DEF Container
  <2>2. ASSUME NEW j \in Tagged(s, b, e, c) PROVE FALSE
    <3>1. j \in (b + 1)..e /\ s[j].tag = c
      BY <1>1 DEF Tagged
    <3>2. QED
      BY <2>1, <3>1 DEF Run
  <2>3. QED
    BY <1>1, <2>1, <2>2, RawPartsKept
<1>4. [c \in Container |-> RawParts(s, b, e + 1, c)] = [c \in Container |-> RawParts(s, b, e, c)]
  BY <1>3
<1>5. PICK ps : ps = [c \in Container |-> RawParts(s, b, e, c)]
  OBVIOUS
<1>6. PICK x, y, u, v : /\ x = Select(s, BehindOf(s, b, e, {"KeyRevocation"}))
                        /\ y = Select(s, BehindOf(s, b, e, SigType \ {"KeyRevocation"}))
                        /\ u = Select(s, BehindOf(s, b, e + 1, {"KeyRevocation"}))
                        /\ v = Select(s, BehindOf(s, b, e + 1, SigType \ {"KeyRevocation"}))
  OBVIOUS
<1>7. k = [primary |-> <<s[b]>>, revocations |-> x, directs |-> y, parts |-> ps]
  BY <1>2, <1>5, <1>6 DEF RawKey
<1>8. RawKey(s, b, e + 1) = [primary |-> <<s[b]>>, revocations |-> u, directs |-> v, parts |-> ps]
  BY <1>4, <1>5, <1>6 DEF RawKey
<1>9. u = IF g.typ \in {"KeyRevocation"} THEN Append(x, g) ELSE x
  BY <1>1, <1>6, PrimaryNext
<1>10. v = IF g.typ \in SigType \ {"KeyRevocation"} THEN Append(y, g) ELSE y
  BY <1>1, <1>6, PrimaryNext
<1>11. k.primary = <<s[b]>> /\ k.revocations = x /\ k.directs = y /\ k.parts = ps
  BY <1>7
<1>12. /\ AddRevocation(k, g) = [primary |-> k.primary, revocations |-> Append(k.revocations, g),
                                 directs |-> k.directs, parts |-> k.parts]
       /\ AddDirect(k, g) = [primary |-> k.primary, revocations |-> k.revocations,
                             directs |-> Append(k.directs, g), parts |-> k.parts]
  BY AddPrimaryFacts
<1>13. CASE g.typ = "KeyRevocation"
  BY <1>1, <1>2, <1>8, <1>9, <1>10, <1>11, <1>12, <1>13
<1>14. CASE g.typ # "KeyRevocation"
  BY <1>1, <1>2, <1>8, <1>9, <1>10, <1>11, <1>12, <1>14
<1>15. QED
  BY <1>13, <1>14

\* The signatures on the primary key when something else follows.
LEMMA RawHeadSame ==
    ASSUME NEW s \in Seq(Item), NEW b \in 1..Len(s), NEW e \in Nat, b <= e, e + 1 <= Len(s),
           ~(Run(s, b, e) /\ s[e + 1].tag = "Signature")
    PROVE  RawKey(s, b, e + 1) = [primary |-> RawKey(s, b, e).primary,
                                  revocations |-> RawKey(s, b, e).revocations,
                                  directs |-> RawKey(s, b, e).directs,
                                  parts |-> [c \in Container |-> RawParts(s, b, e + 1, c)]]
<1>1. b \in Nat
  OBVIOUS
<1>2. \A types : Select(s, BehindOf(s, b, e + 1, types)) = Select(s, BehindOf(s, b, e, types))
  BY <1>1, PrimaryNext
<1>3. QED
  BY <1>2 DEF RawKey

\* User and Subkey.
LEMMA RawKeyPart ==
    ASSUME NEW s \in Seq(Item), NEW b \in 1..Len(s), NEW e \in Nat, b <= e, e + 1 <= Len(s),
           NEW g \in Item, g = s[e + 1], g.tag \in Container
    PROVE  RawKey(s, b, e + 1) = AddPart(RawKey(s, b, e), g)
<1>1. b \in Nat /\ g.tag # "Signature"
  BY DEF Container
<1>2. PICK k \in Key : k = RawKey(s, b, e) /\ \A c \in Container : k.parts[c] = RawParts(s, b, e, c)
  BY RawKeyType
<1>3. RawParts(s, b, e + 1, g.tag) = Append(k.parts[g.tag], NewPart(g))
  <2>1. PICK c : c = g.tag /\ s[e + 1].tag = c /\ c # "Signature" /\ c \in Container
    BY <1>1
  <2>2. RawParts(s, b, e + 1, c) = Append(RawParts(s, b, e, c), NewPart(s[e + 1]))
    BY <1>1, <2>1, RawPartsNew
  <2>3. QED
    BY <1>2, <2>1, <2>2
<1>4. ASSUME NEW c \in Container, c # g.tag PROVE RawParts(s, b, e + 1, c) = k.parts[c]
  BY <1>1, <1>2, <1>4, RawPartsKept
<1>5. k.parts \in [Container -> Seq(Part)]
  BY KeyFields
<1>6. [c \in Container |-> RawParts(s, b, e + 1, c)]
         = [k.parts EXCEPT ![g.tag] = Append(k.parts[g.tag], NewPart(g))]
  BY <1>3, <1>4, <1>5
<1>7. RawKey(s, b, e + 1) = [primary |-> k.primary, revocations |-> k.revocations, directs |-> k.directs,
                             parts |-> [c \in Container |-> RawParts(s, b, e + 1, c)]]
  BY <1>1, <1>2, RawHeadSame
<1>8. QED
  BY <1>2, <1>6, <1>7 DEF AddPart

\* PartSignature.
LEMMA RawKeySigned ==
    ASSUME NEW s \in Seq(Item), NEW b \in 1..Len(s), NEW e \in Nat, b <= e, e + 1 <= Len(s),
           NEW g \in Item, g = s[e + 1], g.tag = "Signature",
           NEW c \in Container, NEW o \in Tagged(s, b, e, c), Run(s, o, e)
    PROVE  /\ Len(RawKey(s, b, e).parts[c]) > 0
           /\ RawKey(s, b, e + 1) = AddSignature(RawKey(s, b, e), c, g)
<1>1. b \in Nat /\ c # "Signature"
  BY DEF Container
<1>2. PICK k \in Key : k = RawKey(s, b, e) /\ \A d \in Container : k.parts[d] = RawParts(s, b, e, d)
  BY RawKeyType
<1>3. o \in Nat /\ b < o /\ o <= e /\ s[o].tag = c /\ o \in 1..Len(s)
  BY <1>1, TaggedNext
<1>4. PICK p \in Part : p = RawPart(s, o, e)
  BY <1>3, RawPartFacts
<1>5. PICK x \in Seq(Part) : /\ RawParts(s, b, e, c) = Append(x, p)
                             /\ RawParts(s, b, e + 1, c) = Append(x, Signed(p, g))
  BY <1>1, <1>4, RawPartsSigned
<1>6. Signed(p, g) \in Part
  BY Appended DEF Signed, Part
<1>7. PICK ps \in Seq(Part) : ps = k.parts[c] /\ ps = Append(x, p)
  BY <1>2, <1>5, KeyFields
<1>8. PICK n \in Nat : n = Len(x)
  OBVIOUS
<1>16. Len(ps) = n + 1 /\ ps[n + 1] = p /\ \A i \in 1..n : ps[i] = x[i]
  BY <1>7, <1>8, Appended
<1>17. Len(k.parts[c]) > 0 /\ LastPart(k, c) = p
  BY <1>7, <1>16 DEF LastPart
<1>18. PICK l \in Key : l = AddSignature(k, c, g) /\ SignatureAdded(k, l, c, g)
  BY <1>17, AddSignatureFacts
<1>19. l.parts[c] = RawParts(s, b, e + 1, c)
  <2>1. PICK q \in Part, qs \in Seq(Part) : q = Signed(p, g) /\ qs = l.parts[c]
    BY <1>6, KeyFields
  <2>2. Len(qs) = n + 1 /\ \A i \in 1..(n + 1) : qs[i] = IF i = n + 1 THEN q ELSE ps[i]
    BY <1>7, <1>16, <1>17, <1>18, <2>1 DEF SignatureAdded
  <2>3. /\ Append(x, q) \in Seq(Part) /\ Len(Append(x, q)) = n + 1 /\ Append(x, q)[n + 1] = q
        /\ \A i \in 1..n : Append(x, q)[i] = x[i]
    BY <1>8, Appended
  <2>4. \A i \in 1..(n + 1) : i = n + 1 \/ (i \in 1..n /\ i # n + 1)
    OBVIOUS
  <2>5. \A i \in 1..(n + 1) : qs[i] = Append(x, q)[i]
    BY <1>16, <2>2, <2>3, <2>4
  <2>6. qs = Append(x, q)
    BY <2>2, <2>3, <2>5, SameElements
  <2>7. QED
    BY <1>5, <2>1, <2>6
<1>9. ASSUME NEW d \in Container, d # c PROVE RawParts(s, b, e + 1, d) = k.parts[d]
  <2>1. d # "Signature"
    BY DEF Container
  <2>2. ASSUME NEW j \in Tagged(s, b, e, d), Run(s, j, e) PROVE FALSE
    <3>1. j \in Nat /\ j <= e /\ s[j].tag = d
      BY <1>1, TaggedNext
    <3>2. j # o
      BY <1>3, <1>9, <3>1
    <3>3. CASE j < o
      <4>1. o \in (j + 1)..e
        BY <1>3, <3>1, <3>3
      <4>2. QED
        BY <1>1, <1>3, <2>2, <4>1 DEF Run
    <3>4. CASE o < j
      <4>1. j \in (o + 1)..e
        BY <1>3, <3>1, <3>4
      <4>2. QED
        BY <2>1, <3>1, <4>1 DEF Run
    <3>5. QED
      BY <1>3, <3>1, <3>2, <3>3, <3>4
  <2>3. QED
    BY <1>1, <1>2, <2>1, <2>2, RawPartsKept
<1>11. [d \in Container |-> RawParts(s, b, e + 1, d)] = l.parts
  <2>1. \A d \in Container : d # c => l.parts[d] = k.parts[d]
    BY <1>18 DEF SignatureAdded
  <2>2. l.parts \in [Container -> Seq(Part)]
    BY KeyFields
  <2>3. \A d \in Container : l.parts[d] = RawParts(s, b, e + 1, d)
    BY <1>9, <1>19, <2>1
  <2>4. QED
    BY <2>2, <2>3
<1>12. ~Run(s, b, e)
  <2>1. o \in (b + 1)..e
    BY <1>1, <1>3
  <2>2. QED
    BY <1>1, <1>3, <2>1 DEF Run
<1>13. RawKey(s, b, e + 1) = [primary |-> k.primary, revocations |-> k.revocations, directs |-> k.directs,
                              parts |-> [d \in Container |-> RawParts(s, b, e + 1, d)]]
  BY <1>1, <1>2, <1>12, RawHeadSame
<1>14. /\ l = [primary |-> l.primary, revocations |-> l.revocations, directs |-> l.directs, parts |-> l.parts]
       /\ l.primary = k.primary /\ l.revocations = k.revocations /\ l.directs = k.directs
  BY <1>18, KeyFields DEF AddSignature
<1>15. QED
  BY <1>2, <1>11, <1>13, <1>14, <1>17, <1>18

-----------------------------------------------------------------------------
(* A block that was read to its end                                        *)

\* Where no signature follows, the run of signatures is over.
LEMMA BehindIs ==
    ASSUME NEW s \in Seq(Item), NEW e \in Nat, e <= Len(s),
           e + 1 <= Len(s) => s[e + 1].tag # "Signature", NEW j \in Nat, j <= e
    PROVE  \A i \in 1..Len(s) : i \in SignaturesBehind(s, j) <=> i \in Behind(s, j, e)
<1>1. PICK n \in Nat : n = Len(s)
  OBVIOUS
<1>2. ASSUME NEW i \in 1..n, i \in SignaturesBehind(s, j) PROVE i \in Behind(s, j, e)
  <2>1. i \in (j + 1)..n /\ \A m \in (j + 1)..i : s[m].tag = "Signature"
    BY <1>1, <1>2 DEF SignaturesBehind
  <2>2. i <= e
    <3>1. CASE i > e
      <4>1. e + 1 \in (j + 1)..i /\ e + 1 <= n
        BY <2>1, <3>1
      <4>2. QED
        BY <1>1, <2>1, <4>1
    <3>2. QED
      BY <3>1
  <2>3. i \in (j + 1)..e
    BY <2>1, <2>2
  <2>4. QED
    BY <2>1, <2>3 DEF Behind, Run
<1>3. ASSUME NEW i \in 1..n, i \in Behind(s, j, e) PROVE i \in SignaturesBehind(s, j)
  <2>1. i \in (j + 1)..e /\ Run(s, j, i)
    BY <1>3 DEF Behind
  <2>2. i \in (j + 1)..n
    BY <2>1
  <2>3. QED
    BY <1>1, <2>1, <2>2 DEF SignaturesBehind, Run
<1>4. QED
  BY <1>1, <1>2, <1>3

\* The signatures of some types.
LEMMA BehindOfIs ==
    ASSUME NEW s \in Seq(Item), NEW e \in Nat, e <= Len(s),
           e + 1 <= Len(s) => s[e + 1].tag # "Signature", NEW j \in Nat, j <= e, NEW types
    PROVE  Select(s, BehindOf(s, j, e, types)) = PartAt(s, j, types).signatures
<1>1. PICK P, R : P = BehindOf(s, j, e, types) /\ R = { m \in SignaturesBehind(s, j) : s[m].typ \in types }
  OBVIOUS
<1>2. \A i \in 1..Len(s) : (i \in P <=> i \in R) /\ (i \in P => s[i] = s[i])
  BY <1>1, BehindIs DEF BehindOf
<1>3. Select(s, P) = Select(s, R)
  BY <1>2, SelectAgree
<1>4. QED
  BY <1>1, <1>3 DEF PartAt

\* retain(), by value.
LEMMA RetainIsOnly ==
    ASSUME NEW q \in Seq(Item), NEW types
    PROVE  Retain(q, types) = Only(q, { x \in Item : x.typ \in types })
<1> DEFINE Q == { x \in Item : x.typ \in types }
<1>1. \A i \in 1..Len(q) : q[i] \in Item /\ (q[i].typ \in types <=> q[i] \in Q)
  BY ElementOf
<1>2. DOMAIN q = 1..Len(q)
  OBVIOUS
<1>3. { i \in DOMAIN q : q[i].typ \in types } = { i \in 1..Len(q) : q[i] \in Q }
  BY <1>1, <1>2
<1>4. QED
  BY <1>3 DEF Retain, Only

\* The constructor of a part keeps what the reference keeps.
LEMMA KeptRaw ==
    ASSUME NEW s \in Seq(Item), NEW e \in Nat, e <= Len(s),
           e + 1 <= Len(s) => s[e + 1].tag # "Signature", NEW j \in 1..e, NEW c \in Container
    PROVE  KeptPart(RawPart(s, j, e), c) = PartAt(s, j, KeptTypes(c))
<1>1. PICK types : types = KeptTypes(c)
  OBVIOUS
<1> DEFINE Q == { x \in Item : x.typ \in types }
<1>2. PICK P, R : P = Behind(s, j, e) /\ R = { m \in SignaturesBehind(s, j) : s[m].typ \in types }
  OBVIOUS
<1>3. \A i \in 1..Len(s) : i \in R <=> i \in P /\ s[i] \in Q
  <2>1. \A i \in 1..Len(s) : s[i] \in Item
    BY ElementOf
  <2>2. j \in Nat /\ j <= e
    OBVIOUS
  <2>3. \A i \in 1..Len(s) : i \in SignaturesBehind(s, j) <=> i \in P
    BY <1>2, <2>2, BehindIs
  <2>4. QED
    BY <1>2, <2>1, <2>3
<1> HIDE DEF Q
<1>4. Only(Select(s, P), Q) = Select(s, R)
  BY <1>3, SelectTwice
<1>5. Retain(Select(s, P), types) = Only(Select(s, P), Q)
  <2>1. Select(s, P) \in Seq(Item)
    BY SelectFacts
  <2>2. QED
    BY <2>1, RetainIsOnly DEF Q
<1>6. QED
  BY <1>1, <1>2, <1>4, <1>5 DEF KeptPart, RawPart, PartAt

\* All parts of the reference, signed or not.
AllKept(s, c) == [j \in 1..Len(s) |-> PartAt(s, j, KeptTypes(c))]

\* Parts with the signatures that are kept.
LEMMA AllKeptFacts ==
    ASSUME NEW s \in Seq(Item), NEW c
    PROVE  /\ AllKept(s, c) \in Seq(Part) /\ Len(AllKept(s, c)) = Len(s)
           /\ \A j \in 1..Len(s) : AllKept(s, c)[j] = PartAt(s, j, KeptTypes(c))
<1>1. ASSUME NEW j \in 1..Len(s) PROVE PartAt(s, j, KeptTypes(c)) \in Part
  <2>1. PICK P : P = { m \in SignaturesBehind(s, j) : s[m].typ \in KeptTypes(c) }
    OBVIOUS
  <2>2. Select(s, P) \in Seq(Item) /\ s[j] \in Item
    BY SelectFacts, ElementOf
  <2>3. QED
    BY <2>1, <2>2 DEF PartAt, Part
<1>2. QED
  BY <1>1 DEF AllKept

\* The constructor applied to every part that was read.
LEMMA KeptRawParts ==
    ASSUME NEW s \in Seq(Item), NEW b \in Nat, NEW e \in Nat, e <= Len(s),
           e + 1 <= Len(s) => s[e + 1].tag # "Signature", NEW c \in Container
    PROVE  KeptParts(RawParts(s, b, e, c), c) = Select(AllKept(s, c), Tagged(s, b, e, c))
<1>0. PICK T : T = Tagged(s, b, e, c)
  OBVIOUS
<1>1. PICK A \in Seq(Part), B \in Seq(Part) : A = AllRaw(s, e) /\ B = AllKept(s, c)
  BY RawPartFacts, AllKeptFacts
<1>2. Len(A) = Len(s) /\ Len(B) = Len(s)
  BY <1>1, RawPartFacts, AllKeptFacts
<1>3. PICK p \in Seq(Part), q \in Seq(Part) : /\ p = Select(A, T) /\ q = Select(B, T)
                                              /\ Abreast(p, q, A, B, T, Len(s))
  BY <1>2, SelectAbreast
<1>4. ASSUME NEW j \in 1..Len(s), j \in T PROVE B[j] = KeptPart(A[j], c)
  <2>1. j \in 1..e
    BY <1>0, <1>4 DEF Tagged
  <2>2. A[j] = RawPart(s, j, e) /\ B[j] = PartAt(s, j, KeptTypes(c))
    BY <1>1, RawPartFacts, AllKeptFacts
  <2>3. QED
    BY <2>1, <2>2, KeptRaw
<1>5. Len(p) = Len(q) /\ \A i \in 1..Len(p) : q[i] = KeptPart(p[i], c)
  BY <1>3, <1>4 DEF Abreast
<1>6. /\ KeptParts(p, c) \in Seq(Part) /\ Len(KeptParts(p, c)) = Len(p)
      /\ \A i \in 1..Len(p) : KeptParts(p, c)[i] = KeptPart(p[i], c)
  BY KeptPartsFacts
<1>7. KeptParts(p, c) = q
  BY <1>5, <1>6, SameElements
<1>8. QED
  BY <1>0, <1>1, <1>3, <1>7 DEF RawParts

\* Parts without a signature are dropped.
LEMMA SignedIsOnly ==
    ASSUME NEW ps \in Seq(Part)
    PROVE  SignedParts(ps) = Only(ps, { x \in Part : x.signatures # <<>> })
<1> DEFINE Q == { x \in Part : x.signatures # <<>> }
<1>1. \A i \in 1..Len(ps) : ps[i] \in Part /\ (ps[i].signatures # <<>> <=> ps[i] \in Q)
  BY ElementOf
<1>2. DOMAIN ps = 1..Len(ps)
  OBVIOUS
<1>3. { i \in DOMAIN ps : ps[i].signatures # <<>> } = { i \in 1..Len(ps) : ps[i] \in Q }
  BY <1>1, <1>2
<1>4. QED
  BY <1>3 DEF SignedParts, Only

\* A container of a key that was read to its end is the reference's.
LEMMA PartsDone ==
    ASSUME NEW s \in Seq(Item), NEW b \in Nat, NEW e \in Nat, e <= Len(s),
           e + 1 <= Len(s) => s[e + 1].tag # "Signature", BlockEnd(s, b) - 1 = e, NEW c \in Container
    PROVE  SignedParts(KeptParts(RawParts(s, b, e, c), c)) = PartsOf(s, b, c)
<1>0. PICK T : T = Tagged(s, b, e, c)
  OBVIOUS
<1>1. PICK B \in Seq(Part) : B = AllKept(s, c) /\ Len(B) = Len(s)
  BY AllKeptFacts
<1> DEFINE Q == { x \in Part : x.signatures # <<>> }
<1> DEFINE R == { j \in (b + 1)..e : s[j].tag = c /\ PartAt(s, j, KeptTypes(c)).signatures # <<>> }
<1>2. KeptTypes(c) = IF c \in SubkeyTags THEN {"SubkeyBinding", "SubkeyRevocation"} ELSE {"Cert"}
  BY DEF KeptTypes, Container, SubkeyTags, UserTags
<1>3. PartsOf(s, b, c) = Select([j \in DOMAIN s |-> PartAt(s, j, KeptTypes(c))], R)
  BY <1>2 DEF PartsOf
<1>4. [j \in DOMAIN s |-> PartAt(s, j, KeptTypes(c))] = B
  BY <1>1 DEF AllKept
<1>5. \A i \in 1..Len(B) : i \in R <=> i \in T /\ B[i] \in Q
  <2>1. \A i \in 1..Len(B) : B[i] \in Part /\ B[i] = PartAt(s, i, KeptTypes(c))
    BY <1>1, AllKeptFacts, ElementOf
  <2>2. QED
    BY <1>0, <1>1, <2>1 DEF Tagged
<1> HIDE DEF Q, R
<1>6. Only(Select(B, T), Q) = Select(B, R)
  BY <1>5, SelectTwice
<1>7. SignedParts(Select(B, T)) = Only(Select(B, T), Q)
  <2>1. Select(B, T) \in Seq(Part)
    BY SelectFacts
  <2>2. QED
    BY <2>1, SignedIsOnly DEF Q
<1>8. KeptParts(RawParts(s, b, e, c), c) = Select(B, T)
  BY <1>0, <1>1, KeptRawParts
<1>9. QED
  BY <1>3, <1>4, <1>6, <1>7, <1>8

\* SignedPublicKey::new and SignedSecretKey::new, at the end of a block.
LEMMA RawKeyDone ==
    ASSUME NEW s \in Seq(Item), NEW b \in 1..Len(s), NEW e \in Nat, b <= e, e <= Len(s),
           e + 1 <= Len(s) => s[e + 1].tag # "Signature", BlockEnd(s, b) - 1 = e
    PROVE  NewKey(RawKey(s, b, e)) = KeyAt(s, b)
<1>1. PICK k \in Key : k = RawKey(s, b, e) /\ \A c \in Container : k.parts[c] = RawParts(s, b, e, c)
  BY RawKeyType
<1>2. b \in Nat
  OBVIOUS
<1>3. PICK l \in Key : /\ l = NewKey(k) /\ l.primary = k.primary /\ l.revocations = k.revocations
                       /\ l.directs = k.directs
                       /\ \A c \in Container : l.parts[c] = SignedParts(KeptParts(k.parts[c], c))
  BY NewKeyFacts
<1>4. \A c \in Container : l.parts[c] = PartsOf(s, b, c)
  BY <1>1, <1>2, <1>3, PartsDone
<1>5. l.parts = [c \in Container |-> PartsOf(s, b, c)]
  <2>1. l.parts \in [Container -> Seq(Part)]
    BY KeyFields
  <2>2. QED
    BY <1>4, <2>1
<1>6. k.primary = <<s[b]>>
  BY <1>1 DEF RawKey
<1>7. k.revocations = PartAt(s, b, {"KeyRevocation"}).signatures
  BY <1>1, <1>2, BehindOfIs DEF RawKey
<1>8. k.directs = PartAt(s, b, SigType \ {"KeyRevocation"}).signatures
  BY <1>1, <1>2, BehindOfIs DEF RawKey
<1>9. l = [primary |-> l.primary, revocations |-> l.revocations, directs |-> l.directs, parts |-> l.parts]
  BY KeyFields
<1>10. QED
  BY <1>1, <1>3, <1>5, <1>6, <1>7, <1>8, <1>9, Zenon DEF KeyAt

-----------------------------------------------------------------------------
(* Rings of orderly keys                                                   *)

Ring(s) ==
    /\ Len(s) > 0 => s[1].tag \in PrimaryTags
    /\ \A i \in 1..Len(s) : s[i].tag \in PrimaryTags => Orderly(s, i)

Found(s) == [i \in 1..Len(s) |-> [r |-> "Ok", key |-> KeyAt(s, i), cause |-> <<>>]]

\* The keys of the wanted kinds that start up to p.
Given(s, tags, p) == Select(Found(s), { i \in 1..p : s[i].tag \in tags })

\* The reference gives keys.
LEMMA FoundFacts ==
    ASSUME NEW s \in Seq(Item)
    PROVE  /\ Found(s) \in Seq(Result) /\ Len(Found(s)) = Len(s)
           /\ \A i \in 1..Len(s) : Found(s)[i] = [r |-> "Ok", key |-> KeyAt(s, i), cause |-> <<>>]
<1>1. ASSUME NEW j \in 1..Len(s), NEW types
      PROVE  PartAt(s, j, types) \in Part /\ PartAt(s, j, types).signatures \in Seq(Item)
  <2>1. PICK P : P = { m \in SignaturesBehind(s, j) : s[m].typ \in types }
    OBVIOUS
  <2>2. Select(s, P) \in Seq(Item) /\ s[j] \in Item
    BY SelectFacts, ElementOf
  <2>3. QED
    BY <2>1, <2>2 DEF PartAt, Part
<1>2. ASSUME NEW i \in 1..Len(s) PROVE KeyAt(s, i) \in Key
  <2>1. ASSUME NEW c \in Container PROVE PartsOf(s, i, c) \in Seq(Part)
    <3>1. PICK types : types = IF c \in SubkeyTags THEN {"SubkeyBinding", "SubkeyRevocation"} ELSE {"Cert"}
      OBVIOUS
    <3>2. PICK B : B = [j \in DOMAIN s |-> PartAt(s, j, types)]
      OBVIOUS
    <3>3. B \in Seq(Part)
      BY <1>1, <3>2
    <3>4. \A P : Select(B, P) \in Seq(Part)
      BY <3>3, SelectFacts
    <3>5. QED
      BY <3>1, <3>2, <3>4 DEF PartsOf
  <2>2. [c \in Container |-> PartsOf(s, i, c)] \in [Container -> Seq(Part)]
    BY <2>1
  <2>3. <<s[i]>> \in Seq(Item)
    BY ElementOf
  <2>4. QED
    BY <1>1, <2>2, <2>3 DEF KeyAt, Key
<1>3. QED
  BY <1>2 DEF Found, Result

\* Packets that start no wanted key.
LEMMA GivenSkip ==
    ASSUME NEW s \in Seq(Item), NEW tags, NEW a \in Nat, NEW p \in Nat, a <= p,
           \A i \in (a + 1)..p : s[i].tag \notin tags
    PROVE  Given(s, tags, p) = Given(s, tags, a)
<1>1. PICK F \in Seq(Result) : F = Found(s)
  BY FoundFacts
<1>2. PICK P, R : P = { i \in 1..p : s[i].tag \in tags } /\ R = { i \in 1..a : s[i].tag \in tags }
  OBVIOUS
<1>3. \A i \in Nat : i \in 1..p <=> i \in 1..a \/ (i \in 1..p /\ i \in (a + 1)..p)
  OBVIOUS
<1>4. \A i \in 1..Len(F) : (i \in P <=> i \in R) /\ (i \in P => F[i] = F[i])
  BY <1>2, <1>3
<1>5. Select(F, P) = Select(F, R)
  BY <1>4, SelectAgree
<1>6. QED
  BY <1>1, <1>2, <1>5 DEF Given

\* A wanted key.
LEMMA GivenNext ==
    ASSUME NEW s \in Seq(Item), NEW tags, NEW b \in 1..Len(s), s[b].tag \in tags
    PROVE  Given(s, tags, b) = Append(Given(s, tags, b - 1), [r |-> "Ok", key |-> KeyAt(s, b), cause |-> <<>>])
<1>1. PICK F \in Seq(Result) : F = Found(s) /\ Len(F) = Len(s)
  BY FoundFacts
<1>2. PICK P, R : P = { i \in 1..(b - 1) : s[i].tag \in tags } /\ R = { i \in 1..b : s[i].tag \in tags }
  OBVIOUS
<1>3. \A i \in Nat : (i \in 1..b <=> i \in 1..(b - 1) \/ i = b) /\ (i \in 1..(b - 1) => i < b)
  OBVIOUS
<1>4. b \in 1..Len(F) /\ \A i \in 1..Len(F) : (i \in R <=> i \in P \/ i = b) /\ (i \in P => i < b)
  BY <1>1, <1>2, <1>3
<1>5. Select(F, R) = Append(Select(F, P), F[b])
  BY <1>4, SelectNext
<1>6. F[b] = [r |-> "Ok", key |-> KeyAt(s, b), cause |-> <<>>]
  BY <1>1, FoundFacts
<1>7. QED
  BY <1>1, <1>2, <1>5, <1>6 DEF Given

\* Nothing was given before anything was read.
LEMMA GivenNothing ==
    ASSUME NEW s \in Seq(Item), NEW tags
    PROVE  Given(s, tags, 0) = <<>>
<1>1. PICK F \in Seq(Result) : F = Found(s)
  BY FoundFacts
<1>2. PICK P : P = { i \in 1..0 : s[i].tag \in tags }
  OBVIOUS
<1>3. \A i \in 1..Len(F) : i \notin P
  BY <1>2
<1>4. Select(F, P) = <<>>
  BY <1>3, SelectNothing
<1>5. QED
  BY <1>1, <1>2, <1>4 DEF Given

\* What an orderly block holds behind what was read of it.
LEMMA NextInBlock ==
    ASSUME NEW s \in Seq(Item), Ring(s), NEW b \in Nat, NEW e \in Nat, Block(s, b, e), e + 1 <= Len(s),
           s[e + 1].tag \notin PrimaryTags
    PROVE  /\ s[e + 1].tag \in UserTags \cup SubkeyTagsOf(s[b].tag) \cup {"Signature"}
           /\ s[e + 1].tag \in SubkeyTags => s[b].v4
           /\ s[e + 1].tag \in UserTags => \A m \in (b + 1)..e : s[m].tag \notin SubkeyTags
<1>1. PICK f \in Nat : f = e + 1 /\ Block(s, b, f)
  BY BlockGrows
<1>2. PICK z \in Nat : z = BlockEnd(s, b) /\ f <= z - 1
  BY <1>1, BlockEndBehind
<1>3. b <= e /\ b \in 1..Len(s) /\ s[b].tag \in PrimaryTags
  BY DEF Block
<1>4. Orderly(s, b)
  BY <1>3 DEF Ring
<1>5. f \in (b + 1)..(z - 1) /\ \A m \in (b + 1)..e : m \in (b + 1)..(z - 1) /\ ~(f < m)
  BY <1>1, <1>2, <1>3
<1>6. /\ \A j \in (b + 1)..(z - 1) : s[j].tag \in UserTags \cup SubkeyTagsOf(s[b].tag) \cup {"Signature"}
      /\ \A j, k \in (b + 1)..(z - 1) : s[j].tag \in SubkeyTags /\ s[k].tag \in UserTags => k < j
      /\ \A j \in (b + 1)..(z - 1) : s[j].tag \in SubkeyTags => s[b].v4
  BY <1>2, <1>4 DEF Orderly
<1>7. QED
  BY <1>1, <1>5, <1>6

\* A block ends where a primary key or nothing follows.
LEMMA BlockEndIs ==
    ASSUME NEW s \in Seq(Item), NEW b \in Nat, NEW e \in Nat, Block(s, b, e),
           e + 1 <= Len(s) => s[e + 1].tag \in PrimaryTags
    PROVE  BlockEnd(s, b) - 1 = e
<1> DEFINE T == { j \in (b + 1)..(Len(s) + 1) : j = Len(s) + 1 \/ s[j].tag \in PrimaryTags }
<1>1. PICK n \in Nat : n = Len(s) /\ b <= e /\ e <= n
  BY DEF Block
<1>2. e + 1 \in (b + 1)..(n + 1) /\ (e + 1 <= n \/ e + 1 = n + 1)
  BY <1>1
<1>3. e + 1 \in T /\ T \in SUBSET Nat
  BY <1>1, <1>2
<1>4. BlockEnd(s, b) = Min(T)
  BY DEF BlockEnd
<1> HIDE DEF T
<1>5. Min(T) <= e + 1
  BY <1>3, MinFacts
<1>6. BlockEnd(s, b) \in Nat /\ e <= BlockEnd(s, b) - 1
  BY BlockEndBehind
<1>7. QED
  BY <1>4, <1>5, <1>6

\* There is no error in a ring.
LEMMA RingTags ==
    ASSUME NEW s \in Seq(Item), Ring(s), NEW i \in 1..Len(s)
    PROVE  s[i].tag # "Err"
<1> DEFINE T == { m \in Nat : m < i /\ s[i - m].tag \in PrimaryTags }
<1>1. i - 1 \in Nat /\ i - 1 < i /\ i - (i - 1) = 1 /\ Len(s) > 0
  OBVIOUS
<1>2. i - 1 \in T /\ T \in SUBSET Nat
  BY <1>1 DEF Ring
<1>3. PICK m \in T : \A k \in T : m <= k
  BY <1>2, LeastExists
<1>4. PICK b \in 1..i : b = i - m /\ s[b].tag \in PrimaryTags
  BY <1>3
<1>5. ASSUME NEW k \in (b + 1)..i PROVE s[k].tag \notin PrimaryTags
  <2>1. i - k \in Nat /\ i - k < i /\ i - (i - k) = k /\ i - k < m /\ m \in Nat
    BY <1>3, <1>4
  <2>2. PICK d \in Nat : d < i /\ i - d = k /\ d < m
    BY <2>1
  <2>3. d \notin T
    <3>1. ~(m <= d)
      BY <2>1, <2>2
    <3>2. QED
      BY <1>3, <3>1, Zenon
  <2>4. QED
    BY <2>2, <2>3
<1> HIDE DEF T
<1>6. CASE b = i
  BY <1>4, <1>6 DEF PrimaryTags
<1>7. CASE b # i
  <2>1. PICK e \in Nat : e + 1 = i /\ b <= e /\ b \in Nat /\ e + 1 <= Len(s) /\ e <= Len(s) /\ 1 <= b
    <3>1. i - 1 \in Nat /\ (i - 1) + 1 = i /\ b <= i - 1 /\ b \in Nat /\ (i - 1) + 1 <= Len(s)
          /\ i - 1 <= Len(s) /\ 1 <= b
      BY <1>4, <1>7
    <3>2. QED
      BY <3>1
  <2>2. i \in (b + 1)..i /\ \A k \in (b + 1)..e : k \in (b + 1)..i
    BY <2>1
  <2>3. Block(s, b, e) /\ s[e + 1].tag \notin PrimaryTags
    BY <1>4, <1>5, <2>1, <2>2 DEF Block
  <2>4. s[i].tag \in UserTags \cup SubkeyTagsOf(s[b].tag) \cup {"Signature"}
    BY <2>1, <2>3, NextInBlock
  <2>5. QED
    BY <2>4 DEF UserTags, SubkeyTagsOf, SubkeyTags
<1>8. QED
  BY <1>6, <1>7

-----------------------------------------------------------------------------
(* One step of the parser inside a block                                   *)

NextIn(s, e, tags) == e # Len(s) /\ s[e + 1].tag \in tags

\* What holds at e, in the block of b, of the key k, the loop p and the
\* container c whose last part is open.
Reading(s, b, e, k, p, c) ==
    /\ Block(s, b, e) /\ k = RawKey(s, b, e)
    /\ p = "signatures" => c = "none" /\ Run(s, b, e)
    /\ c # "none" => \E o \in (b + 1)..e : s[o].tag = c /\ Run(s, o, e)
    /\ c # "none" /\ p = "subkeys" => c \in SubkeyTags
    /\ c = "none" /\ p # "signatures" => ~NextIn(s, e, {"Signature"})
    /\ c = "none" /\ p = "subkeys" => ~NextIn(s, e, UserTags)

\* SearchPrimary.
LEMMA ReadingStart ==
    ASSUME NEW s \in Seq(Item), NEW b \in 1..Len(s), s[b].tag \in PrimaryTags
    PROVE  Reading(s, b, b, FreshKey(s[b]), "signatures", "none")
<1>1. b \in Nat /\ b <= Len(s) /\ 1 <= b /\ b <= b /\ \A m \in (b + 1)..b : FALSE
  OBVIOUS
<1>2. Block(s, b, b) /\ Run(s, b, b)
  BY <1>1 DEF Block, Run
<1>3. FreshKey(s[b]) = RawKey(s, b, b)
  BY RawKeyStart
<1>4. QED
  BY <1>2, <1>3 DEF Reading

\* The numbers of a block.
LEMMA BlockFacts ==
    ASSUME NEW s \in Seq(Item), NEW b, NEW e, Block(s, b, e)
    PROVE  /\ b \in Nat /\ e \in Nat /\ b <= e /\ e <= Len(s) /\ b \in 1..Len(s)
           /\ s[b].tag \in PrimaryTags /\ s[b] \in Item
           /\ \A tags : NextIn(s, e, tags) <=> e + 1 <= Len(s) /\ s[e + 1].tag \in tags
<1>1. b \in Nat /\ e \in Nat /\ 1 <= b /\ b <= e /\ e <= Len(s) /\ s[b].tag \in PrimaryTags
  BY DEF Block
<1>2. PICK n \in Nat : n = Len(s)
  OBVIOUS
<1>3. b \in 1..n /\ (e # n <=> e + 1 <= n)
  BY <1>1, <1>2
<1>4. s[b] \in Item
  BY <1>2, <1>3, ElementOf
<1>5. QED
  BY <1>1, <1>2, <1>3, <1>4 DEF NextIn

\* PrimarySignature.
LEMMA ReadingPrimary ==
    ASSUME NEW s \in Seq(Item), NEW b, NEW e, NEW k, Reading(s, b, e, k, "signatures", "none"),
           e + 1 <= Len(s), NEW g \in Item, g = s[e + 1], g.tag = "Signature"
    PROVE  Reading(s, b, e + 1, IF g.typ = "KeyRevocation" THEN AddRevocation(k, g) ELSE AddDirect(k, g),
                   "signatures", "none")
<1>1. Block(s, b, e) /\ k = RawKey(s, b, e) /\ Run(s, b, e)
  BY DEF Reading
<1>2. b \in Nat /\ e \in Nat /\ b <= e /\ b \in 1..Len(s)
  BY <1>1, BlockFacts
<1>3. Block(s, b, e + 1)
  BY <1>1, <1>2, BlockGrows DEF PrimaryTags
<1>4. Run(s, b, e + 1)
  BY <1>1, <1>2, RunGrows
<1>5. RawKey(s, b, e + 1) = IF g.typ = "KeyRevocation" THEN AddRevocation(k, g) ELSE AddDirect(k, g)
  BY <1>1, <1>2, RawKeyPrimary
<1>6. QED
  BY <1>3, <1>4, <1>5 DEF Reading

\* User and Subkey.
LEMMA ReadingPart ==
    ASSUME NEW s \in Seq(Item), NEW b, NEW e, NEW k, NEW p, NEW c, Reading(s, b, e, k, p, c),
           p \in {"users", "subkeys"}, e + 1 <= Len(s), NEW g \in Item, g = s[e + 1],
           g.tag \in Container, p = "subkeys" => g.tag \in SubkeyTags
    PROVE  Reading(s, b, e + 1, AddPart(k, g), p, g.tag)
<1>1. Block(s, b, e) /\ k = RawKey(s, b, e)
  BY DEF Reading
<1>2. b \in Nat /\ e \in Nat /\ b <= e /\ b \in 1..Len(s)
  BY <1>1, BlockFacts
<1>3. g.tag \notin PrimaryTags /\ g.tag # "none"
  BY DEF PrimaryTags, Container
<1>4. Block(s, b, e + 1)
  BY <1>1, <1>2, <1>3, BlockGrows
<1>5. e + 1 \in (b + 1)..(e + 1) /\ \A m \in ((e + 1) + 1)..(e + 1) : FALSE
  BY <1>2
<1>6. Run(s, e + 1, e + 1)
  BY <1>5 DEF Run
<1>7. RawKey(s, b, e + 1) = AddPart(k, g)
  BY <1>1, <1>2, RawKeyPart
<1>8. QED
  BY <1>3, <1>4, <1>5, <1>6, <1>7 DEF Reading

\* PartSignature.
LEMMA ReadingSignature ==
    ASSUME NEW s \in Seq(Item), NEW b, NEW e, NEW k, NEW p, NEW c \in Container, Reading(s, b, e, k, p, c),
           p \in {"users", "subkeys"}, e + 1 <= Len(s), NEW g \in Item, g = s[e + 1], g.tag = "Signature"
    PROVE  Reading(s, b, e + 1, AddSignature(k, c, g), p, c)
<1>1. Block(s, b, e) /\ k = RawKey(s, b, e) /\ c # "none" /\ (p = "subkeys" => c \in SubkeyTags)
  BY DEF Reading, Container
<1>2. b \in Nat /\ e \in Nat /\ b <= e /\ b \in 1..Len(s)
  BY <1>1, BlockFacts
<1>3. PICK o \in (b + 1)..e : s[o].tag = c /\ Run(s, o, e)
  BY <1>1 DEF Reading
<1>4. o \in Tagged(s, b, e, c) /\ o \in Nat /\ o <= e /\ o \in (b + 1)..(e + 1)
  BY <1>2, <1>3 DEF Tagged
<1>5. RawKey(s, b, e + 1) = AddSignature(k, c, g)
  BY <1>1, <1>2, <1>3, <1>4, RawKeySigned
<1>6. Run(s, o, e + 1)
  BY <1>2, <1>3, <1>4, RunGrows
<1>7. Block(s, b, e + 1)
  BY <1>1, <1>2, BlockGrows DEF PrimaryTags
<1>8. QED
  BY <1>1, <1>3, <1>4, <1>5, <1>6, <1>7 DEF Reading

\* PrimarySignaturesEnd.
LEMMA ReadingUsers ==
    ASSUME NEW s, NEW b, NEW e, NEW k, NEW c, Reading(s, b, e, k, "signatures", c), ~NextIn(s, e, {"Signature"})
    PROVE  Reading(s, b, e, k, "users", c)
BY DEF Reading

\* UsersEnd.
LEMMA ReadingSubkeys ==
    ASSUME NEW s, NEW b, NEW e, NEW k, NEW c, Reading(s, b, e, k, "users", c),
           ~NextIn(s, e, UserTags), ~(c # "none" /\ NextIn(s, e, {"Signature"}))
    PROVE  Reading(s, b, e, k, "subkeys", "none")
BY DEF Reading

\* SubkeysEnd leaves the loop only at the end of the block.
LEMMA ReadingAll ==
    ASSUME NEW s \in Seq(Item), Ring(s), NEW b, NEW e, NEW k, NEW c, Reading(s, b, e, k, "subkeys", c),
           ~NextIn(s, e, SubkeyTagsOf(s[b].tag)), ~(c # "none" /\ NextIn(s, e, {"Signature"}))
    PROVE  e + 1 <= Len(s) => s[e + 1].tag \in PrimaryTags
<1> SUFFICES ASSUME e + 1 <= Len(s), s[e + 1].tag \notin PrimaryTags PROVE FALSE
  OBVIOUS
<1>1. Block(s, b, e)
  BY DEF Reading
<1>2. /\ b \in Nat /\ e \in Nat
      /\ \A tags : NextIn(s, e, tags) <=> e + 1 <= Len(s) /\ s[e + 1].tag \in tags
  BY <1>1, BlockFacts
<1>3. /\ s[e + 1].tag \in UserTags \cup SubkeyTagsOf(s[b].tag) \cup {"Signature"}
      /\ s[e + 1].tag \in UserTags => \A m \in (b + 1)..e : s[m].tag \notin SubkeyTags
  BY <1>1, <1>2, NextInBlock
<1>4. s[e + 1].tag \notin SubkeyTagsOf(s[b].tag)
  BY <1>2
<1>5. CASE s[e + 1].tag = "Signature"
  BY <1>2, <1>5 DEF Reading
<1>6. CASE s[e + 1].tag \in UserTags
  <2>1. c # "none"
    BY <1>2, <1>6 DEF Reading
  <2>2. c \in SubkeyTags /\ \E o \in (b + 1)..e : s[o].tag = c
    BY <2>1 DEF Reading
  <2>3. QED
    BY <1>3, <1>6, <2>2
<1>7. QED
  BY <1>3, <1>4, <1>5, <1>6

\* What SubkeysEnd hands out.
GivenKey(k) == [r |-> "Ok", key |-> k, cause |-> <<>>]

\* SubkeysEnd gives the key the reference finds.
LEMMA ReadingDone ==
    ASSUME NEW s \in Seq(Item), NEW b, NEW e, NEW k, NEW c, Reading(s, b, e, k, "subkeys", c),
           e + 1 <= Len(s) => s[e + 1].tag \in PrimaryTags,
           NEW tags, tags \subseteq PrimaryTags, s[b].tag \in tags
    PROVE  Given(s, tags, e) = Append(Given(s, tags, b - 1), GivenKey(NewKey(k)))
<1>1. Block(s, b, e) /\ k = RawKey(s, b, e)
  BY DEF Reading
<1>2. b \in Nat /\ e \in Nat /\ b <= e /\ b \in 1..Len(s) /\ e <= Len(s)
  BY <1>1, BlockFacts
<1>3. BlockEnd(s, b) - 1 = e
  BY <1>1, <1>2, BlockEndIs
<1>4. e + 1 <= Len(s) => s[e + 1].tag # "Signature"
  BY DEF PrimaryTags
<1>5. NewKey(k) = KeyAt(s, b)
  BY <1>1, <1>2, <1>3, <1>4, RawKeyDone
<1>6. \A i \in (b + 1)..e : s[i].tag \notin tags
  BY <1>1 DEF Block
<1>7. Given(s, tags, e) = Given(s, tags, b)
  BY <1>2, <1>6, GivenSkip
<1>8. Given(s, tags, b) = Append(Given(s, tags, b - 1), [r |-> "Ok", key |-> KeyAt(s, b), cause |-> <<>>])
  BY <1>2, GivenNext
<1>9. QED
  BY <1>5, <1>7, <1>8 DEF GivenKey

-----------------------------------------------------------------------------
(* A ring is read completely                                               *)

\* The key in progress starts at b; all wanted keys before it were given.
BlockRead(b) ==
    /\ packets[b].tag = keyTag
    /\ Reading(packets, b, pos, key, pc, cur)
    /\ out = Given(packets, Wanted, b - 1)

ReadSoFar ==
    /\ pc \notin Building => out = Given(packets, Wanted, pos)
    /\ pc = "idle" /\ mode = "PubPrivIterator" => AtEnd \/ PeekIn(PrimaryTags)
    /\ pc = "search" \/ pc \in Building => keyTag \in Wanted
    /\ pc = "search" /\ mode = "PubPrivIterator" => PeekIn({keyTag})
    /\ pc = "search" /\ mode # "PubPrivIterator" => Wanted = {keyTag}
    /\ pc = "exhausted" => AtEnd
    /\ inner \/ AtEnd
    /\ pc \in Building => \E b \in 1..pos : BlockRead(b)

RingInv == Ring(packets) => ReadSoFar

\* Nothing has been read.
LEMMA NothingRead ==
    ASSUME packets \in Seq(Item), Ring(packets), pos = 0, pc = "idle", inner = TRUE, out = <<>>
    PROVE  ReadSoFar
<1>1. Given(packets, Wanted, 0) = <<>>
  BY GivenNothing
<1>2. AtEnd \/ PeekIn(PrimaryTags)
  <2>1. PICK n \in Nat : n = Len(packets)
    OBVIOUS
  <2>2. n = 0 \/ n > 0
    OBVIOUS
  <2>3. CASE n = 0
    BY <2>1, <2>3 DEF AtEnd
  <2>4. CASE n > 0
    BY <2>1, <2>4 DEF AtEnd, PeekIn, Peek, Ring
  <2>5. QED
    BY <2>2, <2>3, <2>4
<1>3. QED
  BY <1>1, <1>2 DEF ReadSoFar, Building

\* next() begins.
LEMMA CallReads ==
    ASSUME KInv, Ring(packets), ReadSoFar, CallKeyParser
    PROVE  ReadSoFar'
<1>1. Wanted' = Wanted /\ UNCHANGED <<packets, mode, pos, inner, out>> /\ pc = "idle"
  BY WantedSame DEF CallKeyParser
<1>2. pc' = "search" /\ Wanted = {keyTag'} /\ mode # "PubPrivIterator"
  BY WantedFacts DEF CallKeyParser, Begin, KInv, TypeInv, AllModes
<1>3. AtEnd' = AtEnd
  BY <1>1 DEF AtEnd
<1>4. out = Given(packets, Wanted, pos) /\ (inner \/ AtEnd)
  BY <1>1 DEF ReadSoFar, Building
<1>5. QED
  BY <1>1, <1>2, <1>3, <1>4 DEF ReadSoFar, Building

\* PubPrivIterator peeks.
LEMMA PubPrivReads ==
    ASSUME KInv, Ring(packets), ReadSoFar, CallPubPriv
    PROVE  ReadSoFar'
<1>1. Wanted' = Wanted /\ UNCHANGED <<packets, mode, pos>> /\ pc = "idle" /\ mode = "PubPrivIterator"
  BY WantedSame DEF CallPubPriv
<1>2. Wanted = PrimaryTags
  BY <1>1, WantedFacts DEF KInv
<1>3. AtEnd' = AtEnd /\ Peek' = Peek
  BY <1>1 DEF AtEnd, Peek
<1>4. out = Given(packets, Wanted, pos) /\ (inner \/ AtEnd) /\ (AtEnd \/ PeekIn(PrimaryTags))
  BY <1>1 DEF ReadSoFar, Building
<1>5. CASE inner /\ PeekIn(PrimaryTags) /\ Begin(Peek.tag) /\ UNCHANGED <<inner, out>>
  <2>1. pc' = "search" /\ keyTag' = Peek.tag /\ keyTag' \in PrimaryTags /\ ~AtEnd
    BY <1>5 DEF Begin, PeekIn
  <2>2. PeekIn({keyTag})'
    BY <1>3, <2>1 DEF PeekIn
  <2>3. QED
    BY <1>1, <1>2, <1>3, <1>4, <1>5, <2>1, <2>2 DEF ReadSoFar, Building
<1>6. CASE PeekIn({"Err"})
  BY <1>4, <1>6 DEF PeekIn, PrimaryTags
<1>7. CASE /\ ~(inner /\ PeekIn(PrimaryTags \cup {"Err"})) /\ pc' = "exhausted" /\ UNCHANGED out
  <2>1. AtEnd
    BY <1>4, <1>7 DEF PeekIn
  <2>2. QED
    BY <1>1, <1>3, <1>4, <1>7, <2>1 DEF ReadSoFar, Building
<1>8. QED
  BY <1>5, <1>6, <1>7 DEF CallPubPriv

\* What the search passes over is not wanted.
LEMMA SearchReads ==
    ASSUME KInv, Ring(packets), ReadSoFar, SearchSkip
    PROVE  ReadSoFar'
<1>1. /\ Wanted' = Wanted /\ UNCHANGED <<packets, mode, pc, keyTag, inner, out>> /\ pc = "search"
      /\ pos' = pos + 1 /\ PeekIn(ItemTag \ {keyTag, "Err"})
  BY WantedSame DEF SearchSkip
<1>2. mode # "PubPrivIterator"
  BY <1>1 DEF ReadSoFar, PeekIn
<1>3. Wanted = {keyTag} /\ out = Given(packets, Wanted, pos) /\ (inner \/ AtEnd)
  BY <1>1, <1>2 DEF ReadSoFar, Building
<1>4. inner
  BY <1>1, <1>3 DEF PeekIn
<1>5. packets \in Seq(Item) /\ pos \in Nat /\ packets[pos + 1].tag \notin Wanted
  BY <1>1, <1>3 DEF KInv, TypeInv, PeekIn, Peek
<1>6. pos + 1 \in Nat /\ pos <= pos + 1 /\ \A i \in (pos + 1)..(pos + 1) : i = pos + 1
  BY <1>5
<1>7. \A i \in (pos + 1)..(pos + 1) : packets[i].tag \notin Wanted
  BY <1>5, <1>6
<1>8. PICK w : w = Wanted
  OBVIOUS
<1>9. Given(packets, w, pos + 1) = Given(packets, w, pos)
  BY <1>5, <1>6, <1>7, <1>8, GivenSkip
<1>10. QED
  BY <1>1, <1>2, <1>3, <1>4, <1>8, <1>9 DEF ReadSoFar, Building

\* The search meets no error and ends at the end.
LEMMA SearchEndReads ==
    ASSUME KInv, Ring(packets), ReadSoFar, SearchErr \/ SearchEnd
    PROVE  ReadSoFar'
<1>1. CASE SearchErr
  <2>1. PeekIn({"Err"}) /\ TypeInv
    BY <1>1 DEF SearchErr, KInv
  <2>2. pos + 1 \in 1..Len(packets) /\ packets[pos + 1].tag = "Err" /\ packets \in Seq(Item)
    BY <2>1, PeekFacts DEF TypeInv
  <2>3. QED
    BY <2>2, RingTags
<1>2. CASE SearchEnd
  <2>1. /\ Wanted' = Wanted /\ UNCHANGED <<packets, mode, pos, inner, out>> /\ pc = "search"
        /\ pc' = "exhausted" /\ AtEnd
    BY <1>2, WantedSame DEF SearchEnd
  <2>2. AtEnd'
    BY <2>1 DEF AtEnd
  <2>3. out = Given(packets, Wanted, pos)
    BY <2>1 DEF ReadSoFar, Building
  <2>4. QED
    BY <2>1, <2>2, <2>3 DEF ReadSoFar, Building
<1>3. QED
  BY <1>1, <1>2

\* A step inside a block.
LEMMA BlockStep ==
    ASSUME TypeInv, ReadSoFar, pc' \in Building, keyTag \in Wanted,
           UNCHANGED <<packets, mode, keyTag, inner, out>>,
           pos' = pos \/ (pos' = pos + 1 /\ ~AtEnd),
           NEW b \in 1..pos', packets[b].tag = keyTag,
           Reading(packets, b, pos', key', pc', cur'), out = Given(packets, Wanted, b - 1)
    PROVE  ReadSoFar'
<1>1. Wanted' = Wanted
  BY WantedSame
<1>2. (inner \/ AtEnd)'
  <2>1. inner \/ AtEnd
    BY DEF ReadSoFar
  <2>2. CASE pos' = pos
    BY <2>1, <2>2 DEF AtEnd
  <2>3. CASE ~AtEnd
    BY <2>1, <2>3
  <2>4. QED
    BY <2>2, <2>3
<1>3. BlockRead(b)'
  BY <1>1 DEF BlockRead
<1>4. pc' \notin {"idle", "search", "exhausted"}
  BY DEF Building
<1>5. QED
  BY <1>1, <1>2, <1>3, <1>4 DEF ReadSoFar

\* A wanted key starts.
LEMMA StartReads ==
    ASSUME KInv, Ring(packets), ReadSoFar, SearchPrimary
    PROVE  ReadSoFar'
<1>1. /\ UNCHANGED <<packets, mode, keyTag, cur, inner, out>> /\ pc = "search"
      /\ pc' = "signatures" /\ key' = FreshKey(Peek) /\ PeekIn({keyTag}) /\ pos' = pos + 1
  BY DEF SearchPrimary
<1>2. TypeInv /\ cur = "none"
  BY <1>1 DEF KInv, SearchesFresh
<1>3. PICK b \in 1..Len(packets) : b = pos + 1 /\ packets[b].tag = keyTag /\ Peek = packets[b]
  BY <1>1, <1>2, PeekFacts
<1>4. keyTag \in Wanted /\ keyTag \in PrimaryTags /\ out = Given(packets, Wanted, pos)
  BY <1>1, <1>2 DEF ReadSoFar, Building, TypeInv
<1>5. packets \in Seq(Item) /\ pos \in Nat /\ b - 1 = pos /\ b \in 1..pos'
  BY <1>1, <1>2, <1>3 DEF TypeInv
<1>6. Reading(packets, b, b, FreshKey(packets[b]), "signatures", "none")
  BY <1>3, <1>4, <1>5, ReadingStart
<1>7. Reading(packets, b, pos', key', pc', cur')
  BY <1>1, <1>2, <1>3, <1>6
<1>8. pos' = pos + 1 /\ ~AtEnd /\ pc' \in Building
  BY <1>1 DEF PeekIn, Building
<1>9. QED
  BY <1>1, <1>2, <1>3, <1>4, <1>5, <1>7, <1>8, BlockStep

\* The block that is being read.
LEMMA InBlock ==
    ASSUME KInv, ReadSoFar, pc \in Building
    PROVE  /\ packets \in Seq(Item) /\ pos \in Nat /\ TypeInv /\ keyTag \in Wanted
           /\ \E b \in 1..pos : /\ packets[b].tag = keyTag /\ out = Given(packets, Wanted, b - 1)
                                /\ Reading(packets, b, pos, key, pc, cur)
           /\ \A tags : PeekIn(tags) <=> NextIn(packets, pos, tags)
           /\ \A tags : PeekIn(tags) => pos + 1 <= Len(packets) /\ ~AtEnd
<1>1. TypeInv /\ packets \in Seq(Item) /\ pos \in Nat
  BY DEF KInv, TypeInv
<1>2. keyTag \in Wanted /\ \E b \in 1..pos : BlockRead(b)
  BY DEF ReadSoFar
<1>3. \A tags : PeekIn(tags) <=> NextIn(packets, pos, tags)
  BY DEF PeekIn, NextIn, Peek, AtEnd
<1>4. \A tags : PeekIn(tags) => pos + 1 <= Len(packets) /\ ~AtEnd
  BY <1>1, PeekFacts DEF PeekIn
<1>5. QED
  BY <1>1, <1>2, <1>3, <1>4 DEF BlockRead

\* The loop over the signatures on the primary key.
LEMMA HeadReads ==
    ASSUME KInv, Ring(packets), ReadSoFar, PrimarySignature \/ PrimarySignaturesEnd
    PROVE  ReadSoFar'
<1>1. pc = "signatures" /\ pc \in Building
  BY DEF PrimarySignature, PrimarySignaturesEnd, Building
<1>2. PICK b \in 1..pos : /\ packets[b].tag = keyTag /\ out = Given(packets, Wanted, b - 1)
                          /\ Reading(packets, b, pos, key, pc, cur)
  BY <1>1, InBlock
<1>3. /\ packets \in Seq(Item) /\ pos \in Nat /\ TypeInv /\ keyTag \in Wanted
      /\ \A tags : PeekIn(tags) <=> NextIn(packets, pos, tags)
      /\ \A tags : PeekIn(tags) => pos + 1 <= Len(packets) /\ ~AtEnd
  BY <1>1, InBlock
<1>4. cur = "none"
  BY <1>1, <1>2 DEF Reading
<1>5. CASE PrimarySignature
  <2>1. /\ UNCHANGED <<packets, mode, pc, keyTag, cur, inner, out>> /\ pos' = pos + 1
        /\ PeekIn({"Signature"})
    BY <1>5 DEF PrimarySignature
  <2>2. /\ Peek \in Item /\ Peek.tag = "Signature" /\ Peek = packets[pos + 1]
        /\ key' = IF Peek.typ = "KeyRevocation" THEN AddRevocation(key, Peek) ELSE AddDirect(key, Peek)
    BY <1>3, <1>5, PrimarySignatureKey DEF Peek
  <2>3. Reading(packets, b, pos + 1, IF Peek.typ = "KeyRevocation" THEN AddRevocation(key, Peek)
                                                                  ELSE AddDirect(key, Peek), "signatures", "none")
    BY <1>1, <1>2, <1>3, <1>4, <2>1, <2>2, ReadingPrimary
  <2>4. Reading(packets, b, pos', key', pc', cur')
    BY <1>1, <1>4, <2>1, <2>2, <2>3, Zenon
  <2>5. b \in 1..pos' /\ ~AtEnd
    BY <1>3, <2>1
  <2>6. QED
    BY <1>1, <1>2, <1>3, <2>1, <2>4, <2>5, BlockStep
<1>6. CASE PrimarySignaturesEnd
  <2>1. /\ UNCHANGED <<packets, mode, pos, keyTag, key, cur, inner, out>> /\ pc' = "users"
        /\ ~PeekIn({"Signature"})
    BY <1>6 DEF PrimarySignaturesEnd
  <2>2. Reading(packets, b, pos, key, "users", cur)
    BY <1>1, <1>2, <1>3, <2>1, ReadingUsers
  <2>3. Reading(packets, b, pos', key', pc', cur') /\ b \in 1..pos' /\ pc' \in Building
    BY <2>1, <2>2 DEF Building
  <2>4. QED
    BY <1>2, <1>3, <2>1, <2>3, BlockStep
<1>7. QED
  BY <1>5, <1>6

\* A part starts.
LEMMA PartReads ==
    ASSUME KInv, Ring(packets), ReadSoFar, User \/ Subkey
    PROVE  ReadSoFar'
<1>1. pc \in {"users", "subkeys"} /\ pc \in Building
  BY DEF User, Subkey, Building
<1>2. PICK b \in 1..pos : /\ packets[b].tag = keyTag /\ out = Given(packets, Wanted, b - 1)
                          /\ Reading(packets, b, pos, key, pc, cur)
  BY <1>1, InBlock
<1>3. /\ packets \in Seq(Item) /\ pos \in Nat /\ TypeInv /\ keyTag \in Wanted
      /\ \A tags : PeekIn(tags) => pos + 1 <= Len(packets) /\ ~AtEnd
  BY <1>1, InBlock
<1>4. /\ UNCHANGED <<packets, mode, pc, keyTag, inner, out>> /\ TakePart
      /\ PeekIn(Container) /\ (pc = "subkeys" => Peek.tag \in SubkeyTags)
  <2>1. CASE User
    BY <2>1 DEF User, PeekIn, UserTags, Container
  <2>2. CASE Subkey
    BY <2>2 DEF Subkey, PeekIn, SubkeyTagsOf, SubkeyTags, Container
  <2>3. QED
    BY <2>1, <2>2
<1>5. pos' = pos + 1 /\ cur' = Peek.tag
  BY <1>4 DEF TakePart
<1>6. Peek \in Item /\ Peek.tag \in Container /\ Peek = packets[pos + 1] /\ key' = AddPart(key, Peek)
  BY <1>3, <1>4, TakePartKey DEF Peek
<1>7. Reading(packets, b, pos + 1, AddPart(key, Peek), pc, Peek.tag)
  BY <1>1, <1>2, <1>3, <1>4, <1>6, ReadingPart
<1>8. Reading(packets, b, pos', key', pc', cur')
  BY <1>4, <1>5, <1>6, <1>7, Zenon
<1>9. b \in 1..pos' /\ ~AtEnd
  BY <1>3, <1>4, <1>5
<1>10. QED
  BY <1>1, <1>2, <1>3, <1>4, <1>5, <1>8, <1>9, BlockStep

\* A signature on a part.
LEMMA SignatureReads ==
    ASSUME KInv, Ring(packets), ReadSoFar, PartSignature
    PROVE  ReadSoFar'
<1>1. pc \in {"users", "subkeys"} /\ pc \in Building
  BY DEF PartSignature, Building
<1>2. PICK b \in 1..pos : /\ packets[b].tag = keyTag /\ out = Given(packets, Wanted, b - 1)
                          /\ Reading(packets, b, pos, key, pc, cur)
  BY <1>1, InBlock
<1>3. /\ packets \in Seq(Item) /\ pos \in Nat /\ TypeInv /\ keyTag \in Wanted
      /\ \A tags : PeekIn(tags) => pos + 1 <= Len(packets) /\ ~AtEnd
  BY <1>1, InBlock
<1>4. /\ UNCHANGED <<packets, mode, pc, keyTag, cur, inner, out>> /\ pos' = pos + 1
      /\ PeekIn({"Signature"})
  BY DEF PartSignature
<1>5. /\ Peek \in Item /\ Peek.tag = "Signature" /\ Peek = packets[pos + 1] /\ cur \in Container
      /\ key' = AddSignature(key, cur, Peek)
  BY PartSignatureKey DEF Peek
<1>6. Reading(packets, b, pos + 1, AddSignature(key, cur, Peek), pc, cur)
  BY <1>1, <1>2, <1>3, <1>4, <1>5, ReadingSignature
<1>7. Reading(packets, b, pos', key', pc', cur')
  BY <1>4, <1>5, <1>6, Zenon
<1>8. b \in 1..pos' /\ ~AtEnd
  BY <1>3, <1>4
<1>9. QED
  BY <1>1, <1>2, <1>3, <1>4, <1>7, <1>8, BlockStep

\* The loop over the users ends.
LEMMA UsersEndReads ==
    ASSUME KInv, Ring(packets), ReadSoFar, UsersEnd
    PROVE  ReadSoFar'
<1>1. pc = "users" /\ pc \in Building
  BY DEF UsersEnd, Building
<1>2. PICK b \in 1..pos : /\ packets[b].tag = keyTag /\ out = Given(packets, Wanted, b - 1)
                          /\ Reading(packets, b, pos, key, pc, cur)
  BY <1>1, InBlock
<1>3. /\ TypeInv /\ keyTag \in Wanted /\ \A tags : PeekIn(tags) <=> NextIn(packets, pos, tags)
  BY <1>1, InBlock
<1>4. /\ UNCHANGED <<packets, mode, pos, keyTag, key, inner, out>> /\ pc' = "subkeys" /\ cur' = "none"
      /\ ~PeekIn(UserTags) /\ ~(cur # "none" /\ PeekIn({"Signature"}))
  BY DEF UsersEnd
<1>5. Reading(packets, b, pos, key, "subkeys", "none")
  BY <1>1, <1>2, <1>3, <1>4, ReadingSubkeys
<1>6. Reading(packets, b, pos', key', pc', cur') /\ b \in 1..pos' /\ pc' \in Building
  BY <1>4, <1>5 DEF Building
<1>7. QED
  BY <1>2, <1>3, <1>4, <1>6, BlockStep

\* The key is handed out; in a ring no subkey is refused.
LEMMA SubkeysOutReads ==
    ASSUME KInv, Ring(packets), ReadSoFar, SubkeyRejected \/ SubkeysEnd
    PROVE  ReadSoFar'
<1>1. pc = "subkeys" /\ pc \in Building
  BY DEF SubkeyRejected, SubkeysEnd, Building
<1>2. PICK b \in 1..pos : /\ packets[b].tag = keyTag /\ out = Given(packets, Wanted, b - 1)
                          /\ Reading(packets, b, pos, key, pc, cur)
  BY <1>1, InBlock
<1>3. /\ packets \in Seq(Item) /\ pos \in Nat /\ TypeInv /\ keyTag \in Wanted
      /\ \A tags : PeekIn(tags) <=> NextIn(packets, pos, tags)
      /\ \A tags : PeekIn(tags) => pos + 1 <= Len(packets) /\ ~AtEnd
  BY <1>1, InBlock
<1>4. Block(packets, b, pos) /\ key = RawKey(packets, b, pos) /\ b \in Nat
  BY <1>2 DEF Reading
<1>5. CASE SubkeyRejected
  <2>1. PeekIn(SubkeyTagsOf(keyTag)) /\ ~key.primary[1].v4
    BY <1>5 DEF SubkeyRejected
  <2>2. pos + 1 <= Len(packets) /\ packets[pos + 1].tag \in SubkeyTagsOf(keyTag)
    BY <1>3, <2>1 DEF PeekIn, Peek
  <2>3. packets[pos + 1].tag \in SubkeyTags /\ packets[pos + 1].tag \notin PrimaryTags
    BY <2>2 DEF SubkeyTagsOf, SubkeyTags, PrimaryTags
  <2>4. packets[b].v4
    BY <1>3, <1>4, <2>2, <2>3, NextInBlock
  <2>5. key.primary = <<packets[b]>>
    BY <1>4 DEF RawKey
  <2>6. QED
    BY <2>1, <2>4, <2>5
<1>6. CASE SubkeysEnd
  <2>1. /\ UNCHANGED <<packets, mode, inner>> /\ pos' = pos /\ pc' = "idle"
        /\ out' = Append(out, [r |-> "Ok", key |-> NewKey(key), cause |-> <<>>])
        /\ ~PeekIn(SubkeyTagsOf(keyTag)) /\ ~(cur # "none" /\ PeekIn({"Signature"}))
    BY <1>6 DEF SubkeysEnd, LeavesTheNext
  <2>2. ~NextIn(packets, pos, SubkeyTagsOf(packets[b].tag)) /\ ~(cur # "none" /\ NextIn(packets, pos, {"Signature"}))
    BY <1>2, <1>3, <2>1
  <2>3. pos + 1 <= Len(packets) => packets[pos + 1].tag \in PrimaryTags
    BY <1>1, <1>2, <1>3, <2>2, ReadingAll
  <2>4. PICK w : w = Wanted /\ w \subseteq PrimaryTags /\ packets[b].tag \in w
    BY <1>2, <1>3, WantedFacts
  <2>5. Given(packets, w, pos) = Append(Given(packets, w, b - 1), [r |-> "Ok", key |-> NewKey(key), cause |-> <<>>])
    <3>1. PICK s, e, k, c : s = packets /\ e = pos /\ k = key /\ c = cur
      OBVIOUS
    <3>2. /\ Reading(s, b, e, k, "subkeys", c) /\ (e + 1 <= Len(s) => s[e + 1].tag \in PrimaryTags)
          /\ w \subseteq PrimaryTags /\ s[b].tag \in w
      BY <1>1, <1>2, <2>3, <2>4, <3>1, Zenon
    <3>5. s \in Seq(Item)
      BY <1>3, <3>1
    <3>3. Given(s, w, e) = Append(Given(s, w, b - 1), GivenKey(NewKey(k)))
      BY <3>2, <3>5, ReadingDone
    <3>4. QED
      BY <3>1, <3>3, Zenon DEF GivenKey
  <2>6. out' = Given(packets, Wanted, pos)
    BY <1>2, <2>1, <2>4, <2>5
  <2>7. AtEnd \/ PeekIn(PrimaryTags)
    BY <1>3, <2>3, PeekAgain DEF AtEnd, TypeInv
  <2>8. (AtEnd' <=> AtEnd) /\ (PeekIn(PrimaryTags)' <=> PeekIn(PrimaryTags)) /\ Wanted' = Wanted
    BY <2>1, WantedSame DEF AtEnd, PeekIn, Peek
  <2>9. inner \/ AtEnd
    BY DEF ReadSoFar
  <2>10. QED
    BY <2>1, <2>6, <2>7, <2>8, <2>9 DEF ReadSoFar, Building
<1>7. QED
  BY <1>5, <1>6

\* One step of the parser.
LEMMA RingKeeps ==
    ASSUME KInv, RingInv, [Next]_vars, KInv'
    PROVE  RingInv'
<1> SUFFICES ASSUME Ring(packets') PROVE ReadSoFar'
  BY DEF RingInv
<1>1. CASE Reparse
  <2>1. pos' = 0 /\ pc' = "idle" /\ inner' = TRUE /\ out' = <<>>
    BY <1>1 DEF Reparse
  <2>2. packets' \in Seq(Item)
    BY DEF KInv, TypeInv
  <2>3. (packets \in Seq(Item) /\ Ring(packets) /\ pos = 0 /\ pc = "idle" /\ inner = TRUE /\ out = <<>>)'
    BY <2>1, <2>2
  <2>4. (packets \in Seq(Item) /\ Ring(packets) /\ pos = 0 /\ pc = "idle" /\ inner = TRUE /\ out = <<>> => ReadSoFar)'
    BY NothingRead, PTL
  <2>5. QED
    BY <2>3, <2>4
<1>2. CASE UNCHANGED vars
  <2>1. UNCHANGED <<mode, packets, pos, pc, keyTag, key, cur, inner, out>>
    BY <1>2 DEF vars
  <2>2. Wanted' = Wanted /\ ReadSoFar
    BY <2>1, WantedSame DEF RingInv
  <2>3. QED
    BY <2>1, <2>2 DEF ReadSoFar, BlockRead, AtEnd, PeekIn, Peek
<1>3. CASE Next /\ ~Reparse
  <2>1. packets' = packets
    BY <1>3 DEF Next, CallKeyParser, CallPubPriv, SearchSkip, SearchPrimary, SearchErr, SearchEnd,
                PrimarySignature, PrimarySignaturesEnd, User, PartSignature, UsersEnd, Subkey,
                SubkeyRejected, SubkeysEnd
  <2>2. Ring(packets) /\ ReadSoFar
    BY <2>1 DEF RingInv
  <2>3. QED
    BY <1>3, <2>2, CallReads, PubPrivReads, SearchReads, SearchEndReads, StartReads, HeadReads, PartReads,
       SignatureReads, UsersEndReads, SubkeysOutReads DEF Next
<1>4. QED
  BY <1>1, <1>2, <1>3

\* A ring was read completely when the iterator is exhausted.
LEMMA RingFollows == KInv /\ RingInv => KeyRingComplete
<1> SUFFICES ASSUME KInv, RingInv, pc = "exhausted", Len(packets) > 0 => packets[1].tag \in PrimaryTags,
                    \A i \in DOMAIN packets : packets[i].tag \in PrimaryTags => Orderly(packets, i)
             PROVE  out = Select([i \in DOMAIN packets |->
                                    [r |-> "Ok", key |-> KeyAt(packets, i), cause |-> <<>>]],
                                 { i \in DOMAIN packets : packets[i].tag \in Wanted })
  BY DEF KeyRingComplete
<1>1. packets \in Seq(Item) /\ DOMAIN packets = 1..Len(packets)
  BY DEF KInv, TypeInv
<1>2. ReadSoFar
  BY <1>1 DEF RingInv, Ring
<1>3. out = Given(packets, Wanted, pos) /\ pos = Len(packets)
  BY <1>2 DEF ReadSoFar, Building, AtEnd
<1>4. QED
  BY <1>1, <1>3 DEF Given, Found

-----------------------------------------------------------------------------
(* Errors of the packet iterator                                           *)

\* Writers that write the same have written the same.
LEMMA JoinsAgree ==
    ASSUME NEW s, NEW f, NEW a \in Nat, Joins(f, s, a), NEW t, NEW g, NEW b \in Nat, Joins(g, t, b),
           NEW k \in Nat, k <= a, k <= b, \A i \in 1..k : s[i] = t[i]
    PROVE  f[k] = g[k]
<1> DEFINE T == { n \in Nat : n <= k => f[n] = g[n] }
<1>1. 0 \in T
  BY DEF Joins
<1>2. ASSUME NEW n \in Nat, n \in T PROVE n + 1 \in T
  <2> SUFFICES ASSUME n + 1 <= k PROVE f[n + 1] = g[n + 1]
    OBVIOUS
  <2>1. /\ f[n] = g[n] /\ n + 1 \in 0..a /\ n + 1 \in 0..b /\ n + 1 \in 1..k
        /\ n + 1 # 0 /\ (n + 1) - 1 = n
    BY <1>2
  <2>2. f[n + 1] = f[n] \o s[n + 1] /\ g[n + 1] = g[n] \o t[n + 1]
    BY <2>1 DEF Joins
  <2>3. QED
    BY <2>1, <2>2
<1> HIDE DEF T
<1>3. \A n \in Nat : n \in T
  BY <1>1, <1>2, Rounds
<1>4. QED
  BY <1>3 DEF T

\* One sequence more.
LEMMA FlattenAppend ==
    ASSUME NEW S, NEW seqs \in Seq(Seq(S)), NEW q \in Seq(S)
    PROVE  FlattenSeq(Append(seqs, q)) = FlattenSeq(seqs) \o q
<1>1. PICK k \in Nat, t \in Seq(Seq(S)) : k = Len(seqs) /\ t = Append(seqs, q)
  BY Appended
<1>2. Len(t) = k + 1 /\ t[k + 1] = q /\ \A i \in 1..k : seqs[i] = t[i]
  BY <1>1, Appended
<1>3. PICK f : Joins(f, seqs, k) /\ FlattenSeq(seqs) = f[k]
  BY <1>1, FlattenJoins
<1>4. PICK g : Joins(g, t, k + 1) /\ FlattenSeq(t) = g[k + 1]
  BY <1>2, FlattenJoins
<1>5. k + 1 \in Nat /\ k <= k + 1 /\ k <= k /\ k + 1 \in 0..(k + 1) /\ k + 1 # 0 /\ (k + 1) - 1 = k
  OBVIOUS
<1>6. f[k] = g[k]
  BY <1>2, <1>3, <1>4, <1>5, JoinsAgree
<1>7. g[k + 1] = g[k] \o t[k + 1]
  BY <1>4, <1>5 DEF Joins
<1>8. QED
  BY <1>1, <1>2, <1>3, <1>4, <1>6, <1>7

Causes(o) == [i \in DOMAIN o |-> o[i].cause]
Reported(o) == FlattenSeq(Causes(o))
Errs(s, p) == Select(s, { i \in 1..p : s[i].tag = "Err" })

\* What the consumer knows after one result more.
LEMMA ReportedNext ==
    ASSUME NEW o \in Seq(Result), NEW x \in Result
    PROVE  /\ Reported(Append(o, x)) = Reported(o) \o x.cause
           /\ Reported(o) \in Seq(Item)
<1>1. \A i \in 1..Len(o) : o[i].cause \in Seq(Item)
  <2>1. \A y \in Result : y.cause \in Seq(Item)
    BY DEF Result
  <2>2. QED
    BY <2>1, ElementOf
<1>2. PICK q : q = Causes(o)
  OBVIOUS
<1>3. q \in Seq(Seq(Item)) /\ Len(q) = Len(o) /\ \A i \in 1..Len(o) : q[i] = o[i].cause
  BY <1>1, <1>2 DEF Causes
<1>4. x.cause \in Seq(Item)
  BY DEF Result
<1>5. PICK t \in Seq(Result) : t = Append(o, x)
  BY Appended
<1>6. PICK n \in Nat : n = Len(o)
  OBVIOUS
<1>7. Len(t) = n + 1 /\ t[n + 1] = x /\ \A i \in 1..n : t[i] = o[i]
  BY <1>5, <1>6, Appended
<1>8. PICK y \in Seq(Seq(Item)) : y = Append(q, x.cause)
  BY <1>3, <1>4, Appended
<1>9. Len(y) = n + 1 /\ y[n + 1] = x.cause /\ \A i \in 1..n : y[i] = o[i].cause
  BY <1>3, <1>4, <1>6, <1>8, Appended
<1>10. \A i \in 1..(n + 1) : i \in 1..n \/ i = n + 1
  OBVIOUS
<1>11. \A i \in 1..(n + 1) : t[i].cause = y[i]
  BY <1>7, <1>9, <1>10
<1>12. DOMAIN t = 1..(n + 1) /\ DOMAIN y = 1..(n + 1) /\ y = [i \in 1..(n + 1) |-> y[i]]
  BY <1>7, <1>9
<1>13. Causes(t) = y
  BY <1>11, <1>12 DEF Causes
<1>14. FlattenSeq(y) = FlattenSeq(q) \o x.cause
  BY <1>3, <1>4, <1>8, FlattenAppend
<1>15. FlattenSeq(q) \in Seq(Item)
  BY <1>3, FlattenLayout
<1>16. QED
  BY <1>2, <1>5, <1>13, <1>14, <1>15 DEF Reported

\* One packet more.
LEMMA ErrsNext ==
    ASSUME NEW s \in Seq(Item), NEW p \in Nat, p + 1 <= Len(s)
    PROVE  /\ s[p + 1].tag # "Err" => Errs(s, p + 1) = Errs(s, p)
           /\ s[p + 1].tag = "Err" => Errs(s, p + 1) = Append(Errs(s, p), s[p + 1])
<1>1. PICK n \in 1..Len(s) : n = p + 1
  OBVIOUS
<1>2. PICK P, R : P = { i \in 1..p : s[i].tag = "Err" } /\ R = { i \in 1..(p + 1) : s[i].tag = "Err" }
  OBVIOUS
<1>3. \A i \in Nat : (i \in 1..(p + 1) <=> i \in 1..p \/ i = p + 1) /\ (i \in 1..p => i < p + 1)
  OBVIOUS
<1>4. \A i \in 1..Len(s) : /\ i \in R <=> i \in P \/ (i = n /\ s[n].tag = "Err")
                           /\ i \in P => i < n
  BY <1>1, <1>2, <1>3
<1>5. ASSUME s[n].tag # "Err" PROVE Select(s, R) = Select(s, P)
  <2>1. \A i \in 1..Len(s) : (i \in R <=> i \in P) /\ (i \in R => s[i] = s[i])
    BY <1>4, <1>5
  <2>2. QED
    BY <2>1, SelectAgree
<1>6. ASSUME s[n].tag = "Err" PROVE Select(s, R) = Append(Select(s, P), s[n])
  <2>1. \A i \in 1..Len(s) : (i \in R <=> i \in P \/ i = n) /\ (i \in P => i < n)
    BY <1>4, <1>6
  <2>2. QED
    BY <2>1, SelectNext
<1>7. QED
  BY <1>1, <1>2, <1>5, <1>6 DEF Errs

\* Nothing was reported before anything was read.
LEMMA NoErrs ==
    ASSUME NEW s \in Seq(Item)
    PROVE  Errs(s, 0) = <<>> /\ Reported(<<>>) = <<>>
<1>1. \A P : (\A i \in 1..Len(s) : i \notin P) => Select(s, P) = <<>>
  BY SelectNothing
<1>2. \A i \in 1..Len(s) : i \notin { j \in 1..0 : s[j].tag = "Err" }
  OBVIOUS
<1>3. Causes(<<>>) = <<>>
  BY DEF Causes
<1>4. FlattenSeq(<<>>) = <<>>
  BY DEF FlattenSeq
<1>5. QED
  BY <1>1, <1>2, <1>3, <1>4 DEF Errs, Reported

\* The errors that were passed were handed on, each once and in order.
ErrsOut ==
    mode # "PubPrivIterator" =>
       /\ Reported(out) = Errs(packets, pos)
       /\ pc = "exhausted" => AtEnd

\* A packet that is no error is taken, and nothing or no error is reported.
LEMMA ErrsPassed ==
    ASSUME TypeInv, ErrsOut, NEW tags, PeekIn(tags), "Err" \notin tags, pos' = pos + 1,
           UNCHANGED <<packets, mode>>, out' = out \/ GiveErr(<<>>), pc' # "exhausted"
    PROVE  ErrsOut'
<1> SUFFICES ASSUME mode # "PubPrivIterator" PROVE Reported(out') = Errs(packets', pos')
  BY DEF ErrsOut
<1>1. packets \in Seq(Item) /\ pos \in Nat /\ out \in Seq(Result) /\ pos + 1 <= Len(packets)
  BY PeekFacts DEF TypeInv
<1>2. packets[pos + 1].tag # "Err"
  BY DEF PeekIn, Peek
<1>3. Errs(packets, pos + 1) = Errs(packets, pos)
  BY <1>1, <1>2, ErrsNext
<1>4. Reported(out) = Errs(packets, pos)
  BY DEF ErrsOut
<1>5. Reported(out') = Reported(out)
  <2>1. CASE GiveErr(<<>>)
    <3>1. PICK x : x = [r |-> "Err", key |-> NoKey, cause |-> <<>>]
      OBVIOUS
    <3>2. x \in Result /\ x.cause = <<>> /\ out' = Append(out, x)
      BY <2>1, <3>1, NoKeyType DEF GiveErr, Result
    <3>3. Reported(Append(out, x)) = Reported(out) \o x.cause /\ Reported(out) \in Seq(Item)
      BY <1>1, <3>2, ReportedNext
    <3>4. \A y \in Seq(Item) : y \o <<>> = y
      OBVIOUS
    <3>5. QED
      BY <3>2, <3>3, <3>4
  <2>2. QED
    BY <2>1
<1>6. QED
  BY <1>3, <1>4, <1>5

\* One step of a key parser.
LEMMA ErrsKeep ==
    ASSUME KInv, ErrsOut, Next, KInv'
    PROVE  ErrsOut'
<1>1. TypeInv /\ packets \in Seq(Item) /\ pos \in Nat /\ out \in Seq(Result) /\ keyTag \in PrimaryTags
  BY DEF KInv, TypeInv
<1>2. CASE CallPubPriv
  BY <1>2 DEF CallPubPriv, ErrsOut
<1>3. CASE CallKeyParser \/ PrimarySignaturesEnd \/ UsersEnd
  <2>1. UNCHANGED <<packets, pos, mode, out>> /\ pc' # "exhausted"
    BY <1>3 DEF CallKeyParser, Begin, PrimarySignaturesEnd, UsersEnd
  <2>2. QED
    BY <2>1 DEF ErrsOut
<1>4. CASE SearchEnd
  <2>1. UNCHANGED <<packets, pos, mode, out>> /\ AtEnd /\ AtEnd'
    BY <1>4 DEF SearchEnd, AtEnd
  <2>2. QED
    BY <2>1 DEF ErrsOut
<1>5. CASE SearchSkip
  <2>1. /\ PeekIn(ItemTag \ {keyTag, "Err"}) /\ pos' = pos + 1 /\ UNCHANGED <<packets, mode>> /\ out' = out
        /\ pc' # "exhausted"
    BY <1>5 DEF SearchSkip
  <2>2. QED
    BY <1>1, <2>1, ErrsPassed
<1>6. CASE SearchPrimary
  <2>1. /\ PeekIn({keyTag}) /\ pos' = pos + 1 /\ UNCHANGED <<packets, mode>> /\ out' = out
        /\ pc' # "exhausted" /\ "Err" \notin {keyTag}
    BY <1>1, <1>6 DEF SearchPrimary, PrimaryTags
  <2>2. QED
    BY <1>1, <2>1, ErrsPassed
<1>7. CASE PrimarySignature \/ PartSignature
  <2>1. /\ PeekIn({"Signature"}) /\ pos' = pos + 1 /\ UNCHANGED <<packets, mode>> /\ out' = out
        /\ pc' # "exhausted" /\ "Err" \notin {"Signature"}
    BY <1>7 DEF PrimarySignature, PartSignature
  <2>2. QED
    BY <1>1, <2>1, ErrsPassed
<1>8. CASE User
  <2>1. /\ PeekIn(UserTags) /\ pos' = pos + 1 /\ UNCHANGED <<packets, mode>> /\ out' = out
        /\ pc' # "exhausted" /\ "Err" \notin UserTags
    BY <1>8 DEF User, TakePart, UserTags
  <2>2. QED
    BY <1>1, <2>1, ErrsPassed
<1>9. CASE Subkey \/ SubkeyRejected
  <2>1. /\ PeekIn(SubkeyTagsOf(keyTag)) /\ pos' = pos + 1 /\ UNCHANGED <<packets, mode>>
        /\ (out' = out \/ GiveErr(<<>>)) /\ pc' # "exhausted" /\ "Err" \notin SubkeyTagsOf(keyTag)
    BY <1>9 DEF Subkey, SubkeyRejected, TakePart, SubkeyTagsOf, SubkeyTags
  <2>2. QED
    BY <1>1, <2>1, ErrsPassed
<1>10. CASE SubkeysEnd
  <2>1. PICK x : x = [r |-> "Ok", key |-> NewKey(key), cause |-> <<>>]
    OBVIOUS
  <2>2. key \in Key /\ NewKey(key) \in Key
    BY <1>1, NewKeyFacts DEF TypeInv
  <2>3. x \in Result /\ x.cause = <<>>
    BY <2>1, <2>2 DEF Result
  <2>4. out' = Append(out, x) /\ pos' = pos /\ UNCHANGED <<packets, mode>> /\ pc' # "exhausted"
    BY <1>10, <2>1 DEF SubkeysEnd, LeavesTheNext
  <2>5. Reported(Append(out, x)) = Reported(out) \o x.cause /\ Reported(out) \in Seq(Item)
    BY <1>1, <2>3, ReportedNext
  <2>6. \A y \in Seq(Item) : y \o <<>> = y
    OBVIOUS
  <2>7. QED
    BY <2>3, <2>4, <2>5, <2>6 DEF ErrsOut
<1>11. CASE SearchErr
  <2>1. /\ PeekIn({"Err"}) /\ pos' = pos + 1 /\ UNCHANGED <<packets, mode>> /\ GiveErr(<<Peek>>)
        /\ pc' # "exhausted"
    BY <1>11 DEF SearchErr
  <2>2. /\ Peek \in Item /\ Peek = packets[pos + 1] /\ packets[pos + 1].tag = "Err"
        /\ pos + 1 <= Len(packets)
    BY <1>1, <2>1, PeekFacts
  <2>3. PICK x : x = [r |-> "Err", key |-> NoKey, cause |-> <<Peek>>]
    OBVIOUS
  <2>4. x \in Result /\ x.cause = <<Peek>> /\ out' = Append(out, x)
    BY <2>1, <2>2, <2>3, NoKeyType DEF GiveErr, Result
  <2>5. Reported(Append(out, x)) = Reported(out) \o x.cause /\ Reported(out) \in Seq(Item)
    BY <1>1, <2>4, ReportedNext
  <2>6. \A y \in Seq(Item) : \A g \in Item : y \o <<g>> = Append(y, g)
    OBVIOUS
  <2>7. Errs(packets, pos + 1) = Append(Errs(packets, pos), Peek)
    BY <1>1, <2>2, ErrsNext
  <2>8. QED
    BY <2>1, <2>2, <2>4, <2>5, <2>6, <2>7 DEF ErrsOut
<1>12. CASE Reparse
  <2>1. pos' = 0 /\ out' = <<>> /\ pc' = "idle"
    BY <1>12 DEF Reparse
  <2>2. packets' \in Seq(Item)
    BY DEF KInv, TypeInv
  <2>3. Errs(packets', 0) = <<>> /\ Reported(<<>>) = <<>>
    BY <2>2, NoErrs
  <2>4. QED
    BY <2>1, <2>3 DEF ErrsOut
<1>13. QED
  BY <1>2, <1>3, <1>4, <1>5, <1>6, <1>7, <1>8, <1>9, <1>10, <1>11, <1>12 DEF Next

\* Every error was handed on when the iterator is exhausted.
LEMMA ErrsFollow == KInv /\ ErrsOut => ErrorsReported
<1> SUFFICES ASSUME KInv, ErrsOut, pc = "exhausted", mode # "PubPrivIterator"
             PROVE  FlattenSeq([i \in DOMAIN out |-> out[i].cause])
                       = Select(packets, { i \in DOMAIN packets : packets[i].tag = "Err" })
  BY DEF ErrorsReported
<1>1. Reported(out) = Errs(packets, pos) /\ pos = Len(packets)
  BY DEF ErrsOut, AtEnd
<1>2. DOMAIN packets = 1..Len(packets)
  BY DEF KInv, TypeInv
<1>3. QED
  BY <1>1, <1>2 DEF Reported, Causes, Errs

\* The invariant of a ring that is read: the keys and the errors so far.
CompleteInv == KInv /\ RingInv /\ ErrsOut

\* CompleteInv is inductive: the key under construction is the reference's key,
\* read as far as the parser stands, and all keys and errors before it were
\* handed out (the loops of key_parser_macros.rs and PubPrivIterator::next).
THEOREM CompleteInvHolds == Spec => []CompleteInv
<1>1. Init => CompleteInv
  <2> SUFFICES ASSUME Init PROVE CompleteInv
    OBVIOUS
  <2>1. KInv
    BY InitKeeps
  <2>2. packets \in Seq(Item) /\ pos = 0 /\ pc = "idle" /\ inner = TRUE /\ out = <<>>
    BY <2>1 DEF Init, KInv, TypeInv
  <2>3. RingInv
    BY <2>2, NothingRead DEF RingInv
  <2>4. ErrsOut
    BY <2>2, NoErrs DEF ErrsOut
  <2>5. QED
    BY <2>1, <2>3, <2>4 DEF CompleteInv
<1>2. KInv' /\ CompleteInv /\ [Next]_vars => CompleteInv'
  <2> SUFFICES ASSUME KInv', CompleteInv, [Next]_vars PROVE CompleteInv'
    OBVIOUS
  <2>1. RingInv'
    BY RingKeeps DEF CompleteInv
  <2>2. ErrsOut'
    <3>1. CASE UNCHANGED vars
      BY <3>1 DEF CompleteInv, vars, ErrsOut, AtEnd
    <3>2. CASE Next
      BY <3>2, ErrsKeep DEF CompleteInv
    <3>3. QED
      BY <3>1, <3>2
  <2>3. QED
    BY <2>1, <2>2 DEF CompleteInv
<1>3. QED
  BY <1>1, <1>2, KInvHolds, PTL DEF Spec

\* RingComplete: a ring of orderly keys is read to its end, every wanted key
\* with all its signed parts, and every error of the packet iterator is handed
\* on once (key_parser_macros.rs, PubPrivIterator::next of parse.rs).
THEOREM RingCompleteHolds == Spec => []RingComplete
<1>1. CompleteInv => RingComplete
  BY RingFollows, ErrsFollow DEF CompleteInv, RingComplete
<1>2. QED
  BY <1>1, CompleteInvHolds, PTL

=============================================================================
