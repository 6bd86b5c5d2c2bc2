-------------------------- MODULE LineWriterProofs --------------------------
(***************************************************************************)
(* Proofs about LineWriter, for every line length and every sequence of    *)
(* writes and failures: the buffer is exact, nothing accepted is lost, and *)
(* the writer implements LineWrap.                                         *)
(***************************************************************************)
EXTENDS LineWriter, SequenceTheorems, TLAPS

\* The octets that are not in extra have been written, and a line that is
\* complete is closed.
Written ==
    /\ \A o \in 1..(accepted - extra_len) : \E p \in 1..Len(sink) : sink[p] = o
    /\ extra_len = 0 /\ accepted > 0 => Len(sink) > 0 /\ sink[Len(sink)] = 0

\* A finished writer holds nothing, and one that is dropped was finished or
\* has failed to.
Ended ==
    /\ extra_len <= accepted
    /\ finished => extra_len = 0
    /\ dropped => finished \/ panicked

IInv == TypeOK /\ ExtraExact /\ Written /\ Ended

\* The first q lines, as LineWrap writes them.
Lines(q) ==
    [p \in 1..(q * (N + 1)) |-> IF p % (N + 1) = 0 THEN 0 ELSE p - (p \div (N + 1))]

\* Until finish() fails between its writes, the text is a number of whole
\* lines and the rest is in extra.
WholeLines ==
    ~finished => \E q \in Nat : accepted = q * N + extra_len /\ (torn = 0 => sink = Lines(q))

-----------------------------------------------------------------------------

\* A piece written behind the text adds its octets and takes none away.
LEMMA Behind ==
    ASSUME NEW s \in Seq(Nat), NEW t \in Seq(Nat)
    PROVE  /\ s \o t \in Seq(Nat)
           /\ Len(s \o t) = Len(s) + Len(t)
           /\ \A p \in 1..Len(s) : (s \o t)[p] = s[p]
           /\ \A p \in 1..Len(t) : (s \o t)[Len(s) + p] = t[p]
<1>1. Len(s) \in Nat /\ Len(t) \in Nat
  BY LenProperties
<1>2. QED
  BY <1>1, ConcatProperties

\* The same with a break behind the piece.
LEMMA BehindBreak ==
    ASSUME NEW s \in Seq(Nat), NEW t \in Seq(Nat)
    PROVE  /\ s \o Terminated(t) \in Seq(Nat)
           /\ Len(s \o Terminated(t)) = Len(s) + Len(t) + 1
           /\ \A p \in 1..Len(s) : (s \o Terminated(t))[p] = s[p]
           /\ \A p \in 1..Len(t) : (s \o Terminated(t))[Len(s) + p] = t[p]
           /\ (s \o Terminated(t))[Len(s) + Len(t) + 1] = 0
<1> DEFINE tb == t \o Break
           all == s \o tb
<1>1. Len(s) \in Nat /\ Len(t) \in Nat
  BY LenProperties
<1>2. Break \in Seq(Nat) /\ Len(Break) = 1 /\ Break[1] = 0
  BY DEF Break
<1>3. /\ tb \in Seq(Nat) /\ Len(tb) = Len(t) + Len(Break)
      /\ \A p \in 1..Len(t) : tb[p] = t[p]
      /\ \A p \in 1..Len(Break) : tb[Len(t) + p] = Break[p]
  BY <1>2, Behind
<1> HIDE DEF tb
<1>4. /\ all \in Seq(Nat) /\ Len(all) = Len(s) + Len(tb)
      /\ \A p \in 1..Len(s) : all[p] = s[p]
      /\ \A p \in 1..Len(tb) : all[Len(s) + p] = tb[p]
  BY <1>2, <1>3, Behind
<1> HIDE DEF all
<1>5. \A p \in 1..Len(s) : all[p] = s[p]
  BY <1>4
<1>6. \A p \in 1..Len(t) : all[Len(s) + p] = t[p]
  BY <1>1, <1>2, <1>3, <1>4
<1>7. all[Len(s) + Len(t) + 1] = 0
  <2>1. Len(t) + 1 \in 1..Len(tb) /\ Len(s) + (Len(t) + 1) = Len(s) + Len(t) + 1
    BY <1>1, <1>2, <1>3
  <2>2. tb[Len(t) + 1] = 0
    BY <1>2, <1>3
  <2>3. QED
    BY <2>1, <2>2, <1>4
<1>8. all \in Seq(Nat) /\ Len(all) = Len(s) + Len(t) + 1
  BY <1>1, <1>2, <1>3, <1>4
<1>9. QED
  BY <1>5, <1>6, <1>7, <1>8 DEF all, tb, Terminated

\* What write() and finish() hand to the wrapped writer are octets.
LEMMA PiecesType ==
    ASSUME TypeOK
    PROVE  /\ Extra \in Seq(Nat) /\ Len(Extra) = extra_len
           /\ Input(Missing) \in Seq(Nat) /\ Len(Input(Missing)) = Missing
           /\ Line \in Seq(Nat) /\ Len(Line) = N
           /\ Break \in Seq(Nat) /\ Len(Break) = 1 /\ Break[1] = 0
<1>1. extra_len \in Nat /\ N \in Nat /\ Missing \in Nat /\ accepted \in Nat /\ extra_len + Missing = N
  BY NAssumption DEF TypeOK, Missing
<1>2. Extra \in Seq(Nat) /\ Len(Extra) = extra_len
  <2>1. \A i \in 1..extra_len : extra[i] \in Nat
    BY <1>1, NAssumption DEF TypeOK
  <2>2. QED
    BY <1>1, <2>1 DEF Extra
<1>3. Input(Missing) \in Seq(Nat) /\ Len(Input(Missing)) = Missing
  BY <1>1 DEF Input
<1>4. Line \in Seq(Nat) /\ Len(Line) = N
  BY <1>1, <1>2, <1>3, ConcatProperties DEF Line
<1>5. QED
  BY <1>2, <1>3, <1>4 DEF Break

\* The line that write() completes is the next N octets.
LEMMA LineExact ==
    ASSUME TypeOK, ExtraExact, ~finished
    PROVE  \A i \in 1..N : Line[i] = accepted - extra_len + i
<1>1. /\ extra_len \in 0..(N - 1) /\ N \in Nat /\ accepted \in Nat
      /\ Extra \in Seq(Nat) /\ Len(Extra) = extra_len
      /\ Input(Missing) \in Seq(Nat) /\ Len(Input(Missing)) = N - extra_len
  BY PiecesType, NAssumption DEF TypeOK, Missing
<1>2. ASSUME NEW i \in 1..N
      PROVE  Line[i] = accepted - extra_len + i
  <2>1. Line[i] = IF i <= extra_len THEN Extra[i] ELSE Input(Missing)[i - extra_len]
    BY <1>1, ConcatProperties DEF Line
  <2>2. CASE i <= extra_len
    BY <1>1, <2>1, <2>2 DEF Extra, ExtraExact
  <2>3. CASE i > extra_len
    BY <1>1, <2>1, <2>3 DEF Input, Missing
  <2>4. QED
    BY <1>1, <2>2, <2>3
<1>3. QED
  BY <1>2

\* The end of what finish() writes is the rest of the octets.
LEMMA ExtraIsRest ==
    ASSUME TypeOK, ExtraExact, ~finished
    PROVE  \A i \in 1..extra_len : Extra[i] = accepted - extra_len + i
BY NAssumption DEF TypeOK, ExtraExact, Extra

-----------------------------------------------------------------------------
(* The buffer, and nothing lost.                                           *)

\* An input that fits is copied behind the rest.
LEMMA WriteBuffersKeeps ==
    ASSUME IInv, WriteBuffers
    PROVE  IInv'
<1>1. PICK n \in 1..MaxInput : Fits(n) /\ extra' = Copied(n)
                               /\ extra_len' = extra_len + n /\ accepted' = accepted + n
  BY DEF WriteBuffers
<1>2. /\ result' = "Ok" /\ finished = FALSE /\ dropped = FALSE
      /\ UNCHANGED <<finished, panicked, sink, torn, dropped>>
  BY DEF WriteBuffers, IInv, TypeOK
<1>3. n \in Nat \ {0} /\ N \in Nat /\ extra_len \in 0..(N - 1) /\ accepted \in Nat /\ extra_len + n < N
  BY <1>1, NAssumption, BoundsAssumption DEF IInv, TypeOK, Fits
<1>4. /\ extra' \in [1..N -> Nat]
      /\ \A i \in 1..extra_len : extra'[i] = extra[i]
      /\ \A i \in (extra_len + 1)..(extra_len + n) : extra'[i] = accepted + i - extra_len
  BY <1>1, <1>3 DEF Copied, Input, IInv, TypeOK
<1>5. TypeOK'
  BY <1>1, <1>2, <1>3, <1>4 DEF IInv, TypeOK
<1>6. ExtraExact'
  BY <1>1, <1>2, <1>3, <1>4 DEF IInv, ExtraExact
<1>7. Written'
  <2>1. accepted' - extra_len' = accepted - extra_len /\ extra_len' # 0
    BY <1>1, <1>3
  <2>2. QED
    BY <2>1, <1>2 DEF IInv, Written
<1>8. Ended'
  BY <1>1, <1>2, <1>3 DEF IInv, Ended
<1>9. QED
  BY <1>5, <1>6, <1>7, <1>8 DEF IInv

\* A complete line goes to the wrapped writer.
LEMMA WriteLineKeeps ==
    ASSUME IInv, WriteLine
    PROVE  IInv'
<1>0. sink' = sink \o Terminated(Line)
  BY DEF WriteLine
<1>1. /\ extra_len' = 0 /\ accepted' = accepted + Missing /\ result' = "Ok"
      /\ panicked' = FALSE /\ finished = FALSE /\ dropped = FALSE
      /\ UNCHANGED <<extra, finished, torn, dropped>>
  BY DEF WriteLine, IInv, TypeOK
<1>2. /\ N \in Nat \ {0} /\ extra_len \in 0..(N - 1) /\ accepted \in Nat /\ extra_len <= accepted
      /\ Missing = N - extra_len /\ sink \in Seq(Nat) /\ Len(sink) \in Nat
  BY NAssumption, LenProperties DEF IInv, TypeOK, Ended, Missing
<1>3. /\ Line \in Seq(Nat) /\ Len(Line) = N
      /\ Break \in Seq(Nat) /\ Len(Break) = 1 /\ Break[1] = 0
      /\ \A i \in 1..N : Line[i] = accepted - extra_len + i
  BY <1>1, PiecesType, LineExact DEF IInv
<1>4. /\ sink' \in Seq(Nat) /\ Len(sink') = Len(sink) + Len(Line) + 1
      /\ \A p \in 1..Len(sink) : sink'[p] = sink[p]
      /\ \A p \in 1..Len(Line) : sink'[Len(sink) + p] = Line[p]
      /\ sink'[Len(sink) + Len(Line) + 1] = 0
  BY <1>0, <1>2, <1>3, BehindBreak
<1>5. /\ sink' \in Seq(Nat) /\ Len(sink') = Len(sink) + N + 1
      /\ \A p \in 1..N : sink'[Len(sink) + p] = accepted - extra_len + p
      /\ sink'[Len(sink) + N + 1] = 0
  BY <1>3, <1>4
<1>6. TypeOK'
  <2>1. extra_len' \in 0..(N - 1) /\ accepted' \in Nat
    BY <1>1, <1>2
  <2>2. sink' \in Seq(Nat)
    BY <1>5
  <2>3. QED
    BY <2>1, <2>2, <1>1 DEF IInv, TypeOK
<1>7. ExtraExact'
  BY <1>1 DEF ExtraExact
<1>8. Written'
  <2>1. ASSUME NEW o \in 1..(accepted - extra_len)
        PROVE  \E p \in 1..Len(sink') : sink'[p] = o
    <3>1. PICK p \in 1..Len(sink) : sink[p] = o
      BY <2>1 DEF IInv, Written
    <3>2. p \in 1..Len(sink') /\ sink'[p] = o
      BY <3>1, <1>2, <1>4, <1>5
    <3>3. QED
      BY <3>2
  <2>2. ASSUME NEW o \in (accepted - extra_len + 1)..(accepted - extra_len + N)
        PROVE  \E p \in 1..Len(sink') : sink'[p] = o
    <3> DEFINE i == o - (accepted - extra_len)
    <3>1. i \in 1..N /\ accepted - extra_len + i = o
      BY <1>2
    <3> HIDE DEF i
    <3>2. Len(sink) + i \in 1..Len(sink')
      BY <3>1, <1>2, <1>5
    <3>3. sink'[Len(sink) + i] = accepted - extra_len + i
      BY <3>1, <1>5
    <3>4. QED
      BY <3>1, <3>2, <3>3
  <2>3. accepted' - extra_len' = accepted - extra_len + N
    BY <1>1, <1>2
  <2>4. \A o \in 1..(accepted' - extra_len') : \E p \in 1..Len(sink') : sink'[p] = o
    BY <2>1, <2>2, <2>3, <1>2
  <2>5. Len(sink') > 0 /\ sink'[Len(sink')] = 0
    BY <1>2, <1>5
  <2>6. QED
    BY <2>4, <2>5 DEF Written
<1>9. Ended'
  BY <1>1, <1>2 DEF IInv, Ended
<1>10. QED
  BY <1>6, <1>7, <1>8, <1>9 DEF IInv

\* A write that failed, or that came too late, changes nothing.
LEMMA RefusedKeeps ==
    ASSUME IInv, WriteLineFails \/ WriteAfterFinish
    PROVE  IInv'
<1>1. /\ UNCHANGED <<extra, extra_len, finished, sink, accepted, torn, dropped>>
      /\ result' \in {"Ok", "Err", "panic"} /\ panicked' \in BOOLEAN
      /\ dropped = FALSE
  BY DEF WriteLineFails, WriteAfterFinish, IInv, TypeOK
<1>2. TypeOK'
  BY <1>1 DEF IInv, TypeOK
<1>3. ExtraExact' /\ Written' /\ Ended'
  BY <1>1 DEF IInv, ExtraExact, Written, Ended
<1>4. QED
  BY <1>2, <1>3 DEF IInv

\* finish() writes the rest and closes the last line, if there is a rest.
LEMMA FinishWrites ==
    ASSUME IInv, ~finished, Finish, UNCHANGED accepted
    PROVE  sink' \in Seq(Nat) /\ Written'
<1>1. extra_len' = 0 /\ accepted' = accepted /\ sink \in Seq(Nat) /\ Len(sink) \in Nat
      /\ N \in Nat /\ extra_len \in 0..(N - 1) /\ accepted \in Nat /\ extra_len <= accepted
  BY NAssumption, LenProperties DEF Finish, IInv, TypeOK, Ended
<1>2. CASE extra_len = 0
  <2>1. sink' = sink
    BY <1>2 DEF Finish
  <2>2. QED
    BY <1>1, <1>2, <2>1 DEF IInv, Written
<1>3. CASE extra_len > 0
  <2>1. /\ Extra \in Seq(Nat) /\ Len(Extra) = extra_len
        /\ \A i \in 1..extra_len : Extra[i] = accepted - extra_len + i
    BY PiecesType, ExtraIsRest DEF IInv
  <2>2. sink' = sink \o Terminated(Extra)
    BY <1>1, <1>3 DEF Finish, FinalWrites
  <2>3. /\ sink' \in Seq(Nat) /\ Len(sink') = Len(sink) + Len(Extra) + 1
        /\ \A p \in 1..Len(sink) : sink'[p] = sink[p]
        /\ \A p \in 1..Len(Extra) : sink'[Len(sink) + p] = Extra[p]
        /\ sink'[Len(sink) + Len(Extra) + 1] = 0
    BY <2>1, <2>2, <1>1, BehindBreak
  <2>4. /\ sink' \in Seq(Nat) /\ Len(sink') = Len(sink) + extra_len + 1
        /\ \A p \in 1..extra_len : sink'[Len(sink) + p] = accepted - extra_len + p
        /\ sink'[Len(sink) + extra_len + 1] = 0
    BY <2>1, <2>3
  <2>5. ASSUME NEW o \in 1..(accepted - extra_len)
        PROVE  \E p \in 1..Len(sink') : sink'[p] = o
    <3>1. PICK p \in 1..Len(sink) : sink[p] = o
      BY <2>5 DEF IInv, Written
    <3>2. p \in 1..Len(sink') /\ sink'[p] = o
      BY <3>1, <1>1, <2>3, <2>4
    <3>3. QED
      BY <3>2
  <2>6. ASSUME NEW o \in (accepted - extra_len + 1)..accepted
        PROVE  \E p \in 1..Len(sink') : sink'[p] = o
    <3> DEFINE i == o - (accepted - extra_len)
    <3>1. i \in 1..extra_len /\ accepted - extra_len + i = o
      BY <1>1
    <3> HIDE DEF i
    <3>2. Len(sink) + i \in 1..Len(sink')
      BY <3>1, <1>1, <2>4
    <3>3. sink'[Len(sink) + i] = accepted - extra_len + i
      BY <3>1, <2>4
    <3>4. QED
      BY <3>1, <3>2, <3>3
  <2>7. \A o \in 1..(accepted' - extra_len') : \E p \in 1..Len(sink') : sink'[p] = o
    BY <2>5, <2>6, <1>1
  <2>8. Len(sink') > 0 /\ sink'[Len(sink')] = 0
    BY <1>1, <2>4
  <2>9. QED
    BY <2>4, <2>7, <2>8 DEF Written
<1>4. QED
  BY <1>1, <1>2, <1>3

\* finish() that fails leaves the rest where it is; what it wrote before
\* stays written.
LEMMA FinishBreaksWrites ==
    ASSUME IInv, FinishBreaks, UNCHANGED accepted
    PROVE  sink' \in Seq(Nat) /\ Written'
<1>1. extra_len' = extra_len /\ extra_len > 0 /\ accepted' = accepted
      /\ sink \in Seq(Nat) /\ Len(sink) \in Nat
  BY LenProperties DEF FinishBreaks, IInv, TypeOK
<1>2. sink' \in Seq(Nat) /\ Len(sink') \in Nat /\ Len(sink') >= Len(sink)
      /\ \A p \in 1..Len(sink) : sink'[p] = sink[p]
  <2>1. CASE sink' = sink
    BY <2>1, <1>1
  <2>2. CASE sink' = sink \o Extra
    <3>1. Extra \in Seq(Nat) /\ Len(Extra) \in Nat
      BY PiecesType, LenProperties DEF IInv
    <3>2. QED
      BY <3>1, <2>2, <1>1, Behind
  <2>3. QED
    BY <2>1, <2>2 DEF FinishBreaks
<1>3. ASSUME NEW o \in 1..(accepted - extra_len)
      PROVE  \E p \in 1..Len(sink') : sink'[p] = o
  <2>1. PICK p \in 1..Len(sink) : sink[p] = o
    BY <1>3 DEF IInv, Written
  <2>2. p \in 1..Len(sink') /\ sink'[p] = o
    BY <2>1, <1>1, <1>2
  <2>3. QED
    BY <2>2
<1>4. Written'
  BY <1>1, <1>3 DEF Written
<1>5. QED
  BY <1>2, <1>4

\* finish() and drop(), whether the wrapped writer fails or not.
LEMMA FinishKeeps ==
    ASSUME IInv, FinishOk \/ FinishFails \/ Drop
    PROVE  IInv'
<1>1. /\ UNCHANGED <<extra, accepted>> /\ dropped' \in BOOLEAN
      /\ result' \in {"Ok", "Err", "panic"} /\ dropped = FALSE
  BY DEF FinishOk, FinishFails, Drop, IInv, TypeOK
<1>2. CASE UNCHANGED <<sink, panicked, extra_len, finished, torn>>
           /\ (dropped' => finished \/ panicked)
  <2>1. TypeOK'
    BY <1>1, <1>2 DEF IInv, TypeOK
  <2>2. ExtraExact' /\ Written' /\ Ended'
    BY <1>1, <1>2 DEF IInv, ExtraExact, Written, Ended
  <2>3. QED
    BY <2>1, <2>2 DEF IInv
<1>3. CASE ~finished /\ Finish
  <2>1. sink' \in Seq(Nat) /\ Written'
    BY <1>1, <1>3, FinishWrites
  <2>2. extra_len' = 0 /\ finished' = TRUE /\ panicked' \in BOOLEAN /\ torn' = torn
    BY <1>3 DEF Finish, IInv, TypeOK
  <2>3. 0 \in 0..(N - 1) /\ accepted \in Nat
    BY NAssumption DEF IInv, TypeOK
  <2>4. TypeOK'
    BY <1>1, <2>1, <2>2, <2>3 DEF IInv, TypeOK
  <2>5. ExtraExact' /\ Ended'
    BY <1>1, <2>2, <2>3 DEF ExtraExact, Ended
  <2>6. QED
    BY <2>1, <2>4, <2>5 DEF IInv
<1>4. CASE FinishBreaks
  <2>1. sink' \in Seq(Nat) /\ Written'
    BY <1>1, <1>4, FinishBreaksWrites
  <2>2. UNCHANGED <<extra_len, finished>> /\ panicked' = TRUE /\ torn' \in Nat
    BY <1>4 DEF FinishBreaks, IInv, TypeOK
  <2>3. TypeOK'
    BY <1>1, <2>1, <2>2 DEF IInv, TypeOK
  <2>4. ExtraExact' /\ Ended'
    BY <1>1, <2>2 DEF IInv, ExtraExact, Ended
  <2>5. QED
    BY <2>1, <2>3, <2>4 DEF IInv
<1>5. QED
  <2>1. CASE FinishOk
    BY <2>1, <1>2, <1>3, <1>1 DEF FinishOk
  <2>2. CASE FinishFails
    BY <2>2, <1>4 DEF FinishFails
  <2>3. CASE Drop
    BY <2>3, <1>2, <1>3, <1>4 DEF Drop, DropFinishes
  <2>4. QED
    BY <2>1, <2>2, <2>3

\* Every step of the writer keeps the buffer exact and loses nothing.
LEMMA IInvInductive ==
    Spec => []IInv
<1>1. Init => IInv
  <2> SUFFICES ASSUME Init PROVE IInv
    OBVIOUS
  <2>2. N \in Nat \ {0} /\ [i \in 1..N |-> 0] \in [1..N -> Nat] /\ 0 \in 0..(N - 1)
    BY NAssumption
  <2>3. TypeOK
    <3>1. extra \in [1..N -> Nat] /\ extra_len \in 0..(N - 1)
      BY <2>2 DEF Init
    <3>2. sink \in Seq(Nat)
      BY DEF Init
    <3>3. QED
      BY <3>1, <3>2 DEF Init, TypeOK
  <2>4. ExtraExact /\ Written /\ Ended
    BY DEF Init, ExtraExact, Written, Ended
  <2>5. QED
    BY <2>3, <2>4 DEF IInv
<1>2. IInv /\ [Next]_vars => IInv'
  <2> SUFFICES ASSUME IInv, [Next]_vars PROVE IInv'
    OBVIOUS
  <2>2. CASE UNCHANGED vars
    BY <2>2 DEF IInv, TypeOK, ExtraExact, Written, Ended, vars
  <2>3. CASE Next
    BY <2>3, WriteBuffersKeeps, WriteLineKeeps, RefusedKeeps, FinishKeeps DEF Next
  <2>4. QED
    BY <2>2, <2>3
<1>3. QED
  BY <1>1, <1>2, PTL DEF Spec

\* write() keeps extra and extra_len in bounds and exact, for every line
\* length and every way the writes are split, fail and are repeated.
THEOREM BufferExactHolds == Spec => []BufferExact
<1>1. IInv => BufferExact
  BY DEF IInv, BufferExact
<1>2. QED
  BY <1>1, IInvInductive, PTL

\* drop() leaves no accepted octet behind and no line open, unless the
\* wrapped writer failed in finish().
THEOREM NothingLeftHolds == Spec => []NothingLeft
<1>1. IInv => NothingLeft
  <2>1. SUFFICES ASSUME IInv, dropped, ~panicked
                 PROVE  /\ \A o \in 1..accepted : \E p \in 1..Len(sink) : sink[p] = o
                        /\ accepted > 0 => sink[Len(sink)] = 0
    BY DEF NothingLeft
  <2>2. extra_len = 0 /\ accepted \in Nat
    BY <2>1 DEF IInv, Ended, TypeOK
  <2>3. QED
    BY <2>1, <2>2 DEF IInv, Written
<1>2. QED
  BY <1>1, IInvInductive, PTL

-----------------------------------------------------------------------------
(* The writer implements LineWrap.                                         *)

\* Division of a whole number of lines and a rest.
LEMMA DivMod ==
    ASSUME NEW d \in Nat \ {0}, NEW q \in Nat, NEW r \in 0..(d - 1)
    PROVE  (q * d + r) \div d = q /\ (q * d + r) % d = r
<1> DEFINE a == q * d + r
<1>1. a \in Nat
  OBVIOUS
<1>2. a = d * (a \div d) + (a % d) /\ a % d \in 0..(d - 1) /\ a \div d \in Nat
  OBVIOUS
<1>3. a \div d = q
  OBVIOUS
<1>4. QED
  BY <1>2, <1>3

\* The octets and breaks of the first lines do not depend on how many follow.
LEMMA LinesType ==
    ASSUME NEW q \in Nat
    PROVE  /\ q * (N + 1) \in Nat
           /\ Lines(q) \in Seq(Nat) /\ Len(Lines(q)) = q * (N + 1)
           /\ \A p \in 1..(q * (N + 1)) :
                 Lines(q)[p] = IF p % (N + 1) = 0 THEN 0 ELSE p - (p \div (N + 1))
<1>1. N + 1 \in Nat \ {0} /\ q * (N + 1) \in Nat
  BY NAssumption
<1> DEFINE d == N + 1
           m == q * (N + 1)
<1>2. \A p \in 1..m : p % d \in Int /\ p - (p \div d) \in Nat
  BY <1>1
<1>3. DOMAIN Lines(q) = 1..m /\ \A p \in 1..m : Lines(q)[p] = IF p % d = 0 THEN 0 ELSE p - (p \div d)
  BY DEF Lines
<1> HIDE DEF d, m
<1>4. Lines(q) = [p \in 1..m |-> IF p % d = 0 THEN 0 ELSE p - (p \div d)]
  BY DEF Lines, d, m
<1>5. m \in Nat
  BY <1>1 DEF m
<1>6. Lines(q) \in [1..m -> Nat]
  BY <1>2, <1>4
<1>7. Lines(q) \in Seq(Nat) /\ Len(Lines(q)) = m
  BY <1>5, <1>6, <1>3
<1>8. QED
  BY <1>1, <1>3, <1>7 DEF d, m

\* One line more.
LEMMA NextLine ==
    ASSUME NEW q \in Nat, NEW line \in Seq(Nat), Len(line) = N,
           \A i \in 1..N : line[i] = q * N + i
    PROVE  Lines(q) \o Terminated(line) = Lines(q + 1)
<1> DEFINE all == Lines(q) \o Terminated(line)
           m == q * (N + 1)
<1>1. N \in Nat \ {0} /\ m \in Nat /\ (q + 1) * (N + 1) = m + N + 1 /\ q + 1 \in Nat
  BY NAssumption
<1>2. /\ Lines(q) \in Seq(Nat) /\ Len(Lines(q)) = m
      /\ \A p \in 1..m : Lines(q)[p] = IF p % (N + 1) = 0 THEN 0 ELSE p - (p \div (N + 1))
  BY LinesType
<1>3. /\ Lines(q + 1) \in Seq(Nat) /\ Len(Lines(q + 1)) = m + N + 1
      /\ \A p \in 1..(m + N + 1) :
            Lines(q + 1)[p] = IF p % (N + 1) = 0 THEN 0 ELSE p - (p \div (N + 1))
  <2>1. q + 1 \in Nat
    OBVIOUS
  <2>2. QED
    BY <1>1, <2>1, LinesType
<1>4. /\ all \in Seq(Nat) /\ Len(all) = m + N + 1
      /\ \A p \in 1..m : all[p] = Lines(q)[p]
      /\ \A i \in 1..N : all[m + i] = q * N + i
      /\ all[m + N + 1] = 0
  <2>1. /\ all \in Seq(Nat) /\ Len(all) = Len(Lines(q)) + Len(line) + 1
        /\ \A p \in 1..Len(Lines(q)) : all[p] = Lines(q)[p]
        /\ \A p \in 1..Len(line) : all[Len(Lines(q)) + p] = line[p]
        /\ all[Len(Lines(q)) + Len(line) + 1] = 0
    BY <1>2, BehindBreak
  <2> HIDE DEF all, m
  <2>2. QED
    BY <2>1, <1>2
<1>5. ASSUME NEW i \in 1..N
      PROVE  (m + i) % (N + 1) = i /\ (m + i) - ((m + i) \div (N + 1)) = q * N + i
  <2>1. N + 1 \in Nat \ {0} /\ i \in 0..((N + 1) - 1)
    BY <1>1
  <2>2. (q * (N + 1) + i) \div (N + 1) = q /\ (q * (N + 1) + i) % (N + 1) = i
    BY <2>1, DivMod
  <2>3. (m + i) - q = q * N + i
    BY <1>1
  <2>4. QED
    BY <2>2, <2>3
<1>6. (m + N + 1) % (N + 1) = 0
  <2>1. N + 1 \in Nat \ {0} /\ 0 \in 0..((N + 1) - 1) /\ q + 1 \in Nat
    BY <1>1
  <2>2. ((q + 1) * (N + 1) + 0) % (N + 1) = 0
    BY <2>1, DivMod
  <2>3. QED
    BY <2>2, <1>1
<1> HIDE DEF all, m
<1>7. ASSUME NEW p \in 1..(m + N + 1)
      PROVE  all[p] = Lines(q + 1)[p]
  <2>1. CASE p \in 1..m
    BY <2>1, <1>2, <1>3, <1>4
  <2>2. CASE p \in (m + 1)..(m + N)
    <3>1. PICK i \in 1..N : p = m + i
      <4>1. p - m \in 1..N /\ p = m + (p - m)
        BY <2>2, <1>1
      <4>2. QED
        BY <4>1
    <3>2. p % (N + 1) = i /\ p - (p \div (N + 1)) = q * N + i /\ i # 0
      BY <3>1, <1>5
    <3>3. all[p] = q * N + i
      BY <3>1, <1>4
    <3>4. QED
      BY <3>2, <3>3, <1>3
  <2>3. CASE p = m + N + 1
    BY <2>3, <1>3, <1>4, <1>6
  <2>4. QED
    BY <2>1, <2>2, <2>3, <1>1
<1>8. all = Lines(q + 1)
  BY <1>3, <1>4, <1>7, SeqEqual
<1>9. QED
  BY <1>8 DEF all

\* What LineWrap calls the complete lines.
LEMMA WrappedIsLines ==
    ASSUME NEW q \in Nat, NEW r \in 0..(N - 1)
    PROVE  Wrap!Wrapped(q * N + r) = Lines(q) /\ (q * N + r) % N = r
<1>1. (q * N + r) \div N = q /\ (q * N + r) % N = r
  BY NAssumption, DivMod
<1>2. QED
  BY <1>1 DEF Wrap!Wrapped, Lines

\* Every step keeps whole lines in the text and the rest in extra.
LEMMA WholeLinesKept ==
    ASSUME IInv, WholeLines, [Next]_vars
    PROVE  WholeLines'
<1> SUFFICES ASSUME ~finished'
             PROVE  \E q \in Nat : accepted' = q * N + extra_len' /\ (torn' = 0 => sink' = Lines(q))
  BY DEF WholeLines
<1>1. ~finished
  BY DEF Next, WriteBuffers, WriteLine, WriteLineFails, WriteAfterFinish, FinishOk, FinishFails,
         Drop, DropFinishes, Finish, FinishBreaks, vars
<1>2. PICK q \in Nat : accepted = q * N + extra_len /\ (torn = 0 => sink = Lines(q))
  BY <1>1 DEF WholeLines
<1>3. N \in Nat \ {0} /\ extra_len \in 0..(N - 1) /\ q * N \in Nat /\ torn \in Nat
  BY NAssumption DEF IInv, TypeOK
<1>4. CASE WriteBuffers
  <2>1. PICK n \in 1..MaxInput : extra_len' = extra_len + n /\ accepted' = accepted + n
    BY <1>4 DEF WriteBuffers
  <2>2. sink' = sink /\ torn' = torn /\ n \in Nat
    BY <1>4, BoundsAssumption DEF WriteBuffers
  <2>3. accepted' = q * N + extra_len'
    BY <1>2, <1>3, <2>1, <2>2
  <2>4. QED
    BY <1>2, <2>2, <2>3
<1>5. CASE WriteLine
  <2>1. sink' = sink \o Terminated(Line) /\ torn' = torn
    BY <1>5 DEF WriteLine
  <2>2. extra_len' = 0 /\ accepted' = accepted + (N - extra_len)
    BY <1>5 DEF WriteLine, Missing
  <2>3. q + 1 \in Nat /\ accepted' = (q + 1) * N + extra_len'
    BY <1>2, <1>3, <2>2
  <2>4. Line \in Seq(Nat) /\ Len(Line) = N /\ \A i \in 1..N : Line[i] = q * N + i
    <3>1. accepted - extra_len = q * N
      BY <1>2, <1>3
    <3>2. QED
      BY <3>1, <1>1, PiecesType, LineExact DEF IInv
  <2>5. Lines(q) \o Terminated(Line) = Lines(q + 1)
    BY <2>4, NextLine
  <2>6. torn' = 0 => sink' = Lines(q + 1)
    BY <1>2, <2>1, <2>5
  <2>7. QED
    BY <2>3, <2>6
<1>6. CASE UNCHANGED <<accepted, extra_len>> /\ (torn' = 0 => torn = 0 /\ sink' = sink)
  BY <1>2, <1>6
<1>7. CASE FinishOk
  BY <1>7, <1>1 DEF FinishOk, Finish
<1>8. CASE WriteLineFails \/ WriteAfterFinish \/ UNCHANGED vars
  BY <1>8, <1>6 DEF WriteLineFails, WriteAfterFinish, vars
<1>9. CASE FinishFails
  BY <1>9, <1>3, <1>6 DEF FinishFails, FinishBreaks
<1>10. CASE Drop
  <2>1. UNCHANGED <<accepted, extra_len>> /\ (torn' = 0 => torn = 0 /\ sink' = sink)
    <3>1. ~Finish
      BY DEF Finish
    <3>2. QED
      BY <1>10, <1>3, <3>1 DEF Drop, DropFinishes, FinishBreaks
  <2>2. QED
    BY <1>6, <2>1
<1>11. QED
  BY <1>4, <1>5, <1>7, <1>8, <1>9, <1>10 DEF Next

\* finish() is the abstract Close.
LEMMA FinishCloses ==
    ASSUME IInv, WholeLines, ~finished, torn = 0, Finish, UNCHANGED accepted
    PROVE  Wrap!Close
<1>1. PICK q \in Nat : accepted = q * N + extra_len /\ sink = Lines(q)
  BY DEF WholeLines
<1>2. extra_len \in 0..(N - 1) /\ extra_len \in Nat
  BY NAssumption DEF IInv, TypeOK
<1>3. Wrap!Wrapped(accepted) = sink /\ accepted % N = extra_len
  BY <1>1, <1>2, WrappedIsLines
<1>4. sink' = Wrap!Closed(accepted)
  <2>1. CASE extra_len = 0
    BY <2>1, <1>3 DEF Finish, Wrap!Closed
  <2>2. CASE extra_len # 0
    <3>1. sink' = sink \o (Extra \o <<0>>)
      BY <2>2 DEF Finish, FinalWrites, Terminated, Break
    <3>2. Extra = [i \in 1..extra_len |-> accepted - extra_len + i]
      BY DEF Extra, IInv, ExtraExact
    <3>3. Wrap!Closed(accepted) = sink \o ([i \in 1..extra_len |-> accepted - extra_len + i] \o <<0>>)
      BY <2>2, <1>3 DEF Wrap!Closed
    <3>4. QED
      BY <3>1, <3>2, <3>3
  <2>3. QED
    BY <2>1, <2>2
<1>5. QED
  BY <1>4 DEF Finish, Wrap!Close

\* An accepted write is the abstract Accept.
LEMMA WriteAccepts ==
    ASSUME IInv, WholeLines, WholeLines', torn' = 0, WriteBuffers \/ WriteLine, IInv'
    PROVE  Wrap!Accept
<1>1. finished = FALSE /\ finished' = FALSE
  BY DEF WriteBuffers, WriteLine, IInv, TypeOK
<1>2. PICK q \in Nat : accepted' = q * N + extra_len' /\ sink' = Lines(q)
  BY <1>1 DEF WholeLines
<1>3. extra_len' \in 0..(N - 1)
  BY DEF IInv, TypeOK
<1>4. sink' = Wrap!Wrapped(accepted')
  BY <1>2, <1>3, WrappedIsLines
<1>5. \E n \in 1..N : accepted' = accepted + n
  <2>1. N \in Nat \ {0} /\ extra_len \in 0..(N - 1)
    BY NAssumption DEF IInv, TypeOK
  <2>2. CASE WriteBuffers
    <3>1. PICK n \in 1..MaxInput : extra_len + n < N /\ accepted' = accepted + n
      BY <2>2 DEF WriteBuffers, Fits
    <3>2. n \in 1..N
      BY <3>1, <2>1, BoundsAssumption
    <3>3. QED
      BY <3>1, <3>2
  <2>3. CASE WriteLine
    <3>1. accepted' = accepted + (N - extra_len) /\ N - extra_len \in 1..N
      BY <2>3, <2>1 DEF WriteLine, Missing
    <3>2. QED
      BY <3>1
  <2>4. QED
    BY <2>2, <2>3
<1>6. QED
  BY <1>1, <1>4, <1>5 DEF Wrap!Accept

\* LineWriter implements LineWrap step by step, for every line length and
\* every sequence of writes, failures and retries, until the wrapped writer
\* fails between the two writes of finish().
THEOREM WrapsHolds == Spec => Wraps
<1>1. Init => Wrap!Init
  BY DEF Init, Wrap!Init
<1>2. Init => WholeLines
  <2> SUFFICES ASSUME Init PROVE WholeLines
    OBVIOUS
  <2>1. 0 \in Nat /\ accepted = 0 * N + extra_len
    BY NAssumption DEF Init
  <2>2. Lines(0) \in Seq(Nat) /\ Len(Lines(0)) = 0
    <3>1. 0 * (N + 1) = 0
      BY NAssumption
    <3>2. QED
      BY <3>1, LinesType
  <2>3. sink = Lines(0)
    BY <2>2, EmptySeq DEF Init
  <2>4. QED
    BY <2>1, <2>3 DEF WholeLines
<1>3. IInv /\ WholeLines /\ [Next]_vars => WholeLines'
  BY WholeLinesKept
<1>4. IInv /\ IInv' /\ WholeLines /\ WholeLines' /\ [Next]_vars
      => [torn' > 0 \/ Wrap!Next]_<<accepted, sink, finished>>
  <2> SUFFICES ASSUME IInv, IInv', WholeLines, WholeLines', [Next]_vars, torn' = 0
               PROVE  Wrap!Next \/ UNCHANGED <<accepted, sink, finished>>
    BY DEF IInv, TypeOK
  <2>1. CASE WriteBuffers \/ WriteLine
    BY <2>1, WriteAccepts DEF Wrap!Next
  <2>2. CASE WriteLineFails \/ WriteAfterFinish \/ UNCHANGED vars
    BY <2>2 DEF WriteLineFails, WriteAfterFinish, vars
  <2>3. CASE FinishBreaks /\ UNCHANGED accepted
    <3>1. torn \in Nat
      BY DEF IInv, TypeOK
    <3>2. QED
      BY <2>3, <3>1 DEF FinishBreaks
  <2>4. CASE ~finished /\ Finish /\ UNCHANGED accepted
    <3>1. torn = 0
      BY <2>4 DEF Finish
    <3>2. QED
      BY <2>4, <3>1, FinishCloses DEF Wrap!Next
  <2>5. CASE UNCHANGED <<sink, finished, accepted>>
    BY <2>5
  <2>6. CASE FinishOk
    BY <2>6, <2>4, <2>5 DEF FinishOk
  <2>7. CASE FinishFails
    BY <2>7, <2>3 DEF FinishFails
  <2>8. CASE Drop
    BY <2>8, <2>3, <2>4, <2>5 DEF Drop, DropFinishes
  <2>9. QED
    BY <2>1, <2>2, <2>6, <2>7, <2>8 DEF Next
<1>5. QED
  BY <1>1, <1>2, <1>3, <1>4, IInvInductive, PTL DEF Spec, Wraps

=============================================================================
