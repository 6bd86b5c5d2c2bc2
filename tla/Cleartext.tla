------------------------------ MODULE Cleartext ------------------------------
(***************************************************************************)
(* Cleartext signed messages, src/composed/cleartext.rs, with the header   *)
(* and footer parsers of src/armor/reader.rs they use.  A text is signed   *)
(* and written, the wire may change it, and it is read and verified; each  *)
(* step of a reader's loop is a step here.                                 *)
(*                                                                         *)
(* The wire is a sequence of symbols: "r" and "n" for the octets of a line *)
(* ending, "s" a space, "a" a letter, "-" a dash and "5" five of them;     *)
(* "HEAD", "BEGIN" and "END" are the armor lines, which also begin with    *)
(* five dashes, "SIG" the armored signatures, and the name of a hash       *)
(* algorithm the header that announces it.                                 *)
(***************************************************************************)
EXTENDS Integers, Sequences, FiniteSets, SequencesExt

CONSTANTS
    Texts,       \* texts to sign
    Signers,     \* sequences of [key, hash] that sign one text together
    Keys,        \* keys to verify with
    RestBuffer,  \* 64 in the code: the buffer of has_rest
    Tails,       \* what may follow a message
    MaxEdits,    \* bound on what happens to the wire
    Windows      \* how much a buffered reader may hold: 0 is everything

Hashes == {"SHA256", "SHA3-256"}
Dashes == {"5", "HEAD", "BEGIN", "END"}
White == {"s", "r", "n"}

ASSUME RestBufferAssumption == RestBuffer \in Nat \ {0}

VARIABLES
    stage,    \* "start", "signed", "wire", a part of the reader, or the end
    text,     \* what was signed
    msg,      \* CleartextSignedMessage [csf, hashes, sigs], signed or read
    wire,
    edits,
    window,   \* the symbols in the reader's buffer
    pos,      \* how many the reader has taken
    filled,   \* has_rest: how much of its buffer holds whitespace
    harmless  \* only line endings and dash escapes were changed on the wire

vars == <<stage, text, msg, wire, edits, window, pos, filled, harmless>>

-----------------------------------------------------------------------------
(* Lines                                                                   *)

Flat(f) == FlattenSeq(f)

StartsLine(s, i) == i = 1 \/ s[i - 1] = "n"

\* Normalized, to CRLF (module Normalized has it step by step).
\* Mutant: spaces at the end of a line are dropped.
NormalTrims(s) ==
    Flat([i \in DOMAIN s |->
            CASE s[i] = "r" -> <<"r", "n">>
              [] s[i] = "n" -> IF i > 1 /\ s[i - 1] = "r" THEN <<>> ELSE <<"r", "n">>
              [] s[i] = "s" -> IF i = Len(s) \/ s[i + 1] \in {"r", "n"} THEN <<>> ELSE <<"s">>
              [] OTHER -> <<s[i]>>])
Normal(s) ==
    Flat([i \in DOMAIN s |->
            CASE s[i] = "r" -> <<"r", "n">>
              [] s[i] = "n" -> IF i > 1 /\ s[i - 1] = "r" THEN <<>> ELSE <<"r", "n">>
              [] OTHER -> <<s[i]>>])

\* Mutant: only the first line is escaped.
DashEscapeFirst(s) ==
    Flat([i \in DOMAIN s |->
            IF i = 1 /\ s[i] \in {"-"} \cup Dashes THEN <<"-", "s", s[i]>> ELSE <<s[i]>>])
DashEscape(s) ==
    Flat([i \in DOMAIN s |->
            IF StartsLine(s, i) /\ s[i] \in {"-"} \cup Dashes THEN <<"-", "s", s[i]>> ELSE <<s[i]>>])

DashUnescape(s) ==
    LET escape(i) == StartsLine(s, i) /\ s[i] = "-" /\ i < Len(s) /\ s[i + 1] = "s"
        gone(i) == escape(i) \/ (i > 1 /\ escape(i - 1)) IN
    Flat([i \in DOMAIN s |-> IF gone(i) THEN <<>> ELSE <<s[i]>>])

\* line_ending at position i, and how long it is.
LineEnding(s, i) ==
    CASE i <= Len(s) /\ s[i] = "n" -> 1
      [] i < Len(s) /\ s[i] = "r" /\ s[i + 1] = "n" -> 2
      [] OTHER -> 0

\* The first symbol at or behind i that is no space.
AfterSpaces(s, i) ==
    CHOOSE j \in i..(Len(s) + 1) :
        /\ \A k \in i..(j - 1) : s[k] = "s"
        /\ j = Len(s) + 1 \/ s[j] # "s"

\* A streaming parser cannot tell yet whether a line ends at i.
Undecided(s, i) == i > Len(s) \/ (i = Len(s) /\ s[i] = "r")

-----------------------------------------------------------------------------
(* Signing, verifying and writing                                          *)

NoMessage == [csf |-> <<>>, hashes |-> <<>>, sigs |-> <<>>]

Init ==
    /\ stage = "start"
    /\ text = <<>>
    /\ msg = NoMessage
    /\ wire = <<>>
    /\ edits = 0
    /\ window = <<>>
    /\ pos = 0
    /\ filled = 0
    /\ harmless = TRUE

\* new, sign and new_many: one announcement for each algorithm in use.
SignText(t, signers) ==
    /\ stage = "start"
    /\ stage' = "signed"
    /\ text' = t
    /\ \E hs \in SetToSeqs({signers[i].hash : i \in DOMAIN signers}) :
         msg' = [csf |-> DashEscape(t), hashes |-> hs,
                 sigs |-> [i \in DOMAIN signers |->
                             [key |-> signers[i].key, over |-> Normal(t)]]]
    /\ UNCHANGED <<wire, edits, window, pos, filled, harmless>>

SignedText(m) == Normal(DashUnescape(m.csf))

\* verify: the first signature that verifies, 0 when there is none.
Verify(m, key) ==
    SelectInSeq(m.sigs, LAMBDA sig : sig.key = key /\ sig.over = SignedText(m))

ToArmoredWriter ==
    /\ stage = "signed"
    /\ stage' = "wire"
    /\ wire' = <<"HEAD", "n">> \o Flat([i \in DOMAIN msg.hashes |-> <<msg.hashes[i], "n">>])
                   \o <<"n">> \o msg.csf \o <<"n", "BEGIN", "n", "SIG", "n", "END", "n">>
    /\ UNCHANGED <<text, msg, edits, window, pos, filled, harmless>>

-----------------------------------------------------------------------------
(* What may happen to the wire                                             *)

Edit(w, harm) ==
    /\ stage = "wire" /\ edits < MaxEdits
    /\ edits' = edits + 1
    /\ wire' = w
    /\ harmless' = (harmless /\ ~harm)
    /\ UNCHANGED <<stage, text, msg, window, pos, filled>>

Begin == SelectInSeq(wire, LAMBDA c : c = "BEGIN")

\* Where the text starts and where it ends, for one who looks at the wire.
Blank(i) == wire[i - 1] = "n" /\ LineEnding(wire, i) > 0
TextStart == LET i == CHOOSE i \in 2..Len(wire) : Blank(i) /\ \A j \in 2..(i - 1) : ~Blank(j)
             IN i + LineEnding(wire, i)
TextEnd == IF wire[Begin - 2] = "r" THEN Begin - 3 ELSE Begin - 2
Visible == SubSeq(wire, TextStart, TextEnd)

\* Every line ending becomes CRLF, or LF.
ToCrlf == Edit(Flat([i \in DOMAIN wire |->
    IF wire[i] = "n" /\ wire[i - 1] # "r" THEN <<"r", "n">> ELSE <<wire[i]>>]), FALSE)
ToLf == Edit(Flat([i \in DOMAIN wire |->
    IF wire[i] = "r" /\ i < Len(wire) /\ wire[i + 1] = "n" THEN <<>> ELSE <<wire[i]>>]), FALSE)

\* Somebody else escapes the other lines of the text too.
EscapeLines == Edit(Flat([i \in DOMAIN wire |->
    IF i \in TextStart..TextEnd /\ StartsLine(wire, i) /\ wire[i] # "-" THEN <<"-", "s", wire[i]>> ELSE <<wire[i]>>]), FALSE)

\* A symbol comes in before the text or in it, or gets lost; something follows.
Insert(i, c) == i \in TextStart..(TextEnd + 1) /\ Edit(InsertAt(wire, i, c), TRUE)
Lose(i) == i \in TextStart..TextEnd /\ Edit(RemoveAt(wire, i), TRUE)
Follow(tail) == Edit(wire \o tail, TRUE)

-----------------------------------------------------------------------------
(* Reading                                                                 *)

To(st, p) ==
    /\ stage' = st
    /\ pos' = p
    /\ UNCHANGED <<text, msg, wire, edits, window, filled, harmless>>

\* from_string holds everything, from_armor what its buffer takes at once.
Open(n) ==
    /\ stage = "wire"
    /\ stage' = "header"
    /\ window' = IF n = 0 \/ n > Len(wire) THEN wire ELSE SubSeq(wire, 1, n)
    /\ msg' = [NoMessage EXCEPT !.sigs = msg.sigs]
    /\ UNCHANGED <<text, wire, edits, pos, filled, harmless>>

\* armor_header_line
ReadHeadLine ==
    /\ stage = "header"
    /\ IF window[1] = "HEAD" /\ LineEnding(window, 2) > 0
       THEN To("hashes", 1 + LineEnding(window, 2))
       ELSE To("error", pos)

\* hash_header_line takes alphanumeric names only.
IsHashLine(i) ==
    /\ i <= Len(window) /\ window[i] \in Hashes \ {"SHA3-256"}
    /\ LineEnding(window, i + 1) > 0

ReadHash ==
    /\ stage = "hashes" /\ IsHashLine(pos + 1)
    /\ msg' = [msg EXCEPT !.hashes = Append(@, window[pos + 1])]
    /\ pos' = pos + 1 + LineEnding(window, pos + 2)
    /\ UNCHANGED <<stage, text, wire, edits, window, filled, harmless>>

\* pair(space0, line_ending)
ReadSeparator ==
    LET i == AfterSpaces(window, pos + 1) IN
    /\ stage = "hashes" /\ ~IsHashLine(pos + 1)
    /\ IF LineEnding(window, i) > 0
       THEN To("blanks", i + LineEnding(window, i) - 1)
       ELSE To("error", pos)

\* The many0 at the end of header_parser: blank lines are part of the header.
\* A parser that wants more is called once more with the same buffer.
SkipBlank ==
    LET i == AfterSpaces(window, pos + 1) IN
    /\ stage = "blanks"
    /\ IF LineEnding(window, i) > 0 THEN To("blanks", i + LineEnding(window, i) - 1)
       ELSE IF Undecided(window, i) THEN To("error", pos)
       ELSE To("body", pos)

\* Five dashes from i on: single ones, up to a symbol that starts with five.
FiveDashesAt(i) ==
    \E j \in i..(i + 4) :
        /\ j <= Len(window)
        /\ \A k \in i..(j - 1) : window[k] = "-"
        /\ window[j] \in Dashes \/ (j = i + 4 /\ window[j] = "-")

\* cleartext_body.  Both take_until1 look for the first place only, and
\* refuse one right at the start.
At(crlf, i) ==
    IF crlf THEN LineEnding(window, i) = 2 /\ FiveDashesAt(i + 2)
            ELSE window[i] = "n" /\ FiveDashesAt(i + 1)

Until(crlf) ==
    LET found == {i \in (pos + 1)..Len(window) : At(crlf, i)} IN
    IF found = {} THEN 0 ELSE CHOOSE i \in found : \A j \in found : i <= j

BodyEnd == IF Until(TRUE) > pos + 1 THEN Until(TRUE)
           ELSE IF Until(FALSE) > pos + 1 THEN Until(FALSE) ELSE 0

ReadBody ==
    /\ stage = "body"
    /\ IF BodyEnd = 0 THEN To("error", pos)
       ELSE /\ stage' = "signatures"
            /\ msg' = [msg EXCEPT !.csf = SubSeq(window, pos + 1, BodyEnd - 1)]
            /\ pos' = BodyEnd + LineEnding(window, BodyEnd) - 1
            /\ UNCHANGED <<text, wire, edits, window, filled, harmless>>

\* The Dearmor that reads the signatures starts where the body ended; its
\* footer takes one line ending.
ReadSignatures ==
    LET e == pos + SelectInSeq(SubSeq(wire, pos + 1, Len(wire)), LAMBDA c : c = "END") IN
    /\ stage = "signatures"
    /\ IF wire[pos + 1] = "BEGIN"
       THEN To("rest", e + LineEnding(wire, e + 1))
       ELSE To("error", pos)

\* has_rest: a read of 1 to RestBuffer octets; the buffer starts as zeros and
\* is looked at as a whole.
ReadRest(n) ==
    LET read == SubSeq(wire, pos + 1, pos + n)
        f == IF n > filled THEN n ELSE filled IN
    /\ stage = "rest" /\ pos + n <= Len(wire)
    /\ IF f = RestBuffer /\ \A i \in DOMAIN read : read[i] \in White
       THEN /\ pos' = pos + n
            /\ filled' = f
            /\ UNCHANGED <<stage, text, msg, wire, edits, window, harmless>>
       ELSE To("trailing", pos)

NoRest ==
    /\ stage = "rest" /\ pos = Len(wire)
    /\ To("read", pos)

Next ==
    \/ stage = "start" /\ \E t \in Texts, signers \in Signers : SignText(t, signers)
    \/ ToArmoredWriter
    \/ stage = "wire" /\ (ToCrlf \/ ToLf \/ EscapeLines)
    \/ stage = "wire" /\ \E i \in DOMAIN wire, c \in {"n", "s", "-", "5"} : Insert(i, c)
    \/ stage = "wire" /\ \E i \in DOMAIN wire : Lose(i)
    \/ stage = "wire" /\ \E tail \in Tails : Follow(tail)
    \/ \E n \in Windows : Open(n)
    \/ ReadHeadLine
    \/ ReadHash
    \/ ReadSeparator
    \/ SkipBlank
    \/ ReadBody
    \/ ReadSignatures
    \/ \E n \in 1..RestBuffer : ReadRest(n)
    \/ NoRest

Spec == Init /\ [][Next]_vars

-----------------------------------------------------------------------------
(* Properties                                                              *)

\* The reader has come to an end.
Ended == stage \in {"read", "error", "trailing"}
Verified(key) == stage = "read" /\ Verify(msg, key) > 0

\* A first line that is blank goes with the header, and a CR at the end goes
\* with the line ending of the writer.
FirstLineBlank(s) == LineEnding(s \o <<"n">>, AfterSpaces(s \o <<"n">>, 1)) > 0
Unreadable(s) == FirstLineBlank(s) \/ s[Len(s)] = "r"

\* A message that arrives as it was written, or with other line endings and
\* more dash escapes, verifies for every key that has signed it, when the
\* reader's buffer reaches the armor of the signatures.  A CR that ends a line
\* by itself does not survive a change of line endings.
RoundTrip ==
    Ended /\ harmless =>
        \/ \A i \in DOMAIN msg.sigs : Verified(msg.sigs[i].key)
        \/ Unreadable(text)
        \/ edits > 0 /\ \E i \in 2..Len(text) : text[i - 1] = "r" /\ text[i] # "n"
        \/ "SHA3-256" \in Range(wire)
        \/ Len(window) < Begin

\* What one reads on the wire: escapes at the start of a line undone, once.
Undashed(s) ==
    LET dash == {i \in 1..(Len(s) - 1) : s[i] = "-" /\ s[i + 1] = "s" /\ (i = 1 \/ s[i - 1] = "n")}
        kept == {i \in DOMAIN s : i \notin dash /\ i - 1 \notin dash}
        nth(k) == CHOOSE i \in kept : Cardinality({j \in kept : j <= i}) = k
    IN [k \in 1..Cardinality(kept) |-> s[nth(k)]]

\* The same with the symbol "|" for every line ending, and without the lines
\* at its start that hold spaces only.
Shown(s) ==
    LET bars == Flat([i \in DOMAIN s |->
                  IF s[i] = "n" /\ i > 1 /\ s[i - 1] = "r" THEN <<>>
                  ELSE IF s[i] \in {"r", "n"} THEN <<"|">> ELSE <<s[i]>>])
        blank(i) == \A j \in 1..i : bars[j] \in {"|", "s"}
        cut == {0} \cup {i \in DOMAIN bars : bars[i] = "|" /\ blank(i)}
        last == CHOOSE i \in cut : \A j \in cut : j <= i
    IN SubSeq(bars, last + 1, Len(bars))

\* Whatever happened to the wire, a message that verifies shows, to one who
\* reads the wire itself, the text that was signed: only line endings, dash
\* escapes and blank lines at the start may differ.
VerifiedIsVisible ==
    \A key \in Keys : Verified(key) =>
        Shown(Undashed(Visible)) = Shown(text)

=============================================================================
