------------------------------ MODULE Normalized ------------------------------
(***************************************************************************)
(* The line ending iterator of src/normalize_lines.rs.  Each action is one *)
(* arm of next(); the consumer collects what it yields until None.  The    *)
(* collected text is then normalised once more (round 2): text is          *)
(* normalised when a literal packet or a cleartext message is made, and    *)
(* again when a text signature over it is verified.                        *)
(*                                                                         *)
(* An octet is "\r", "\n" or any other one.                                *)
(***************************************************************************)
EXTENDS Integers, Sequences

CONSTANTS
    Texts,         \* the inputs
    LineBreaks     \* the line_break values to check

CR == "cr"
LF == "lf"
Octet == {CR, LF, "x"}

LineBreak == {"Crlf", "Lf", "Cr"}

ASSUME TextsAssumption == Texts \subseteq Seq(Octet)
ASSUME LineBreaksAssumption == LineBreaks \subseteq LineBreak

VARIABLES
    iter,          \* the input of this round
    pos,           \* how many octets of it were taken
    line_break,
    prev_was_cr,
    out,           \* what next() has yielded in this round
    done,          \* next() has returned None
    round,
    once           \* what round 1 yielded

vars == <<iter, pos, line_break, prev_was_cr, out, done, round, once>>

AtEnd == pos = Len(iter)
Peek(o) == ~AtEnd /\ iter[pos + 1] = o
PeekOther == ~Peek(CR) /\ ~Peek(LF)

\* next() returns what iter.next() does with p octets taken before: an octet,
\* as it is, or None at the end.
IterNext(p) ==
    IF p = Len(iter)
    THEN pos' = p /\ done' = TRUE /\ UNCHANGED out
    ELSE pos' = p + 1 /\ out' = Append(out, iter[p + 1]) /\ UNCHANGED done

Yields(o, p) ==
    /\ out' = Append(out, o)
    /\ pos' = p
    /\ UNCHANGED done

Same == UNCHANGED <<iter, line_break, round, once>>

-----------------------------------------------------------------------------
(* The arms for \n                                                         *)

LfAtLf ==
    /\ ~done /\ line_break = "Lf" /\ Peek(LF)
    /\ IterNext(IF prev_was_cr THEN pos + 1 ELSE pos)
    /\ UNCHANGED prev_was_cr
    /\ Same

\* Behind a \r the \n is skipped and next() starts over.
CrAtLf ==
    /\ ~done /\ line_break = "Cr" /\ Peek(LF)
    /\ IF prev_was_cr
       THEN /\ pos' = pos + 1
            /\ prev_was_cr' = FALSE
            /\ UNCHANGED <<out, done>>
       ELSE /\ Yields(CR, pos + 1)
            /\ UNCHANGED prev_was_cr
    /\ Same

CrlfAtLf ==
    /\ ~done /\ line_break = "Crlf" /\ Peek(LF)
    /\ IF prev_was_cr
       THEN IterNext(pos) /\ prev_was_cr' = FALSE
       ELSE Yields(CR, pos) /\ prev_was_cr' = TRUE
    /\ Same

-----------------------------------------------------------------------------
(* The arms for \r                                                         *)

LfAtCr ==
    /\ ~done /\ line_break = "Lf" /\ Peek(CR)
    /\ Yields(LF, pos + 1)
    /\ prev_was_cr' = TRUE
    /\ Same

CrAtCr ==
    /\ ~done /\ line_break = "Cr" /\ Peek(CR)
    /\ IterNext(pos)
    /\ prev_was_cr' = TRUE
    /\ Same

\* Mutant: the \r is forgotten.
CrlfAtCrForgets ==
    /\ ~done /\ line_break = "Crlf" /\ Peek(CR)
    /\ IterNext(pos)
    /\ UNCHANGED prev_was_cr
    /\ Same

CrlfAtCr ==
    /\ ~done /\ line_break = "Crlf" /\ Peek(CR)
    /\ IF prev_was_cr
       THEN Yields(LF, pos) /\ prev_was_cr' = FALSE
       ELSE IterNext(pos) /\ prev_was_cr' = TRUE
    /\ Same

-----------------------------------------------------------------------------
(* The arms for anything else, the end included                            *)

LfOrCrAtOther ==
    /\ ~done /\ line_break \in {"Lf", "Cr"} /\ PeekOther
    /\ IterNext(pos)
    /\ prev_was_cr' = FALSE
    /\ Same

\* Mutant: a \r at the end of the input is not completed.
CrlfAtOtherForgets ==
    /\ ~done /\ line_break = "Crlf" /\ PeekOther
    /\ IF prev_was_cr /\ ~AtEnd THEN Yields(LF, pos) ELSE IterNext(pos)
    /\ prev_was_cr' = FALSE
    /\ Same

CrlfAtOther ==
    /\ ~done /\ line_break = "Crlf" /\ PeekOther
    /\ IF prev_was_cr THEN Yields(LF, pos) ELSE IterNext(pos)
    /\ prev_was_cr' = FALSE
    /\ Same

\* The text is normalised again.
Again ==
    /\ done /\ round = 1
    /\ iter' = out
    /\ once' = out
    /\ out' = <<>>
    /\ pos' = 0
    /\ prev_was_cr' = FALSE
    /\ done' = FALSE
    /\ round' = 2
    /\ UNCHANGED line_break

-----------------------------------------------------------------------------

Init ==
    /\ iter \in Texts
    /\ pos = 0
    /\ line_break \in LineBreaks
    /\ prev_was_cr = FALSE
    /\ out = <<>>
    /\ done = FALSE
    /\ round = 1
    /\ once = <<>>

Next ==
    \/ LfAtLf
    \/ CrAtLf
    \/ CrlfAtLf
    \/ LfAtCr
    \/ CrAtCr
    \/ CrlfAtCr
    \/ LfOrCrAtOther
    \/ CrlfAtOther
    \/ Again

Spec == Init /\ [][Next]_vars

-----------------------------------------------------------------------------
(* Properties                                                              *)

Break(style) == IF style = "Crlf" THEN <<CR, LF>> ELSE IF style = "Cr" THEN <<CR>> ELSE <<LF>>

\* Octet n of a text, read without state: \r\n, a lone \r and a lone \n end a
\* line each; a \r\n counts where its \r is.
Piece(text, style, n) ==
    IF text[n] \notin {CR, LF} THEN <<text[n]>>
    ELSE IF text[n] = LF /\ n > 1 /\ text[n - 1] = CR THEN <<>>
    ELSE Break(style)

\* The first n octets of a text with their line endings in one style.
Reference(text, style, n) ==
    LET joined[i \in 0..Len(text)] ==
          IF i = 0 THEN <<>> ELSE joined[i - 1] \o Piece(text, style, i) IN
    joined[n]

\* Normalising to \r\n or to \r: every line ending comes out in the one style
\* asked for, and nothing else changes.
OneStyle == done /\ line_break # "Lf" => out = Reference(iter, line_break, Len(iter))

\* Normalised text is left as it is: a signature made over text that was
\* normalised when it was stored verifies after it is normalised again.
Idempotent == done /\ round = 2 /\ line_break # "Lf" => out = once

=============================================================================
