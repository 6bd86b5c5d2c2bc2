------------------------------- MODULE LineWrap -------------------------------
(***************************************************************************)
(* What the line writer promises, without its buffer: the text given to    *)
(* the wrapped writer is always the accepted octets 1, 2, 3, ... with a    *)
(* break (0) behind every N of them, the octets of the last unfinished     *)
(* line left out; closing writes that line too, with a break.              *)
(***************************************************************************)
EXTENDS Integers, Sequences

CONSTANT N

VARIABLES accepted, text, closed

wrapVars == <<accepted, text, closed>>

\* The complete lines of the first a octets.
Wrapped(a) ==
    [p \in 1..((a \div N) * (N + 1)) |->
        IF p % (N + 1) = 0 THEN 0 ELSE p - (p \div (N + 1))]

\* With the unfinished line closed.
Closed(a) ==
    LET rest == a % N IN
    IF rest = 0 THEN Wrapped(a)
    ELSE Wrapped(a) \o ([i \in 1..rest |-> a - rest + i] \o <<0>>)

Init ==
    /\ accepted = 0
    /\ text = <<>>
    /\ closed = FALSE

Accept ==
    /\ ~closed
    /\ \E n \in 1..N : accepted' = accepted + n
    /\ text' = Wrapped(accepted')
    /\ UNCHANGED closed

Close ==
    /\ ~closed
    /\ text' = Closed(accepted)
    /\ closed' = TRUE
    /\ UNCHANGED accepted

Next == Accept \/ Close

Spec == Init /\ [][Next]_wrapVars

=============================================================================
