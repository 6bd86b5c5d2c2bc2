------------------------------ MODULE LineWriter ------------------------------
(***************************************************************************)
(* The line writer of src/line_writer.rs: it breaks what is written to it  *)
(* into lines of N octets and hands complete lines to a wrapped writer.    *)
(*                                                                         *)
(* The caller's data is the octets 1, 2, 3, ...; accepted of them were     *)
(* taken by calls that returned Ok.  sink is the text the wrapped writer   *)
(* was given, a line break as 0.  A write_all of the wrapped writer writes *)
(* everything or fails and writes nothing (the contract the code's         *)
(* comments assume); it may fail at any call.                              *)
(***************************************************************************)
EXTENDS Integers, Sequences

CONSTANTS
    N,           \* the line length, U64 for armor
    MaxInput,    \* longest input of one write()
    MaxOctets,   \* how many octets the caller has
    MaxTorn      \* how often finish() may fail between its two writes

ASSUME NAssumption == N \in Nat \ {0}
ASSUME BoundsAssumption == MaxInput \in Nat /\ MaxOctets \in Nat /\ MaxTorn \in Nat

VARIABLES
    extra,       \* the array of N octets; only the first extra_len count
    extra_len,
    finished,
    panicked,
    sink,
    accepted,
    result,      \* what the last call returned
    torn,        \* how often finish() has failed between its two writes
    dropped      \* the writer is gone

vars == <<extra, extra_len, finished, panicked, sink, accepted, result, torn, dropped>>

Break == <<0>>

\* A line with its break.
Terminated(line) == line \o Break

\* n octets of the caller, from the first one not yet accepted.
Input(n) == [i \in 1..n |-> accepted + i]

Extra == [i \in 1..extra_len |-> extra[i]]

-----------------------------------------------------------------------------

\* The input does not complete a line.
Fits(n) == extra_len + n < N

\* It is copied behind what extra holds.  Mutant: to the start of extra.
CopiedToStart(n) ==
    [i \in 1..N |-> IF i <= n THEN Input(n)[i] ELSE extra[i]]
Copied(n) ==
    [i \in 1..N |-> IF i > extra_len /\ i <= extra_len + n
                    THEN Input(n)[i - extra_len] ELSE extra[i]]

WriteBuffers ==
    /\ ~dropped /\ ~finished
    /\ \E n \in 1..MaxInput :
          /\ accepted + n <= MaxOctets
          /\ Fits(n)
          /\ extra' = Copied(n)
          /\ extra_len' = extra_len + n
          /\ accepted' = accepted + n
    /\ result' = "Ok"
    /\ UNCHANGED <<finished, panicked, sink, torn, dropped>>

\* An input that completes a line: the line is extra and the first octets of
\* the input; only those are accepted.
Missing == N - extra_len
Line == Extra \o Input(Missing)

WriteLine ==
    /\ ~dropped /\ ~finished
    /\ \E n \in 1..MaxInput : accepted + n <= MaxOctets /\ ~Fits(n)
    /\ sink' = sink \o Terminated(Line)
    /\ extra_len' = 0
    /\ accepted' = accepted + Missing
    /\ result' = "Ok"
    /\ panicked' = FALSE
    /\ UNCHANGED <<extra, finished, torn, dropped>>

\* The wrapped writer fails: extra_len is put back to what it was.
WriteLineFails ==
    /\ ~dropped /\ ~finished
    /\ \E n \in 1..MaxInput : accepted + n <= MaxOctets /\ ~Fits(n)
    /\ result' = "Err"
    /\ panicked' = FALSE
    /\ UNCHANGED <<extra, extra_len, finished, sink, accepted, torn, dropped>>

\* Writing after finish() panics.
WriteAfterFinish ==
    /\ ~dropped /\ finished /\ result # "panic"
    /\ result' = "panic"
    /\ UNCHANGED <<extra, extra_len, finished, panicked, sink, accepted, torn, dropped>>

-----------------------------------------------------------------------------
(* finish(): the rest of the octets, then the line break, two writes.      *)

\* Mutant: the last line is not closed.
FinalWithoutBreak == Extra
FinalWrites == Terminated(Extra)

Finish ==
    /\ sink' = IF extra_len = 0 THEN sink
               ELSE sink \o FinalWrites
    /\ panicked' = IF extra_len = 0 THEN panicked ELSE FALSE
    /\ extra_len' = 0
    /\ finished' = TRUE
    /\ UNCHANGED torn

FinishOk ==
    /\ ~dropped
    /\ IF finished THEN UNCHANGED <<sink, panicked, extra_len, finished, torn>>
                   ELSE Finish
    /\ result' = "Ok"
    /\ UNCHANGED <<extra, accepted, dropped>>

\* The first write fails, or only the second does.
FinishBreaks ==
    /\ ~finished /\ extra_len > 0
    /\ \/ UNCHANGED <<sink, torn>>
       \/ /\ sink' = sink \o Extra
          /\ torn < MaxTorn
          /\ torn' = torn + 1
    /\ panicked' = TRUE
    /\ UNCHANGED <<extra_len, finished>>

FinishFails ==
    /\ ~dropped
    /\ FinishBreaks
    /\ result' = "Err"
    /\ UNCHANGED <<extra, accepted, dropped>>

\* Drop finishes, unless the wrapped writer failed in finish() before, and
\* ignores errors.
\* Mutant: it does nothing.
DropForgets == UNCHANGED <<sink, panicked, extra_len, finished, torn>>
DropFinishes ==
    IF panicked \/ finished
    THEN UNCHANGED <<sink, panicked, extra_len, finished, torn>>
    ELSE Finish \/ FinishBreaks

Drop ==
    /\ ~dropped
    /\ DropFinishes
    /\ dropped' = TRUE
    /\ UNCHANGED <<extra, accepted, result>>

-----------------------------------------------------------------------------

Init ==
    /\ extra = [i \in 1..N |-> 0]
    /\ extra_len = 0
    /\ finished = FALSE
    /\ panicked = FALSE
    /\ sink = <<>>
    /\ accepted = 0
    /\ result = "Ok"
    /\ torn = 0
    /\ dropped = FALSE

Next ==
    \/ WriteBuffers
    \/ WriteLine
    \/ WriteLineFails
    \/ WriteAfterFinish
    \/ FinishOk
    \/ FinishFails
    \/ Drop

Spec == Init /\ [][Next]_vars

-----------------------------------------------------------------------------
(* Properties                                                              *)

\* The type of struct LineWriter; extra_len stays below the line length, so
\* that the copies into extra and into the buffer of N + 2 octets fit.
TypeOK ==
    /\ extra \in [1..N -> Nat]
    /\ extra_len \in 0..(N - 1)
    /\ finished \in BOOLEAN
    /\ panicked \in BOOLEAN
    /\ sink \in Seq(Nat)
    /\ accepted \in Nat
    /\ result \in {"Ok", "Err", "panic"}
    /\ torn \in Nat
    /\ dropped \in BOOLEAN

\* The octets accepted and not yet written are the first extra_len of extra.
ExtraExact ==
    ~finished => \A i \in 1..extra_len : extra[i] = accepted - extra_len + i

\* extra and extra_len stay in bounds and hold just what was not yet written,
\* also after writes that failed and were repeated.
BufferExact == TypeOK /\ ExtraExact

\* A dropped writer whose wrapped writer did not fail in finish() has written
\* every accepted octet and closed the last line.
NothingLeft ==
    dropped /\ ~panicked =>
       /\ \A o \in 1..accepted : \E p \in 1..Len(sink) : sink[p] = o
       /\ accepted > 0 => sink[Len(sink)] = 0

\* The writer implements LineWrap, step by step, until a failure falls
\* between the two writes of finish().
Wrap == INSTANCE LineWrap WITH text <- sink, closed <- finished
Wraps == Wrap!Init /\ [][torn' > 0 \/ Wrap!Next]_<<accepted, sink, finished>>

=============================================================================
