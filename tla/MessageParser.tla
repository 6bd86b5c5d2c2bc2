---------------------------- MODULE MessageParser ----------------------------
(***************************************************************************)
(* The message parser of src/composed/message/parser.rs and the writer of  *)
(* src/composed/message/types.rs (Serialize for Message).                  *)
(*                                                                         *)
(* The parser is the recursive function next() over a peekable iterator of *)
(* packets.  Its recursion is the variable stack: a Signature or a         *)
(* OnePassSignature packet pushes a frame and calls next() for the message *)
(* it signs; ret is what the innermost call has returned.  A consumer      *)
(* calls next() until it returns None (round 1); then the first message it *)
(* was given is written out and parsed again (round 2), which is what      *)
(* tests/message_test.rs does.                                             *)
(*                                                                         *)
(* A packet is its tag and an identity; an item with tag "Err" is an error *)
(* of the packet iterator.  A message is flattened: layers are its         *)
(* signatures from the outermost in, core is what they sign: a literal or  *)
(* compressed packet, ESKs with their encrypted data, or nothing.          *)
(***************************************************************************)
EXTENDS Integers, Sequences, SequencesExt

CONSTANTS
    Streams,     \* what the packet iterator yields: sequences of items
    Messages     \* messages whose packets the recogniser is tested with

EskTags == {"PublicKeyEncryptedSessionKey", "SymKeyEncryptedSessionKey"}
EdataTags == {"SymEncryptedData", "SymEncryptedProtectedData"}
DataTags == {"LiteralData", "CompressedData"}

SkippedTags == {"Marker", "Padding"}

ItemTag == EskTags \cup EdataTags \cup DataTags \cup
           {"Marker", "Padding", "Signature", "OnePassSignature", "Other", "Err"}

Item == [id : Nat, tag : ItemTag]

Layer == [ops : Seq(Item), sig : Item]
Core == [esk : Seq(Item), data : Seq(Item)]
Message == [layers : Seq(Layer), core : Core]

NoCore == [esk |-> <<>>, data |-> <<>>]
NoMessage == [layers |-> <<>>, core |-> NoCore]

Kind == {"Ok", "Err", "None"}

\* What a call of next() returns.  cause is the error item handed on, if any.
Result == [r : Kind, msg : Message, cause : Seq(Item)]


ASSUME StreamsAssumption == Streams \subseteq Seq(Item)
ASSUME MessagesAssumption == Messages \subseteq Message

VARIABLES
    stream,    \* the packets of this round
    pos,       \* how many of them were taken
    pc,        \* where next() is
    stack,     \* the calls that wait for the message they sign
    esk,       \* the ESKs collected by the current call
    ret,       \* what the innermost call has returned
    out,       \* what the consumer was given in this round
    round,     \* 1: the stream as it came; 2: a message written by this crate
    first      \* the message of round 1 that round 2 parses again

vars == <<stream, pos, pc, stack, esk, ret, out, round, first>>

-----------------------------------------------------------------------------
(* Serialize for Message                                                   *)

Concat(seqs) == FlattenSeq(seqs)

\* Mutant: the signatures are not nested.
SerializeOuterFirst(m) ==
    Concat([i \in DOMAIN m.layers |-> m.layers[i].ops])
    \o m.core.esk \o m.core.data
    \o [i \in DOMAIN m.layers |-> m.layers[i].sig]

\* ops (if there is one), the signed message, the signature.
Serialize(m) ==
    LET n == Len(m.layers) IN
    Concat([i \in 1..n |-> m.layers[i].ops])
    \o m.core.esk \o m.core.data
    \o [i \in 1..n |-> m.layers[n + 1 - i].sig]

-----------------------------------------------------------------------------

Peek == stream[pos + 1]
AtEnd == pos = Len(stream)
PeekIn(tags) == ~AtEnd /\ Peek.tag \in tags

Ok(m) == [r |-> "Ok", msg |-> m, cause |-> <<>>]
Err(cause) == [r |-> "Err", msg |-> NoMessage, cause |-> cause]
None == [r |-> "None", msg |-> NoMessage, cause |-> <<>>]

Return(res) ==
    /\ ret' = res
    /\ pc' = "return"

\* The consumer calls next().
Call ==
    /\ pc = "idle"
    /\ pc' = "loop"
    /\ UNCHANGED <<stream, pos, stack, esk, ret, out, round, first>>

\* No packet is left.
LoopEnd ==
    /\ pc = "loop" /\ AtEnd
    /\ Return(None)
    /\ UNCHANGED <<stream, pos, stack, esk, out, round, first>>

\* The packet iterator fails.
LoopErr ==
    /\ pc = "loop" /\ PeekIn({"Err"})
    /\ pos' = pos + 1
    /\ Return(Err(<<Peek>>))
    /\ UNCHANGED <<stream, stack, esk, out, round, first>>

LoopData ==
    /\ pc = "loop" /\ PeekIn(DataTags)
    /\ pos' = pos + 1
    /\ Return(Ok([layers |-> <<>>, core |-> [esk |-> <<>>, data |-> <<Peek>>]]))
    /\ UNCHANGED <<stream, stack, esk, out, round, first>>

LoopEsk ==
    /\ pc = "loop" /\ PeekIn(EskTags)
    /\ pos' = pos + 1
    /\ esk' = <<Peek>>
    /\ pc' = "esk"
    /\ UNCHANGED <<stream, stack, ret, out, round, first>>

LoopSigned ==
    /\ pc = "loop" /\ PeekIn({"Signature", "OnePassSignature"})
    /\ pos' = pos + 1
    /\ stack' = Append(stack, [k |-> Peek.tag, packet |-> Peek])
    /\ UNCHANGED <<stream, pc, esk, ret, out, round, first>>

LoopSkip ==
    /\ pc = "loop" /\ PeekIn(SkippedTags)
    /\ pos' = pos + 1
    /\ UNCHANGED <<stream, pc, stack, esk, ret, out, round, first>>

LoopUnexpected ==
    /\ pc = "loop"
    /\ PeekIn(ItemTag \ (DataTags \cup EskTags \cup SkippedTags
                           \cup {"Signature", "OnePassSignature", "Err"}))
    /\ pos' = pos + 1
    /\ Return(Err(<<>>))
    /\ UNCHANGED <<stream, stack, esk, out, round, first>>

\* The ESK packets that may follow one.
MoreEsk == PeekIn(EskTags)

EskMore ==
    /\ pc = "esk" /\ MoreEsk
    /\ pos' = pos + 1
    /\ esk' = Append(esk, Peek)
    /\ UNCHANGED <<stream, pc, stack, ret, out, round, first>>

\* Exactly one encrypted data packet must follow; the packet that is found in
\* its place is taken.
EskEdata ==
    /\ pc = "esk" /\ ~MoreEsk
    /\ pos' = IF AtEnd THEN pos ELSE pos + 1
    /\ esk' = <<>>
    /\ Return(IF PeekIn(EdataTags)
              THEN Ok([layers |-> <<>>, core |-> [esk |-> esk, data |-> <<Peek>>]])
              ELSE IF PeekIn({"Err"}) THEN Err(<<Peek>>) ELSE Err(<<>>))
    /\ UNCHANGED <<stream, stack, out, round, first>>

-----------------------------------------------------------------------------
(* Returning to the call that waits                                        *)

Top == stack[Len(stack)]

\* Mutant: the outermost call returns first.
PopOutermost == Tail(stack)
Pop == SubSeq(stack, 1, Len(stack) - 1)

\* The message of the innermost call, signed once more.  None from that call
\* is a signature over nothing.
Signed(ops, sig) ==
    [layers |-> <<[ops |-> ops, sig |-> sig]>> \o ret.msg.layers,
     core |-> ret.msg.core]

\* An error is handed on through every waiting call.
ReturnErr ==
    /\ pc = "return" /\ stack # <<>> /\ ret.r = "Err"
    /\ stack' = Pop
    /\ UNCHANGED <<stream, pos, pc, esk, ret, out, round, first>>

ReturnSignature ==
    /\ pc = "return" /\ stack # <<>> /\ ret.r # "Err"
    /\ Top.k = "Signature"
    /\ stack' = Pop
    /\ ret' = Ok(Signed(<<>>, Top.packet))
    /\ UNCHANGED <<stream, pos, pc, esk, out, round, first>>

\* The signature that closes a one-pass signature must come next; another
\* packet stays where it is.
\* Mutant: the packet is taken before it is looked at.
TakenWhatever(p) == IF AtEnd THEN p ELSE p + 1
TakenIfSignature(p) == IF PeekIn({"Signature"}) THEN p + 1 ELSE p

ReturnOnePass ==
    /\ pc = "return" /\ stack # <<>> /\ ret.r # "Err"
    /\ Top.k = "OnePassSignature"
    /\ stack' = Pop
    /\ pos' = TakenIfSignature(pos)
    /\ ret' = IF PeekIn({"Signature"})
              THEN Ok(Signed(<<Top.packet>>, Peek))
              ELSE Err(<<>>)
    /\ UNCHANGED <<stream, pc, esk, out, round, first>>

\* The consumer is given a message or an error and will call again.
ReturnItem ==
    /\ pc = "return" /\ stack = <<>> /\ ret.r # "None"
    /\ out' = Append(out, ret)
    /\ pc' = "idle"
    /\ ret' = None
    /\ UNCHANGED <<stream, pos, stack, esk, round, first>>

\* The consumer is given None and stops.
ReturnNone ==
    /\ pc = "return" /\ stack = <<>> /\ ret.r = "None"
    /\ pc' = "exhausted"
    /\ UNCHANGED <<stream, pos, stack, esk, ret, out, round, first>>

\* A message of round 1 is written out and parsed again.
Reparse ==
    /\ pc = "exhausted" /\ round = 1
    /\ \E i \in DOMAIN out :
          /\ out[i].r = "Ok"
          /\ first' = out[i].msg
          /\ stream' = Serialize(out[i].msg)
    /\ round' = 2
    /\ pos' = 0
    /\ pc' = "idle"
    /\ ret' = None
    /\ out' = <<>>
    /\ UNCHANGED <<stack, esk>>

-----------------------------------------------------------------------------

Init ==
    /\ stream \in Streams
    /\ pos = 0
    /\ pc = "idle"
    /\ stack = <<>>
    /\ esk = <<>>
    /\ ret = None
    /\ out = <<>>
    /\ round = 1
    /\ first = NoMessage

Next ==
    \/ Call
    \/ LoopEnd
    \/ LoopErr
    \/ LoopData
    \/ LoopEsk
    \/ LoopSigned
    \/ LoopSkip
    \/ LoopUnexpected
    \/ EskMore
    \/ EskEdata
    \/ ReturnErr
    \/ ReturnSignature
    \/ ReturnOnePass
    \/ ReturnItem
    \/ ReturnNone
    \/ Reparse

Spec == Init /\ [][Next]_vars

-----------------------------------------------------------------------------
(* Properties                                                              *)

\* The order in which the grammar reads the packets of a message: a one-pass
\* signature opens a bracket that its signature closes, a plain signature
\* precedes what it signs.
Reading(m) ==
    LET n == Len(m.layers)
        l(i) == m.layers[n + 1 - i] IN
    Concat([i \in 1..n |-> IF m.layers[i].ops = <<>> THEN <<m.layers[i].sig>>
                           ELSE m.layers[i].ops])
    \o m.core.esk \o m.core.data
    \o Concat([i \in 1..n |-> IF l(i).ops = <<>> THEN <<>> ELSE <<l(i).sig>>])

Relevant(items) ==
    SelectSeq(items, LAMBDA it : it.tag \notin {"Marker", "Padding"})

\* Every message handed out is made of consecutive packets of the stream, in
\* the order of the grammar: each one-pass signature is closed by the
\* signature that belongs to it and no packet is attached to another layer.
Bracketed ==
    \A i \in DOMAIN out : out[i].r = "Ok" =>
       \E a, b \in 0..Len(stream) :
          /\ a < b
          /\ Relevant(SubSeq(stream, a + 1, b)) = Reading(out[i].msg)

\* When iteration ends and gave no error, the messages account for every
\* packet of the stream that is not a marker or padding, in order.
NoPacketLost ==
    pc = "exhausted" /\ (\A i \in DOMAIN out : out[i].r = "Ok") =>
       Relevant(stream) = Concat([i \in DOMAIN out |-> Reading(out[i].msg)])

\* An error of the packet iterator is never lost behind a peek, nor reported
\* twice: the consumer gets each one, in order.
ErrorsReported ==
    pc = "exhausted" =>
       Concat([i \in DOMAIN out |-> out[i].cause])
          = SelectSeq(stream, LAMBDA it : it.tag = "Err")

\* The parser recognises every message of the grammar and reads it as written.
Recognised ==
    pc = "exhausted" /\ round = 1 =>
       \A m \in Messages : stream = Reading(m) => out = <<Ok(m)>>

\* next() accepts exactly the messages of the grammar: what it hands out is
\* one, bracketed as it was written, and each one that was written is read.
ExactlyTheGrammar == Bracketed /\ Recognised

\* Nothing disappears behind next_if or a return through the waiting calls:
\* neither a packet of a stream without errors nor an error.
NothingLost == NoPacketLost /\ ErrorsReported

OnePassOnly(m) == \A i \in DOMAIN m.layers : m.layers[i].ops # <<>>

\* A parsed message without prefix signatures, written and parsed again, is
\* the same message.
RoundTrip ==
    pc = "exhausted" /\ round = 2 /\ OnePassOnly(first) => out = <<Ok(first)>>

=============================================================================
