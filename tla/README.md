# rPGP in TLA+

A verification development for rPGP (`src/`), an OpenPGP implementation in Rust:
TLA+ modules for its parsers and writers, TLC configurations that check them on
small instances, and TLAPS proofs of the properties that matter most, for every
instance.  Paths below are relative to the crate (`src/src/`) unless they start
with `tests/`.

## The system

rPGP is a library.  It has no threads and no persistent state; what makes it
hard is long chains of adapters that pull data from one another, each with state
that outlives a call, each with its own idea of what an error means:

    octets -> Dearmor -> PacketParser -> filter_parsed_packet_results
           -> MessageParser | key parsers | StandaloneSignature parser
           -> Message operations (verify, decrypt, decompress) ...
    ... Message / key -> Serialize -> ArmorWriter -> LineWriter -> octets

| component | state | operations | what is hard | module |
|---|---|---|---|---|
| packet iterator `packet/many.rs`, `packet/single.rs` | buffered reader, `done`, the body being collected | `next()` | framing of fixed, partial and indeterminate bodies, bad bodies between good ones, a source that ends or fails anywhere | `PacketParser` |
| packet filter `composed/shared.rs` | none | `filter_parsed_packet_results` | which errors may be swallowed | `PacketParser` |
| message parser `composed/message/parser.rs` | peekable packets, call stack | `next()` | nesting of signatures, peeking at errors | `MessageParser` |
| message writer `composed/message/types.rs` | none | `to_writer` | being the inverse of the parser | `MessageParser` |
| key parsers `composed/signed_key/*` | peekable packets | `next()`, constructors, `to_writer` | which packet a signature belongs to, where a key ends | `KeyParser` |
| line writer `line_writer.rs` | `extra`, `extra_len`, `finished`, `panicked` | `write`, `finish`, `drop` | failures of the wrapped writer, retries | `LineWriter`, `LineWrap` |
| line endings `normalize_lines.rs` | `prev_was_cr` | `next()` | sequences of CR and LF in any order, applying it twice | `Normalized` |
| armor reader `armor/reader.rs`, `base64_*.rs` | current part, decoder buffers, CRC | `read`, `read_header` | short reads, errors between parts, quads across buffers | `Dearmor` |
| armor writer `armor/writer.rs` | CRC, nested writers | `write` | errors swallowed on drop | `Dearmor` (operators) |
| cleartext messages `composed/cleartext.rs` | text, hashes, signatures | `sign`, `verify`, `from_armor`, `to_armored_writer` | escaping and normalising back and forth, what the buffer holds | `Cleartext` |
| message operations `composed/message/*` | layers of a message | `sign`, `encrypt*`, `decrypt*`, `verify`, `decompress` | choice among several session keys, recursion, error paths | `MessageOps` |
| session keys `packet/*_encrypted_session_key.rs`, `types/secret_key_repr.rs` | none | make, open | wrong keys and passwords, sizes taken from the data | `MessageOps` |
| signatures `packet/signature/*` | subpackets | `sign*`, `verify*`, parse, write | which data is hashed, subpacket areas written twice and read once | `SignaturePacket` (octets), `Certificates` (keys, users), `MessageOps` (data) |
| key packets `packet/*_key_*`, `types/params/*` | plain or encrypted parameters | `unlock`, encrypt, parse, write | checksums, which protection is written back, panics | `SecretKey` |
| encrypted data `packet/sym_*`, `crypto/sym.rs`, `crypto/aead.rs` | chunk index, MDC | `encrypt`, `decrypt` | damage, data too short | `MessageOps` (outcomes) |
| key generation, certificates `composed/key/*`, `composed/signed_key/*` | builder fields, certified parts | `build`, `generate`, `sign`, `verify`, `as_unsigned` | validation, what each signature covers, signing anew | `Certificates` |
| codings `types/s2k.rs`, `types/mpi.rs`, `types/packet.rs`, `util.rs` | none | encode, decode, derive | boundaries of lengths and counts | `Octets`, `SecretKey`, `SignaturePacket` |
| public key algorithms `crypto/*` | none | - | numeric, from external crates | not modelled |

What must be right, over all of them: no packet, signature or octet is lost,
doubled, reordered or attached to something else; what is written is read back
as the same thing; an error of one part is neither swallowed nor turned into a
wrong result; iteration ends.  `PROJECT.json` lists the places where this is at
risk ("hazards") with the properties that watch them.

## Modules and their correspondence to the code

**PacketParser** (`packet/many.rs`, `packet/single.rs`, the filter of
`composed/shared.rs`).  A source is a sequence of cells: a complete header, a
complete continuation length, one body octet, a header or length that is cut, an
octet no header starts with.  `pos` counts consumed cells; `done` is
`PacketParser.done`; `pc`, `at` and `body` are where `next()` is in its read
loops and what it has collected.  There is one action for every way through
`next()`: `NextDone`, `NextNone`, `NextBadHeader`, `NextFixedSmall` (the internal
buffer, with its slice), `NextFixedLarge`, `NextIndeterminate` with
`IndeterminateRead`/`IndeterminateEnd`, `NextPartial` with
`PartialChunk`/`PartialFinal`/`PartialFail`.  `raw` is what `next()` returned,
`items` what the filter let through.  The body parsers of the packet types are
one class per body: good, incomplete, unsupported, bad curve point, invalid.
`buffer_redux::BufReader` is external: `fill_buf` fails when the source fails
before `MinBuffered` octets are there, `read_exact` may fail early for the same
reason.  A source carries the layout of its writer (`hdrs`, `lens`, `body`,
`pre`, `owner`); no action looks at it, only properties do.  The layout is one a
writer can make: a header says where the next one is, and no packet starts inside
another.

**MessageParser** (`composed/message/parser.rs`, `to_writer` of
`composed/message/types.rs`).  The recursion of `next()` is the variable `stack`;
`ret` is what the innermost call returned.  A message is flattened to its
signature layers and its core.  When a consumer has read a stream to its end, one
of the messages is serialised and parsed again (`Reparse`), as
`tests/message_test.rs` does.

**KeyParser** (`composed/signed_key/key_parser_macros.rs`, `parse.rs`,
`public.rs`, `secret.rs`, `shared.rs`, `types/user.rs`).  The macro's loops are
the values of `pc`; `cur` is the part that collects signatures.  `mode` chooses
`SignedPublicKeyParser`, `SignedSecretKeyParser` or `PubPrivIterator`, whose
`inner.take()` is the variable `inner`.  `ignored` are packets the filter drops.
The constructors' filters (`Vec::retain`, by `Select`) and the writers are
operators; a parsed key is written and parsed again.  A user's constructor filters
before the part is pushed; the model filters when the key is complete, which
nothing in between can observe.

**LineWriter** (`line_writer.rs`) keeps the fields of the struct; the caller's
octets are 1, 2, 3, ..., so that a lost, doubled or moved octet shows; `sink` is
the text written, a line break is 0.  The wrapped writer may fail at any call; its
`write_all` is all-or-nothing, the contract the code's comments assume.
**LineWrap** is the abstract specification: the text is the accepted octets with a
break behind every `N`.

**Normalized** (`normalize_lines.rs`): one action per arm of `next()`; the result
is normalised again.

**Dearmor** (`armor/reader.rs`, `base64_decoder.rs`, `base64_reader.rs`, and as
operators `armor/writer.rs`).  A text is a sequence of cells (a half of a BEGIN
or END line, a character of a header's key, the `: value` that ends a header
line, a line break, a base64 character).  `part` is `Dearmor.current_part`;
`dec`, `out` and `err` are the decoder's fields; `hashed` is what the CRC was
updated with.  Octet `j` of quad `q` is `10 * q + j`, so that an octet that is
lost, doubled or decoded from characters of two quads shows.  `first` is where
the source's first piece ends: only the header parser looks at what is buffered
instead of reading on.  A source may fail once, anywhere, and then go on, and
the caller may read on after an error.  With `wrapped = FALSE` the base64
decoder is read alone, as its own tests do.  A checksum matches when the octets
hashed are those that were armored.  The writer's operators include the lines
lost when the nested writers fail while they are dropped.  `Layout` is what is
assumed of a text: a BEGIN line that is the first armor line, blank lines in front
of the body, and characters in the body that encode `body`, a prefix of what was
armored, as far as the text goes.  Nothing is assumed of what lies behind the body:
a checksum, a footer, another block, a cut.

**MessageOps** (`composed/message/types.rs`, `decrypt.rs`, the session key and
encrypted data packets, `crypto/sym.rs`, `Signature::verify`,
`SignatureConfig::sign`).  A message is the sequence of its layers, outermost
first, a literal at the end.  `to_bytes` is the message itself: that it is read
back as such is `RoundTrip` of `MessageParser`.  A hash is what was hashed, a
session key a number.  Algorithms are classes: `AES` for the ciphers there are,
`Misfit` for one whose keys are longer than the key in hand, `Other`, `Plaintext`.
A sender adds layers (`Sign`, `Compress`, `EncryptToKeys`, `EncryptWithPassword`),
another implementation may add one that rPGP does not write (`AddForeign`: data
without protection, AEAD data, password packets of versions 5 and 6, two messages
in one plaintext, a session key too short for its algorithm or, `Short`, for its
checksum); on the way the message may be damaged once (`Send`): ciphertext
flipped, cut or cut to a stub, a session key packet dropped, replaced or made
undecryptable, a signature inside another removed, the data or the line endings of
an unencrypted literal changed.  The recipient then calls `Decrypt` with any list
of certificates, `DecryptWithPassword` and `Decompress`, with any password;
`Verify` and `GetContent` are operators on the message in hand.  A wrong password
on an encrypted session key of version 4 gives any algorithm, as nothing checks
it.  Session keys are numbered as they are drawn; a layer of another
implementation has one of its own (0).  A call that panics ends the run.  Left
out: prefix signatures and signed messages without a message (which rPGP parses
but does not make), damaged compressed data, the loop over AEAD chunks.

**Certificates** (`composed/key/*`, `composed/signed_key/*`, `types/user.rs`, the
certifying halves of `packet/signature/config.rs` and `types.rs`).  Parameters go
through `validate()` and `generate()`; `SignSecretKey` and `SignPublicKey` are
`sign()` with all the signatures it makes, or the error or panic it ends in.  A
signed key can be made public (`IntoPublic`: the subkeys lose what is not a
binding or revocation, those left without a signature go, users and attributes
stay as they are), taken apart and signed anew (`Unsign`), written
and read back (`Reload`).  Its fields are public, so signatures of every type may
also be made one by one, by the key or by a third one, put behind any component
and taken away (`Rearrange`, at most `MaxEdits` times).  A hash is what was
hashed (`CertParts`, `BindingParts`, `KeyParts`), so signatures verify exactly
where the same is hashed again.  `made` records what each signature was meant to
say; only properties look at it.  Keys have different names, and no user id or
attribute has the octets of a key: a version 3 signature hashes neither a type nor
a length in front of what it certifies, so the two could not be told apart.
`filter()` and `retain()` of the constructors are `Select` (**Selection**), a
recursive function over positions.

**Octets** holds what the codecs share: big-endian integers, packet lengths, mpis.
`StripLeadingZeros` is `strip_leading_zeros` of `util.rs`, behind
`Mpi::from_raw_slice`.  `strip_leading_zeros_vec` (`:84`), which takes octets from
the wrong places when there are two zeros or more, is only used for the secret
number of a new ECDH key (`crypto/ecdh.rs:304`) and not modelled: numbers of keys
are opaque.

**SignaturePacket** (`packet/signature/ser.rs`, `de.rs`, and `hash_signature_data`
of `config.rs`).  A signature is built subpacket by subpacket, signed and written,
or arrives as octets of another implementation, some of them odd, hashed with the
trailer of its version; it is then read field by field, one subpacket per step
(`ReadSubpacket`, `EndArea`, `ReadZeroLength`, which is the underflow).  Types,
values, criticality and lengths are octets, as in the code.  Left out: embedded
signatures, which are this codec one level down.

**Cleartext** (`composed/cleartext.rs`, the header and footer parsers of
`armor/reader.rs` it uses, `StandaloneSignature` behind it).  The wire is a
sequence of symbols (line ending octets, a space, a letter, dashes, armor lines).
A text is signed by one or two keys, written, changed on the way (other line
endings, more escapes, one symbol more or less, something behind it) and read;
dashes count as five wherever single ones and the symbols for more of them add up
(`FiveDashesAt`); each step of the reader's loop is an action, and `window` is
what its buffer holds.  `has_rest` reads slice by slice into its zero-filled
buffer.

**SecretKey** (`packet/{public,secret}_key_{macro,parser}.rs`, `types/params/*`,
`types/s2k.rs`, `crypto/sym.rs`, `hash.rs`, `checksum.rs`).  A packet is its
octets, for every version, usage octet, algorithm class and s2k specifier.  A
derived key is the sequence of octet streams hashed for it, built up as
`derive_key` does, set by set (`StartRound`, `FeedSet`, `FeedRest`); encrypted
octets are opaque and `cipher` remembers what they stand for, so that decrypting
with another key or after damage gives something else.  Keys are generated or
come from elsewhere (`Foreign`), are protected, written, damaged, read, unlocked,
made public and asked for their checksum in any order.

The `MC...` modules build the inputs; the `.cfg` files choose bounds.

## Runs

| run | shows |
|---|---|
| PacketParser | up to two packets of every framing and class, cut at every cell, ending cleanly or failing: `Framing`, `BodyExact`, `ErrorsAreHonest`, `InOrder`, `Termination` |
| PacketParserTruncated | *violated*: a source ending inside a short body panics (finding) |
| MessageParser | every stream of four items over nine tags, and all messages of three layers over four cores: `ExactlyTheGrammar`, `NothingLost`, `RoundTrip` |
| KeyParser | 216 rings with any one signature dropped, every sequence of three packets, three iterators: `OwnPacketsOnly`, `RingComplete`, `RoundTrip` |
| LineWriter | every split of 13 octets into writes, lines of three, failures anywhere: `BufferExact`, `NothingLeft`, and the refinement of `LineWrap` |
| Normalized | every text of six octets, three styles: `OneStyle`, `Idempotent` |
| Dearmor | texts of six payload lengths, with and without headers, checksum and text in front, right and wrong footers, lines lost by the writer, another block behind, cut or failing at every cell, read in slices of 2, 5 and 9: `DecodedExactly`, `HonestOutcome`, `NothingAfterError`; reading on always ends |
| MessageOps | up to three layers, two certificates with four keys, two passwords, one damage: `PlaintextIsOriginal`, `VerifiedIsSigned`, `IntactIsReadable`, `KeysOpen`, `IntactNeverPanics` |
| Certificates | keys of every algorithm, version and flag, and full ones with users, an attribute and subkeys, edited three times: `VerifiedIsGenuine`, `SignedVerifies`, `ResignKeeps`, `FlagsAreHonest` |
| SignaturePacket | nine heads, two of 23 subpackets built here or of 21 foreign ones, with and without a cut: `RoundTrip`, `VerifiedIsReported`, `GenuineVerifies`, `ReaderSurvivesWriter` |
| Cleartext | every text of three symbols, one change on the way: `RoundTrip`, `VerifiedIsVisible` |
| SecretKey | eight keys, three versions, every usage, nine s2k specifiers, three passwords, one damaged octet: `RightPasswordUnlocks`, `UnlockedIsGenuine`, `RoundTrip`, `PanicsAreKnown` |

A property whose name stands for two is their conjunction (`ErrorsAreHonest` is
`NoSilentLoss` and `OnlyRealErrors`); the parts are defined and explained in front
of it.

Bounds.  `MinBuffered`, `MinFirstPartial`, `ReadChunk` and `MaxCapacity` (1024,
512, 1024 and 2^30 in the code) are 2, 2, 2 and 3, so that bodies lie below, at
and above each; two packets are enough for what a packet can do to the one behind
it, and the theorems cover any number.  Four items in a message stream hold a
bracket, what is inside, its end and one stray item; longer nesting comes from the
built messages.  A key ring has two primary keys, so that a part can go to the
wrong one.  In `Dearmor` the decoder's buffer is 8 characters (1024), a line 4
(64), the footer's look-ahead 10 cells (128), so that payloads end inside, at and
beyond a buffer and a line; `MaxErrors` bounds how often the caller reads on after
an error.  `MaxTorn` bounds how often `finish()` is retried after a partial
failure.  In `MessageOps` three layers are enough for a signature and a
compression inside an encryption in every order, certificate A has two encryption
subkeys with different passwords and B one key for everything, so that any key,
packet or password can be the wrong one. In `Certificates` the attribute has the
content of the second user id, so that a certification can be moved between them,
and three edits make, place and remove signatures.  `Limit16` is 205 where the
code has 65536, so that one long subpacket stays below it and two do not;
subpackets of 191 octets take a length of two octets.  In `Cleartext` three
symbols hold a line ending, what it ends and what follows, `RestBuffer` is 2 (64),
and a window of 12 symbols reaches into the text. `ExpBias` is 0 where the code
has 6: counts then lie below, at and above one set of salt and password, and their
rests before, at and behind the end of the salt; sizes of salts, digests and keys
are the real ones.

Fairness.  `FairSpec` of `PacketParser` is weak fairness of `Next`: the consumer
keeps calling until `None`, and a call that began runs on (the code is single
threaded and its reads return).  `Termination` then says that no source makes the
loops spin. `Dearmor` is the same with a caller that reads on after an error at
most `MaxErrors` times.  Deadlock checking is off: an exhausted iterator stops.

## Proofs

Every theorem is proved for all values of the constants that satisfy the named
assumptions of the component's module; TLC evaluates these on every run.  The
theorems that state a property of a run are called after it (`...Holds`);
`PROJECT.json` lists them all.  None of the properties is inductive as it stands,
so each module proves an inductive invariant, action by action, and derives them
from it.

**PacketParserProofs**: `TypeCorrect`, `NeverLosesFrame`, `BodiesAreExact`,
`ResultsInOrder`, `NothingAfterDone`, `ErrorsAreHonestHolds`, for any number of
packets and any bounds that are positive.  Sources have a layout
(`SourcesAssumption`); nothing is assumed about what lies behind their end, so
truncation anywhere is covered.  That a body read in chunks is the framed one
needs what was collected so far (`ChunksExact`, `InFlight`), and that needs the
frame; `IInv` is their conjunction.  The ways of leaving `next()` (`FailKeeps`,
`FinishKeeps`) are shared.  Order (`InOrder`) and `DoneIsFinal` rest on `OrderInv`
(what was handed out lies before the packet in progress; a finished iterator is
between calls).  `ErrorsAreHonest` is about the end of the iteration; `ErrInv`
says what has been handed out on the way: every good packet before the one in
progress, as long as there was no error (`Kept`), and that no other packet starts
inside the one a read loop is in (`LoopFrame`), so that the loop skips none.  A
source that fails may hide packets in the last `MinBuffered - 1` octets before the
failure, because the first `fill_buf` of a call drops its error; everything before
them is covered (`SurelyRead`).

**LineWriterProofs**: `BufferExact`, `NothingLeft` and the refinement `Wraps`, for
every line length and any sequence of writes, failures and retries.  `IInv` adds
to the buffer's bounds that every octet not in `extra` is in the text (`Written`).
For the refinement, `WholeLines`: until `finish()` fails between its two writes
the text is a number of whole lines and the rest is in `extra`; so a `write` that
succeeds extends the abstract text, one that fails stutters, and `finish` closes
the last line.

**NormalizedProofs**: `OneStyle` and `Idempotent` for every text, to CRLF and to CR
(to LF both are false, see below).  `NInv` says what `prev_was_cr` means: to CR,
that the octet before is a CR; to CRLF, that a LF is owed, either for the CR just
taken or for the LF that is next.  With that, what is out is the reference of what
was taken (`CrExact`, `CrlfExact`); and a text with a LF behind every CR and only
there (`Clean`) passes unchanged (`Untouched`).

**DearmorProofs**: `DecodedExactly` and `NothingAfterError` for every text with the
layout above, every size of slice and buffer, and a source that is cut anywhere
and fails anywhere.  `DInv` has three parts.  `TypeInv`.  `Flow`: which part
`read()` is in and what is empty there; after an error Dearmor is in `Part::Temp`
or `Part::Done`, and a decoder read alone has memorised it.  `Exact`: while nothing
has failed there is a `k` such that the decoder stands behind the `k`-th quad of
the body (`AtQuad`): the octets of `k` quads are out, and `dec` holds exactly the
characters read behind them.  Filling the buffer keeps `k` because reading on from
where one stopped is reading in one go (`TokensJoin`); decoding adds the number of
quads decoded, because a padded quad is the last of the body (`QuadExact`) and the
`=` in front of a checksum never decodes (`NotTheChecksum`).

**MessageOpsProofs**: `PlaintextIsOriginal`, `VerifiedIsSigned`, `IntactIsReadable`,
`KeysOpen`, `IntactNeverPanics`, for any certificates (with disjoint keys), passwords,
literals and number of layers.  `MInv`: layers have the shape a message has; every
signature layer is one that was made (`Genuine`); what is inside encrypted data is
a suffix of what was sent, whatever the damage (`Enclosed`), so that what has been
opened is one too; and before damage every layer is as its sender made it
(`Original`), which is what makes it readable, and what keeps every slice that
`decrypt` takes of it in range.

**CertificatesProofs**: `VerifiedIsGenuine`, `SignedVerifies`, `ResignKeeps`,
`FlagsAreHonest`, for any parameters and any number of users, attributes, subkeys
and edits.  `CInv`: every signature on a certificate or in hand is backed by a
statement that was made (`Held`, `Backs`); what `validate()` and `sign()` let
through (`Passed`); what `sign()` returned verifies; and the first signature behind
each component is still the one that carries what was asked for (`Same`).  That a
signature which verifies was meant for the component it is behind follows from the
lengths and first parts of what is hashed, and from the assumption that ids and
keys differ.  **SelectionProofs** has what `filter()` keeps: only elements, all of
those asked for, in order (`SelectPlaces`), how the result grows with what is asked
for (`SelectNext`) and that two filters are one (`SelectTwice`); and induction over
positions, which the others use.  These are lemmas about sequences and say nothing
of the code by themselves.

**KeyParserProofs**: `OwnPacketsOnly`, `RoundTrip` and `RingComplete`, for every
set of inputs (any packet sequences and any packets dropped by the filter) and all
three iterators; the assumptions are the types of the constants.  `KInv` says of
the key in progress where its packets come from (`KeyIn`): they lie in one block,
from its primary key to `pos`, and behind a packet and its signatures there are
only signatures (`SignedIn`); `Open` says that the loop over signatures stands
right behind the part it fills, which is what makes the next signature its own.
The constructors only drop (`NewKeyIn`).  `SignaturesStayWithOwner` then follows
from where the filter's survivors come from (`SelectPlaces`).  `RoundTrip` needs
that keys have the shape the loops give them (`ShapeInv`: tags, signature types,
no unsigned part), the layout of what `Serialize` writes (`SerializeLayout`: each
part and signature at a place computed from the lengths before it) and, in round
2, that the key in progress is the beginning of the first key as far as `pos` has
come (`Rereads`: `InHead`, `Before`, `Inside`); `RInv` is the conjunction.
`RingComplete` compares the keys handed out with a definition that has no parser
(`KeyAt`).  `RingInv` says the same of the key in progress: it is `RawKey`, what
the definition gives for the block as far as `pos`, before the constructors drop
anything, and `out` holds the wanted keys in front of it (`ReadSoFar`); that the
last loop ends only at the end of an orderly block is `ReadingAll`, that the
constructors then make `KeyAt` of it `RawKeyDone`. `ErrsOut` says that the causes
in `out` are the errors passed so far.

Only model-checked:

* `Termination` of `PacketParser` and `Dearmor`: liveness under fairness is out of
  the prover's reach.
* `Dearmor.HonestOutcome`, which also needs the footer parser and the text behind
  the body.
* `MessageParser`, `SignaturePacket`, `SecretKey`, `Cleartext`: no proofs
  yet.  Their properties relate what was read to all of the input (the grammar, the
  ring, the octets of an area, the text that was escaped) or, every `RoundTrip`, to
  what an earlier reading left, and need invariants about everything read so far.

## Other disagreements met while modelling

The finding of `PROJECT.json` has a run of its own.  These were met on the way, each
by a counterexample to a stronger property; the models behave as the code does,
and the properties named exclude the case.

* `packet/many.rs:223`: a packet in partial chunks that the filter may ignore
  ends the iteration, and good packets behind it are lost silently;
  `composed/shared.rs:162` calls such packets "safe to ignore", and the fixed
  length arm goes on (`NoSilentLoss`).
* `composed/signed_key/key_parser_macros.rs:188`: signatures behind an
  unsupported subkey that was dropped go to the subkey before it
  (`SignaturesStayWithOwner`).
* `line_writer.rs:95`: `finish()` writes twice, and a failure of the second write
  leaves the first done; line 85 says that nothing was written then (`Wraps`,
  the counter `torn`).
* `armor/reader.rs:503`: a read after an error panics, the error left
  `Part::Temp` behind; `base64_decoder.rs:21` means to repeat the error.
* `armor/reader.rs:526`: a header cut by a short read of the source is refused,
  or taken for the body.
* `composed/message/types.rs:701`: `get_content` gives `None` for a signature
  around compressed data too, not only "if the message is encrypted" (`Plain`).
* `composed/message/types.rs:581` and `:658`: only the first session key packet
  that fits a certificate, and only the first password packet, is tried
  (`Unambiguous`).
* `crypto/sym.rs:27`: decrypting data without protection panics; the comment at
  line 153 says "Does resynchronization".  So do data cut to less than their tags
  (`crypto/sym.rs:187`, `packet/sym_encrypted_protected_data.rs:183`), and session
  keys that are empty or shorter than their checksum or their algorithm's keys
  (`types/secret_key_repr.rs:34`, `:45`, `:53`).  The model has all of these;
  `IntactNeverPanics` says that none of them is met in an undamaged message that
  rPGP wrote.
* `composed/message/types.rs:263`: `to_writer` writes a signature behind the
  message also when there is no one-pass signature, but the parser reads a prefix
  signature first: such a message is read back as something else
  (`tests/message_test.rs:91`, "serialize and check we get the same thing";
  `OnePassOnly`).
* `normalize_lines.rs:53`: normalising to LF never resets `prev_was_cr`, so after
  one CRLF later line feeds are dropped and a CR passes; line 3 says "normalized
  to a single style" (`OneStyle`, `Idempotent`).
* `armor/reader.rs:198`: `take_until1(": ")` crosses line breaks, so a `Version:`
  line of a second block in the buffer makes the first block part of a header key;
  line 192 says "a single key value pair" (`NoForeignPair`).
* `composed/message/types.rs:435`: `sign()` hashes a parsed text literal as it is,
  `verify()` normalises it first: with bare line feeds the new signature does not
  verify; `packet/literal_data.rs:29` says "stored normalized to CRLF"
  (`StoredNormalised`).
* `composed/cleartext.rs:327`: `has_rest` looks at its whole zero-filled buffer, so
  whitespace behind a message counts as text; the comment asks for "any
  non-whitespace characters" (stage `trailing`).  A first line that is blank is
  taken with the header (`armor/reader.rs:294`) and the message does not verify; a
  text that ends in a CR loses it (`Unreadable`); `Hash: SHA3-256` is written but
  not read; a text longer than the reader's buffer is refused.
* `packet/signature/types.rs:597`: bindings are "calculated directly on the primary
  key and subkey".  The `sign()` of the key packets (`packet/secret_key_macro.rs:151`)
  gives a signature of a binding's type over one key only; `sign_key_binding`
  (`config.rs:149`) hashes the signer first, so the back signature of a subkey is
  not what its check expects.  Signing subkeys get no embedded back signature.
* `composed/signed_key/shared.rs:114`: with no user marked
  primary the first one is doubled by `as_unsigned`, with several the others are
  lost, with none it panics; revocations, direct and third party signatures are
  dropped; `is_primary` believes third parties (`ResignKeeps`, `kept`).  One
  certification of a third party makes `verify()` fail, and `verify()` accepts a
  revocation as readily as a certification.  `composed/key/builder.rs:100`
  validates the primary key only.
* `packet/signature/de.rs:332`: a subpacket that does not parse ends its area
  silently; such a signature does not verify any more (`VerifiedIsReported`).
  `:338`: a length of zero underflows; other writers may put one there.
  `ser.rs:159` counts characters where octets are written: the octets of a key
  server that is not ASCII reach behind its length, are taken for a subpacket, and
  may be such a zero (`ReaderSurvivesWriter`); read from another implementation it
  is hashed with the other length and does not verify (`GenuineVerifies`).
  `ser.rs:288` cuts the count of the unhashed area to sixteen bits, times beyond a
  `u32` wrap (`Lossy`); a version 3 signature without creation time or issuer
  panics when signed or written (`Sign`, `ToWriter`); `MAX_EXTERN_MPI_BITS` is
  never exceeded.  `config.rs:261`: version 5 is hashed like version 4, without
  the additional values and with the trailer of version 4, so that no version 5
  signature of another implementation verifies (`ForeignTrailer`).
* `types/params/secret.rs:119`: usage 255 is read as 254, the right password is then
  refused and 254 is written (`Protected`, `RoundTrip`).  The checksum of a plain
  secret is never compared, and written anew (`UnlockedIsGenuine`).
  `types/s2k.rs:207`: a hash without a digest size panics; `:279`: the comment says
  3 + ceil(log2 p), the code checks ceil(log2 p).  The expiration of a version 4
  key is not written and an old key without one panics when it is; `checksum()`
  underflows on short data; unlocking AEAD is not implemented; a plaintext
  algorithm opens with any password, but for Argon2, which derives no key of less
  than four octets (`Argon2Derives`).

## Not modelled, and limits

* Bits of packet headers: a header is a cell of `PacketParser`.
* The octets of packet bodies other than signatures and keys: a body parser is a
  class.  Numeric cryptography is out of TLC's reach: hashes, ciphers and
  signatures are symbolic, with the sizes and failures the code depends on.
* `composed/any.rs`, a dispatch without state.  The loop over AEAD chunks: its
  outcomes are in `MessageOps`.
* Whether a point of a public key lies on its curve: only its length is checked
  (`PointFits`), the rest depends on the number.
* Mpis that are zero or not canonical, and the CFB that restarts at each mpi in
  version 3 keys, which the code does not implement either.
* In armor: the words of block types, the `Hash` headers of cleartext messages,
  and base64 that is neither padded nor a multiple of four in front of a checksum
  (the writer makes none).
* The depth of the call stack in the message parser (one level per signature).
* Padding between the packets of one message makes the parser report an error;
  the model has this, no property demands otherwise.
* A read error met by the first `fill_buf` of `next()` is logged and ends the
  iteration like a clean end; the model has this too (`NextNone`).

## Plan

Done: packets, messages, keys, armor, line endings, the operations on messages,
certificates, signature packets, cleartext messages and secret keys are modelled;
the packet iterator, the line writer, line endings, the armor reader, message
operations, certificates and the key parsers have proofs.  Next:

1. Proofs: `HonestOutcome` of the armor reader, with the layout of what lies behind
   the body.
2. The AEAD chunk loop, as a refinement of the outcomes in `MessageOps`; packet
   headers as octets on top of `Octets`.
