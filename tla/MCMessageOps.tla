---------------------------- MODULE MCMessageOps ----------------------------
(* Two certificates: a has a signing key and two encryption subkeys, one   *)
(* of them with a password of its own; b has one key for both.             *)
EXTENDS MessageOps

MCCerts == {"A", "B"}
MCKeysOf == [c \in MCCerts |-> IF c = "A" THEN <<"a", "a1", "a2">> ELSE <<"b">>]
MCSignKeys == {"a", "b"}
MCCryptKeys == {"a1", "a2", "b"}
MCLock == [k \in {"a", "a1", "a2", "b"} |-> IF k = "a2" THEN "pw2" ELSE "pw1"]
MCRecipients == {<<"a1">>, <<"b">>, <<"b", "a2">>, <<"a2", "a1">>, <<"a">>}

\* Text with bare line feeds is what rPGP reads, but does not make.
Parsed == { [t |-> "Literal", mode |-> "Binary", le |-> "lf", data |-> "good"],
            [t |-> "Literal", mode |-> "Text", le |-> "crlf", data |-> "good"],
            [t |-> "Literal", mode |-> "Text", le |-> "lf", data |-> "good"] }

Two(e) == [e EXCEPT !.extra = TRUE]

Others ==
    { CompressedLayer("BZip2"),
      EncryptedLayer(<<Skesk(4, "pw1", "AES", FALSE, 0)>>, "SED", "AES", 0),
      EncryptedLayer(<<Skesk(4, "pw1", "AES", TRUE, 0)>>, "V1", "AES", 0),
      EncryptedLayer(<<Skesk(4, "pw1", "Plaintext", TRUE, 0)>>, "V1", "AES", 0),
      EncryptedLayer(<<Skesk(6, "pw1", "AES", FALSE, 0)>>, "V1", "AES", 0),
      EncryptedLayer(<<Skesk(5, "pw1", "AES", FALSE, 0)>>, "V2", "AES", 0),
      EncryptedLayer(<<Pkesk("b", "AES", 0), Skesk(6, "pw1", "AES", FALSE, 0), Skesk(6, "pw2", "AES", FALSE, 0)>>, "V2", "AES", 0),
      Two(EncryptedLayer(<<Skesk(6, "pw1", "AES", FALSE, 0)>>, "V2", "AES", 0)),
      EncryptedLayer(<<Pkesk("a1", "Misfit", 0), Pkesk("b", "Misfit", 0)>>, "V1", "AES", 0),
      EncryptedLayer(<<Pkesk("a1", "Short", 0)>>, "V1", "AES", 0),
      EncryptedLayer(<<Pkesk("b", "Short", 0), Skesk(4, "pw1", "AES", FALSE, 0)>>, "V1", "AES", 0),
      Two(EncryptedLayer(<<Pkesk("b", "AES", 0)>>, "V1", "AES", 0)) }
=============================================================================
