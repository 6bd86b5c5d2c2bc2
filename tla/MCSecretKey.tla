----------------------------- MODULE MCSecretKey -----------------------------
(***************************************************************************)
(* Instance of SecretKey for TLC.                                          *)
(***************************************************************************)
EXTENDS SecretKey

Material(alg, oid, n, kdf, mpis) ==
    [alg |-> alg, pub |-> [oid |-> oid, mpis |-> [i \in 1..n |-> <<90 + i>>], kdf |-> kdf],
     mpis |-> mpis]

\* Among them scalars that are shorter and longer than the curve's, an
\* algorithm that is parsed but not implemented and one that is not known.
MCKeys ==
    { Material(1, <<>>, 2, <<>>, <<<<5>>, <<6>>, <<7, 1>>, <<8>>>>),
      Material(17, <<>>, 4, <<>>, <<<<11, 0>>>>),
      Material(18, <<1>>, 1, <<8, 7>>, <<<<12>>>>),
      Material(22, <<2>>, 1, <<>>, <<[i \in 1..31 |-> 13]>>),
      Material(22, <<2>>, 1, <<>>, <<[i \in 1..33 |-> 13]>>),
      Material(19, <<3>>, 1, <<>>, <<[i \in 1..31 |-> 14]>>),
      Material(99, <<>>, 2, <<>>, <<<<15>>>>),
      Material(20, <<>>, 3, <<>>, <<<<17>>>>) }

Salt == <<31, 32, 33, 34, 35, 36, 37, 38>>

\* Counts below, at and above one set, and rests within and after the salt.
MCS2ks ==
    { <<0, 2>>, <<1, 8>> \o Salt, <<0, 99>>,
      <<3, 2>> \o Salt \o <<0>>, <<3, 1>> \o Salt \o <<5>>, <<3, 8>> \o Salt \o <<17>>,
      <<4>> \o Salt \o Salt \o <<1, 2, 4>>, <<4>> \o Salt \o Salt \o <<1, 4, 3>>,
      <<101, 0, 71, 78, 85, 1>> }

MCPasswords == {<<>>, <<21, 22, 23>>, [i \in 1..9 |-> 60 + i]}

=============================================================================
