---------------------------- MODULE MCNormalized ----------------------------
(* Every text over the three kinds of octets, up to a length.              *)
EXTENDS Normalized

CONSTANT MaxLen

AllTexts == UNION { [1..n -> Octet] : n \in 0..MaxLen }
=============================================================================
