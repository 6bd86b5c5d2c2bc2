------------------------------- MODULE Octets -------------------------------
(***************************************************************************)
(* The numbers of the wire format: packet lengths (src/util.rs) and        *)
(* multiprecision integers (src/types/mpi.rs).  A decoder returns how many *)
(* octets it took, 0 when it does not succeed.                             *)
(***************************************************************************)
EXTENDS Integers, Sequences, FiniteSets, SequencesExt

Octet == 0..255

Zeros(n) == [i \in 1..n |-> 0]
Take(s, n) == SubSeq(s, 1, n)
Drop(s, n) == SubSeq(s, n + 1, Len(s))

U16(n) == <<(n \div 256) % 256, n % 256>>
U32(n) == <<(n \div 16777216) % 256, (n \div 65536) % 256, (n \div 256) % 256, n % 256>>
BeU16(s) == s[1] * 256 + s[2]

-----------------------------------------------------------------------------
(* Lengths                                                                 *)

\* write_packet_length
WritePacketLength(n) ==
    IF n < 192 THEN <<n>>
    ELSE IF n < 8384 THEN <<((n - 192) \div 256) + 192, (n - 192) % 256>>
    ELSE <<255>> \o U32(n)

\* packet_length: the octets of the length itself, and the length.  A length
\* that a 31 bit integer cannot hold is longer than any input.
LengthSize(s) ==
    LET size == CASE s = <<>> -> 1
                  [] s # <<>> /\ s[1] < 192 -> 1
                  [] s # <<>> /\ s[1] \in 192..254 -> 2
                  [] OTHER -> 5
    IN IF Len(s) < size THEN 0 ELSE size

PacketLength(s) ==
    CASE s[1] < 192 -> s[1]
      [] s[1] \in 192..254 -> (s[1] - 192) * 256 + 192 + s[2]
      [] OTHER -> IF s[2] > 127 THEN 2147483647
                  ELSE s[2] * 16777216 + s[3] * 65536 + s[4] * 256 + s[5]

-----------------------------------------------------------------------------
(* Multiprecision integers                                                 *)

\* strip_leading_zeros: an all zero slice is returned whole.
StripLeadingZeros(s) ==
    IF \A i \in DOMAIN s : s[i] = 0 THEN s ELSE Drop(s, SelectInSeq(s, LAMBDA o : o # 0) - 1)

\* bit_size
BitSize(s) ==
    IF s = <<>> THEN 0
    ELSE Len(s) * 8 - Cardinality({b \in 0..7 : s[1] < 2 ^ b})

MpiWriter(s) == U16(BitSize(s)) \o s

\* mpi: len_actual is in octets and never above MAX_EXTERN_MPI_BITS.
MpiSize(s) ==
    IF Len(s) < 2 THEN 0
    ELSE LET size == 2 + ((BeU16(s) + 7) \div 8) IN IF Len(s) < size THEN 0 ELSE size

MpiValue(s) == StripLeadingZeros(SubSeq(s, 3, MpiSize(s)))

=============================================================================
