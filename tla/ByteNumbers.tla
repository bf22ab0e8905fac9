---------------------------- MODULE ByteNumbers ----------------------------
(***************************************************************************)
(* Numbers as big-endian bytes, with bytes of a few bits: what int.to_bytes *)
(* and int.from_bytes do, and the length that keeps the top bit clear; and  *)
(* Python's None, the value of a field or an argument that is not there.    *)
(***************************************************************************)
EXTENDS Integers, Sequences

CONSTANTS
  Nil,                  \* None
  ByteBits,             \* 8
  MaxBits               \* numbers have at most this many bits

ASSUME ByteNumbersAssumption == ByteBits \in Nat \ {0, 1} /\ MaxBits \in Nat

\* Powers of two
Two[n \in Nat] == IF n = 0 THEN 1 ELSE 2 * Two[n - 1]

Byte == Two[ByteBits]

\* int.bit_length, BN_num_bits
BitLength(v) == CHOOSE n \in 0 .. MaxBits : v < Two[n] /\ (n = 0 \/ Two[n - 1] <= v)

\* Big-endian bytes
ToBytes(v, n) == [i \in 1 .. n |-> (v \div Two[ByteBits * (n - i)]) % Byte]

FromBytes(s) ==
  LET value[i \in 0 .. Len(s)] == IF i = 0 THEN 0 ELSE value[i - 1] * Byte + s[i]
  IN  value[Len(s)]

\* Number of bytes with a clear top bit
SignedLength(v) == BitLength(v) \div ByteBits + 1

\* asn1::BigUint::new: the shortest encoding of a number that is not negative
IsBigUint(s) ==
  /\ s # << >> /\ s[1] < Byte \div 2
  /\ Len(s) > 1 => ~(s[1] = 0 /\ s[2] < Byte \div 2)
=============================================================================
