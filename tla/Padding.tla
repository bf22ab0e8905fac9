------------------------------- MODULE Padding -------------------------------
(***************************************************************************)
(* PKCS#7 and ANSI X9.23 padding (padding.rs, primitives/padding.py): a    *)
(* padder that is given a message in pieces, and an unpadder that is given *)
(* what the padder returned, or bytes from elsewhere, in other pieces.     *)
(*                                                                         *)
(* The constant-time checks are the ones of the code, on the eight bits of *)
(* a byte.  A Rust panic reaches the caller as an exception and leaves the *)
(* object as it was when the panic happened.                               *)
(***************************************************************************)
EXTENDS Integers, Sequences, SequencesExt

CONSTANTS
  BlockSizes,           \* block sizes in bits that a caller asks for
  Alphabet(_),          \* the bytes that messages consist of, by block size in bytes
  MaxMessage,           \* bound: bytes of a message
  MaxForeign            \* bound: bytes of data that no padder made

ASSUME PaddingAssumption ==
  /\ BlockSizes \subseteq Nat /\ MaxMessage \in Nat /\ MaxForeign \in Nat
  /\ \A b \in BlockSizes : Alphabet(b \div 8) \subseteq 0 .. 255

VARIABLES
  algorithm,            \* "PKCS7" or "ANSIX923"
  block_size,           \* in bytes
  origin,               \* of the unpadder's data: "padder" or "elsewhere"
  length_seen,          \* of the padder: a set of one number, {} for None
  padded,               \* how its finalize ended: "open", "finalized", "panic"
  message,              \* what the padder was given
  wire,                 \* what the padder returned, or the data from elsewhere
  buffer,               \* of the unpadder: a set of one sequence, {} for None
  unpadded,             \* how its finalize ended: "open", "finalized", "ValueError", "panic"
  received,             \* how much of wire the unpadder was given
  plain,                \* what the unpadder returned
  outcome               \* how the last call ended

padderVars == << length_seen, padded, message, wire >>
unpadderVars == << buffer, unpadded, received, plain >>
paddingVars == << algorithm, block_size, origin, outcome, padderVars, unpadderVars >>

-----------------------------------------------------------------------------
(* The constant-time checks                                                *)

\* A byte as the set of the positions of its bits: or is \cup, and is \cap
Weight == << 1, 2, 4, 8, 16, 32, 64, 128 >>

Bits(n) == {i \in 0 .. 7 : (n \div Weight[i + 1]) % 2 = 1}

Xor(a, b) == (a \ b) \cup (b \ a)
ShiftRight(a, n) == {i \in 0 .. 7 : i + n \in a}

WrappingSub(a, b) == (a - b) % 256

\* 0 - (a >> 7)
duplicate_msb_to_all(a) == Bits(WrappingSub(0, IF 7 \in a THEN 1 ELSE 0))

constant_time_lt_Signed(a, b) == duplicate_msb_to_all(Bits(WrappingSub(a, b)))   \* mutant

constant_time_lt(a, b) ==
  duplicate_msb_to_all(Xor(Bits(a), Xor(Bits(a), Bits(b)) \cup Xor(Bits(WrappingSub(a, b)), Bits(b))))

\* The mismatches of a block: of each byte from the last one, and of the size
PadSize(data) == data[Len(data)]
FromEnd(data, i) == data[Len(data) - i]

BodyMismatch(a, data, i) ==
  constant_time_lt(i, PadSize(data)) \cap
    (IF a = "PKCS7" THEN Xor(Bits(PadSize(data)), Bits(FromEnd(data, i))) ELSE Bits(FromEnd(data, i)))

SizeMismatch(data) ==
  (0 .. 7 \ constant_time_lt(0, PadSize(data))) \cup constant_time_lt(Len(data), PadSize(data))

\* Any bit set is copied to the lowest one, which is then looked at
LowBit(m) ==
  LET m4 == m \cup ShiftRight(m, 4)
      m2 == m4 \cup ShiftRight(m4, 2)
  IN  0 \in m2 \cup ShiftRight(m2, 1)

\* check_pkcs7_padding and check_ansix923_padding, which leaves out the byte
\* that holds the size
CheckPadding(a, data) ==
  LET first == IF a = "PKCS7" THEN 0 ELSE 1 IN
  ~LowBit(SizeMismatch(data) \cup UNION {BodyMismatch(a, data, i) : i \in first .. Len(data) - 1})

-----------------------------------------------------------------------------
(* The contexts                                                            *)

\* _byte_padding_check
Acceptable(bits) == bits \in 0 .. 2040 /\ bits % 8 = 0

PaddingInit ==
  /\ algorithm \in {"PKCS7", "ANSIX923"}
  /\ \E bits \in {b \in BlockSizes : Acceptable(b)} : block_size = bits \div 8
  /\ length_seen = {0} /\ padded = "open"
  /\ buffer = {<< >>} /\ unpadded = "open"
  /\ \/ origin = "padder" /\ wire = << >>
     \/ origin = "elsewhere" /\ wire \in BoundedSeq(Alphabet(block_size), MaxForeign)
  /\ message = << >> /\ received = 0 /\ plain = << >>
  /\ outcome = "new"

AlreadyFinalized(option) == option = {} /\ outcome' = "AlreadyFinalized"

PadUpdate(data) ==
  /\ origin = "padder"
  /\ \/ \E seen \in length_seen :
          /\ Len(message) + Len(data) <= MaxMessage
          /\ length_seen' = {seen + Len(data)}
          /\ message' = message \o data
          /\ wire' = wire \o data
          /\ outcome' = "ok"
     \/ AlreadyFinalized(length_seen) /\ UNCHANGED << length_seen, message, wire >>
  /\ UNCHANGED << algorithm, block_size, origin, padded, unpadderVars >>

PadLength(seen) == block_size - (seen % block_size)

Pad(n) == [i \in 1 .. n |-> IF algorithm = "PKCS7" \/ i = n THEN n % 256 ELSE 0]

\* length_seen is taken first; a block size of zero divides by zero after that
PadFinalize ==
  /\ origin = "padder"
  /\ \/ \E seen \in length_seen :
          /\ length_seen' = {}
          /\ \/ block_size = 0 /\ padded' = "panic" /\ outcome' = "panic" /\ UNCHANGED wire
             \/ /\ block_size > 0
                /\ padded' = "finalized" /\ outcome' = "ok"
                /\ wire' = wire \o Pad(PadLength(seen))
     \/ AlreadyFinalized(length_seen) /\ UNCHANGED << length_seen, padded, wire >>
  /\ UNCHANGED << algorithm, block_size, origin, message, unpadderVars >>

\* The last whole block stays in the buffer, as it may be the padding
SaturatingSub(a, b) == IF a < b THEN 0 ELSE a - b

FinishedBlocks_All(n) == n \div block_size   \* mutant

FinishedBlocks(n) == SaturatingSub(n \div block_size, 1)

\* The buffer v after extend_from_slice and drain(..result_size)
Drain(v) ==
  LET result_size == FinishedBlocks(Len(v)) * block_size IN
  /\ buffer' = {SubSeq(v, result_size + 1, Len(v))}
  /\ plain' = plain \o SubSeq(v, 1, result_size)
  /\ outcome' = "ok"

UnpadUpdate(n) ==
  /\ \/ \E v \in buffer :
          /\ received' = received + n
          /\ LET extended == v \o SubSeq(wire, received + 1, received + n) IN
             \/ block_size = 0 /\ buffer' = {extended} /\ outcome' = "panic" /\ UNCHANGED plain
             \/ block_size > 0 /\ Drain(extended)
     \/ AlreadyFinalized(buffer) /\ UNCHANGED << buffer, received, plain >>
  /\ UNCHANGED << algorithm, block_size, origin, unpadded, padderVars >>

\* The buffer is taken first.  The checks are of a block at least: with a block
\* size of zero last().unwrap() of an empty buffer panics.
UnpadFinalize ==
  /\ \/ \E v \in buffer :
          /\ buffer' = {}
          /\ \/ /\ Len(v) # block_size
                /\ unpadded' = "ValueError" /\ outcome' = "ValueError" /\ UNCHANGED plain
             \/ /\ Len(v) = block_size /\ block_size = 0
                /\ unpadded' = "panic" /\ outcome' = "panic" /\ UNCHANGED plain
             \/ /\ Len(v) = block_size /\ block_size > 0 /\ ~CheckPadding(algorithm, v)
                /\ unpadded' = "ValueError" /\ outcome' = "ValueError" /\ UNCHANGED plain
             \/ /\ Len(v) = block_size /\ block_size > 0 /\ CheckPadding(algorithm, v)
                /\ unpadded' = "finalized" /\ outcome' = "ok"
                /\ plain' = plain \o SubSeq(v, 1, Len(v) - PadSize(v))
     \/ AlreadyFinalized(buffer) /\ UNCHANGED << buffer, unpadded, plain >>
  /\ UNCHANGED << algorithm, block_size, origin, received, padderVars >>

PaddingNext ==
  \/ \E data \in BoundedSeq(Alphabet(block_size), MaxMessage) : PadUpdate(data)
  \/ PadFinalize
  \/ \E n \in 0 .. Len(wire) - received : UnpadUpdate(n)
  \/ UnpadFinalize

PaddingSpec == PaddingInit /\ [][PaddingNext]_paddingVars

-----------------------------------------------------------------------------
(* Properties                                                              *)

\* The padding that the standards define for n missing bytes
Padding(n) == [i \in 1 .. n |-> IF algorithm = "PKCS7" \/ i = n THEN n ELSE 0]

Received == SubSeq(wire, 1, received)

\* The unpadder never returns a byte that may be padding and never keeps a byte
\* that cannot be: whatever the pieces it was given, it holds the last block
\* and what follows it, and has returned everything before
HoldsLastBlock ==
  \A v \in buffer :
    /\ plain \o v = Received
    /\ block_size > 0 => /\ Len(v) < 2 * block_size
                         /\ Len(v) >= block_size \/ plain = << >>

\* Data is accepted exactly if it consists of whole blocks and ends in the
\* padding of one to a block's worth of bytes, which is what is removed
AcceptsWellPadded ==
  unpadded \in {"finalized", "ValueError"} /\ block_size > 0 =>
    LET Ends == {n \in 1 .. block_size : IsSuffix(Padding(n), Received)} IN
    /\ unpadded = "finalized" <=> received % block_size = 0 /\ Ends # {}
    /\ unpadded = "finalized" => \E n \in Ends : plain \o Padding(n) = Received

\* A message that was padded in any pieces and unpadded in any others comes
\* back, and its padded form is whole blocks
RoundTrip ==
  padded = "finalized" =>
    /\ Len(wire) % block_size = 0
    /\ received = Len(wire) /\ buffer = {} => unpadded = "finalized" /\ plain = message

\* The streaming unpadder agrees with the definition of the two paddings, and
\* undoes what the padder did
PaddingCorrect == AcceptsWellPadded /\ RoundTrip
=============================================================================
