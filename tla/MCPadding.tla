------------------------------ MODULE MCPadding ------------------------------
(***************************************************************************)
(* Padding with blocks of zero to three bytes, whose messages consist of   *)
(* zeros, of bytes that are pad sizes and of one that is none; and with    *)
(* blocks of 130 and of 255 bytes, where pad sizes have the highest bit    *)
(* set, and one byte that is a pad size.                                   *)
(***************************************************************************)
EXTENDS Padding

MCBlockSizes == {0, 8, 12, 16, 24, 1040, 2040, 2048}
MCAlphabet(b) == IF b < 4 THEN {0, 1, 2, 3, 255} ELSE {130}
=============================================================================
