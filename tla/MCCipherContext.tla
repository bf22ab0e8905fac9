-------------------------- MODULE MCCipherContext --------------------------
(***************************************************************************)
(* Cipher contexts with blocks of two bytes, chunks of three, a limit of   *)
(* five bytes of data and two of additional data.                          *)
(***************************************************************************)
EXTENDS CipherContext

MCTags == {[len |-> n, right |-> r] : n \in {3, 12, 16, 17}, r \in BOOLEAN}
MCSealed == [aad |-> 1, data |-> 4]
MCLengths == {0, 1, 2, 4}

MCConfigs ==
  [mode : {"CBC", "CTR", "ChaCha20", "XTS"}, side : {"encrypt", "decrypt"},
   tag : {{}}, min_tag_length : {16}]
  \cup
  [mode : {"GCM"}, side : {"encrypt", "decrypt"},
   tag : {{}} \cup {{t} : t \in MCTags}, min_tag_length : {3, 12, 16}]

\* The contexts of one block mode, to compare with the documentation
MCBlockConfigs == {c \in MCConfigs : c.mode = "CBC"}
=============================================================================
