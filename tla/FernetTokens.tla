---------------------------- MODULE FernetTokens ----------------------------
(***************************************************************************)
(* Fernet tokens (fernet.py): how one is made, read and checked.  A key is *)
(* [sign, enc], its two halves; a token is [shape, ts, iv, ct, mac].  The  *)
(* ciphertext and the MAC are what they were computed from.                *)
(***************************************************************************)
EXTENDS Integers, Sequences

CONSTANTS
  Nil,                  \* None
  Keys,                 \* generated, so that no two share a half
  TimeBits,             \* 64: a timestamp is eight bytes
  MAX_CLOCK_SKEW        \* 60

ASSUME FernetTokensAssumption ==
  /\ \A a, b \in Keys : a.sign = b.sign => a = b
  /\ TimeBits \in Nat /\ MAX_CLOCK_SKEW \in Nat

\* The ciphertexts, MACs and tokens there can be of messages in M
Ciphertexts(M) == [enc : {k.enc : k \in Keys}, iv : Nat, data : M]
Macs(M) == [sign : {k.sign : k \in Keys}, ts : Int, iv : Nat, ct : Ciphertexts(M)]
Tokens(M) ==
  [shape : {"token", "other"}, ts : Int, iv : Nat, ct : Ciphertexts(M), mac : Macs(M)]

Mac(key, ts, iv, ct) == [sign |-> key.sign, ts |-> ts, iv |-> iv, ct |-> ct]

encrypt_from_parts(key, data, ts, iv) ==
  LET ct == [enc |-> key.enc, iv |-> iv, data |-> data]
  IN  [shape |-> "token", ts |-> ts, iv |-> iv, ct |-> ct, mac |-> Mac(key, ts, iv, ct)]

\* int.to_bytes(length=8) raises OverflowError for any other time
Representable(t) == t >= 0 /\ t < 2 ^ TimeBits

\* Not base64, another first byte, or shorter than a timestamp
get_unverified_token_data(token) == token.shape = "token"

verify_signature(key, token) == token.mac = Mac(key, token.ts, token.iv, token.ct)

InTime_NoSkew(ts, ttl, now) == ttl = Nil \/ ts + ttl >= now   \* mutant
InTime(ts, ttl, now) ==
  IF ttl = Nil THEN TRUE ELSE ts + ttl >= now /\ now + MAX_CLOCK_SKEW >= ts

InvalidToken == [error |-> "InvalidToken", v |-> Nil]
Found(v) == [error |-> "ok", v |-> v]

\* The time is checked before the MAC.  With another key or another iv, the
\* padding is wrong.
decrypt_data(key, token, ttl, now) ==
  IF /\ InTime(token.ts, ttl, now) /\ verify_signature(key, token)
     /\ token.ct.enc = key.enc /\ token.ct.iv = token.iv
  THEN Found(token.ct.data) ELSE InvalidToken

decrypt(key, token, ttl, now) ==
  IF get_unverified_token_data(token) THEN decrypt_data(key, token, ttl, now) ELSE InvalidToken

extract_timestamp(key, token) ==
  IF get_unverified_token_data(token) /\ verify_signature(key, token)
  THEN Found(token.ts) ELSE InvalidToken
=============================================================================
