----------------------------- MODULE Signatures -----------------------------
(***************************************************************************)
(* Signing, verifying, encrypting and decrypting with asymmetric keys      *)
(* (rsa.rs, dsa.rs, ec.rs, ed25519.rs, utils.rs): how the arguments are    *)
(* checked and turned into the settings of an OpenSSL context.  A hash is  *)
(* a name with a size; a digest is [hash, of]; a signature is the context  *)
(* that made it with the digest that was signed.                           *)
(***************************************************************************)
EXTENDS ByteNumbers

CONSTANTS
  DigestSize,           \* of a hash
  OaepHashes,           \* sha1, sha224, sha256, sha384, sha512
  KeyBits,              \* the length of an RSA modulus
  BitsPerByte,          \* 8
  V15Overhead,          \* 11, the bytes that PKCS1v15 encryption adds at least
  AutoLength, MaxLength, DigestLength    \* the salt lengths that are no numbers

ASSUME SignaturesAssumption ==
  /\ \A h \in DOMAIN DigestSize : DigestSize[h] \in Nat
  /\ OaepHashes \subseteq DOMAIN DigestSize
  /\ KeyBits \in Nat /\ BitsPerByte \in Nat \ {0} /\ V15Overhead \in Nat

Digest(hash, data) == [hash |-> hash, of |-> data]

\* A prehashed argument is used as it is, provided its length fits; the data of
\* a prehashed call is a digest
calculate_digest_and_algorithm(data, algorithm) ==
  IF ~algorithm.prehashed THEN Digest(algorithm.hash, data)
  ELSE IF DigestSize[data.hash] # DigestSize[algorithm.hash] THEN Nil
  ELSE data

\* PKey::size, and the length of an encoded PSS message
KeySize == (KeyBits + BitsPerByte - 1) \div BitsPerByte
EmLen == (KeyBits - 1 + BitsPerByte - 1) \div BitsPerByte

-----------------------------------------------------------------------------
(* RSA signatures                                                          *)

Failed(e) == [error |-> e]
Settings(padding, hash, salt, mgf) ==
  [error |-> "ok", padding |-> padding, hash |-> hash, salt |-> salt, mgf |-> mgf]

DigestTooLarge(hash) == DigestSize[hash] + 2 > KeySize

setup_signature_ctx_DefaultMgf(padding, hash, is_signing) ==   \* mutant
  IF padding.name = "PKCS1v15" THEN Settings("PKCS1v15", hash, Nil, Nil)
  ELSE IF padding.name # "PSS" THEN Failed("UnsupportedAlgorithm")
  ELSE IF DigestTooLarge(hash) THEN Failed("ValueError")
  ELSE IF padding.salt = AutoLength /\ is_signing THEN Failed("ValueError")
  ELSE Settings("PSS", hash, padding.salt, hash)

setup_signature_ctx(padding, hash, is_signing) ==
  IF padding.name = "other" THEN Failed("TypeError")
  ELSE IF padding.name = "PKCS1v15" THEN Settings("PKCS1v15", hash, Nil, Nil)
  ELSE IF padding.name # "PSS" THEN Failed("UnsupportedAlgorithm")
  ELSE IF padding.mgf = Nil THEN Failed("UnsupportedAlgorithm")
  ELSE IF hash = Nil THEN Failed("TypeError")
  ELSE IF DigestTooLarge(hash) THEN Failed("ValueError")
  ELSE IF padding.salt = AutoLength /\ is_signing THEN Failed("ValueError")
  ELSE Settings("PSS", hash, padding.salt, padding.mgf)

\* The length of the salt that OpenSSL uses; a message has room for the digest,
\* the salt and two bytes
SaltLength(ctx) ==
  IF ctx.salt = MaxLength THEN IF EmLen < DigestSize[ctx.hash] + 2 THEN Nil
                                 ELSE EmLen - DigestSize[ctx.hash] - 2
  ELSE IF ctx.salt = DigestLength THEN DigestSize[ctx.hash] ELSE ctx.salt

Fits(ctx, digest) ==
  /\ DigestSize[digest.hash] = DigestSize[ctx.hash]
  /\ ctx.padding = "PSS" =>
       SaltLength(ctx) # Nil /\ DigestSize[ctx.hash] + SaltLength(ctx) + 2 <= EmLen

Signature(key, ctx, digest) ==
  [error |-> "ok", key |-> key, padding |-> ctx.padding, hash |-> ctx.hash, digest |-> digest,
   salt |-> IF ctx.padding = "PSS" THEN SaltLength(ctx) ELSE Nil, mgf |-> ctx.mgf]

RsaSign(key, data, padding, algorithm) ==
  LET digest == calculate_digest_and_algorithm(data, algorithm)
      ctx == setup_signature_ctx(padding, algorithm.hash, TRUE)
  IN  IF digest = Nil THEN Failed("ValueError")
      ELSE IF ctx.error # "ok" THEN ctx
      ELSE IF Fits(ctx, digest) THEN Signature(key, ctx, digest) ELSE Failed("ValueError")

\* EVP_PKEY_verify
OpensslVerifies(key, ctx, digest, sig) ==
  /\ sig.error = "ok" /\ sig.key = key /\ sig.digest = digest
  /\ sig.padding = ctx.padding /\ sig.hash = ctx.hash /\ sig.mgf = ctx.mgf
  /\ ctx.padding = "PSS" /\ ctx.salt # AutoLength => sig.salt = SaltLength(ctx)

RsaVerify(key, sig, data, padding, algorithm) ==
  LET digest == calculate_digest_and_algorithm(data, algorithm)
      ctx == setup_signature_ctx(padding, algorithm.hash, FALSE)
  IN  IF digest = Nil THEN "ValueError"
      ELSE IF ctx.error # "ok" THEN ctx.error
      ELSE IF OpensslVerifies(key, ctx, digest, sig) THEN "ok" ELSE "InvalidSignature"

\* Without an algorithm, the digest is recovered with its DigestInfo
RecoverData(key, sig, padding, algorithm) ==
  LET ctx == setup_signature_ctx(padding, algorithm.hash, FALSE)
  IN  IF algorithm.prehashed THEN Failed("TypeError")
      ELSE IF ctx.error # "ok" THEN ctx
      ELSE IF /\ ctx.padding = "PKCS1v15" /\ sig.key = key /\ sig.padding = "PKCS1v15"
              /\ algorithm.hash \in {Nil, sig.hash}
      THEN [error |-> "ok", digest |-> sig.digest, info |-> algorithm.hash = Nil]
      ELSE Failed("InvalidSignature")

-----------------------------------------------------------------------------
(* RSA encryption                                                          *)

setup_encryption_ctx_NoLabel(padding) ==   \* mutant
  IF padding.name = "PKCS1v15" THEN Settings("PKCS1v15", Nil, Nil, Nil)
  ELSE IF padding.name # "OAEP" \/ {padding.mgf, padding.hash} \cap OaepHashes = {} THEN Failed("UnsupportedAlgorithm")
  ELSE Settings("OAEP", padding.hash, Nil, padding.mgf)

setup_encryption_ctx(padding) ==
  IF padding.name = "other" THEN Failed("TypeError")
  ELSE IF padding.name = "PKCS1v15" THEN Settings("PKCS1v15", Nil, Nil, Nil)
  ELSE IF padding.name # "OAEP" \/ padding.mgf = Nil THEN Failed("UnsupportedAlgorithm")
  ELSE IF padding.mgf \notin OaepHashes \/ padding.hash \notin OaepHashes
  THEN Failed("UnsupportedAlgorithm")
  ELSE Settings("OAEP", padding.hash, IF padding.label = << >> THEN Nil ELSE padding.label, padding.mgf)

\* Bytes that OpenSSL needs for the padding
Overhead(ctx) == IF ctx.padding = "OAEP" THEN 2 * DigestSize[ctx.hash] + 2 ELSE V15Overhead

RsaEncrypt(key, plaintext, padding) ==
  LET ctx == setup_encryption_ctx(padding)
  IN  IF ctx.error # "ok" THEN ctx
      ELSE IF plaintext.len + Overhead(ctx) > KeySize THEN Failed("ValueError")
      ELSE [error |-> "ok", key |-> key, ctx |-> ctx, plaintext |-> plaintext, len |-> KeySize]

Decrypted(plaintext) == [error |-> "ok", plaintext |-> plaintext]

\* What decrypt may return.  From version 3.2 on OpenSSL answers a PKCS1v15
\* ciphertext whose padding is wrong with bytes it makes up from the key and the
\* ciphertext, here Nil (implicit rejection); before, it fails, unless the
\* padding is right by chance.  A ciphertext for another key may also be too
\* large a number for this one.
RsaDecrypt(key, c, padding) ==
  LET ctx == setup_encryption_ctx(padding)
  IN  IF c.len # KeySize THEN {Failed("ValueError")}
      ELSE IF ctx.error # "ok" THEN {ctx}
      ELSE IF c.key = key /\ c.ctx = ctx THEN {Decrypted(c.plaintext)}
      ELSE IF ctx.padding = "PKCS1v15" THEN {Failed("ValueError"), Decrypted(Nil)}
      ELSE {Failed("ValueError")}

-----------------------------------------------------------------------------
(* DSA, ECDSA and EdDSA                                                    *)

Plain(hash) == [error |-> "ok", padding |-> Nil, hash |-> hash, salt |-> Nil, mgf |-> Nil]

\* DSA and ECDSA sign the digest and not the name of its hash
DsaSign(key, data, algorithm) ==
  LET digest == calculate_digest_and_algorithm(data, algorithm)
  IN  IF digest = Nil THEN Failed("ValueError") ELSE Signature(key, Plain(Nil), digest)

DsaVerify(key, sig, data, algorithm) ==
  LET digest == calculate_digest_and_algorithm(data, algorithm)
  IN  IF digest = Nil THEN "ValueError"
      ELSE IF OpensslVerifies(key, Plain(Nil), digest, sig) THEN "ok" ELSE "InvalidSignature"

\* The nonce, drawn or derived, is no part of what a signature is about
EcSign(key, data, signature_algorithm, algorithm) ==
  LET digest == calculate_digest_and_algorithm(data, algorithm)
  IN  IF signature_algorithm # "ECDSA" THEN Failed("UnsupportedAlgorithm")
      ELSE IF digest = Nil THEN Failed("ValueError") ELSE Signature(key, Plain(Nil), digest)

EcVerify(key, sig, data, signature_algorithm, algorithm) ==
  LET digest == calculate_digest_and_algorithm(data, algorithm)
  IN  IF signature_algorithm # "ECDSA" THEN "UnsupportedAlgorithm"
      ELSE IF digest = Nil THEN "ValueError"
      ELSE IF OpensslVerifies(key, Plain(Nil), digest, sig) THEN "ok" ELSE "InvalidSignature"

EdSign(key, data) == Signature(key, Plain(Nil), data)
EdVerify(key, sig, data) ==
  IF OpensslVerifies(key, Plain(Nil), data, sig) THEN "ok" ELSE "InvalidSignature"
=============================================================================
