------------------------ MODULE SignatureAlgorithms ------------------------
(***************************************************************************)
(* How X.509 documents are signed and checked (x509/sign.rs): the          *)
(* algorithm identifier that is computed from a key, a hash and a padding, *)
(* the call that signs with them, and the way back from an identifier to   *)
(* the arguments of verify().  An identifier is [scheme, hash, mgf, salt]. *)
(***************************************************************************)
EXTENDS Signatures

CONSTANTS
  SigningHashes,        \* the SHA-2 and SHA-3 families
  Sha3,                 \* the SHA-3 family
  NotAHash              \* an argument that is no HashAlgorithm

Errors == {"TypeError", "ValueError", "UnsupportedAlgorithm"}

\* Exceptions, None and the salt lengths that are no numbers are told apart from
\* hashes and from numbers
ASSUME SignatureAlgorithmsAssumption ==
  /\ Sha3 \subseteq SigningHashes /\ SigningHashes \subseteq DOMAIN DigestSize
  /\ NotAHash \notin DOMAIN DigestSize
  /\ \A h \in DOMAIN DigestSize \cup {Nil} : h \notin Errors
  /\ \A s \in {AutoLength, MaxLength, DigestLength} : s \notin Int

Hashed == {"Rsa", "Dsa", "Ec"}
Edwards == {"Ed25519", "Ed448"}
KeyType == Hashed \cup Edwards

\* A key is [type, id]; identify_public_key_type does the same for public keys
identify_key_type(key) == IF key.type \in KeyType THEN key.type ELSE "TypeError"

identify_hash_type(h) ==
  IF h = NotAHash THEN "TypeError"
  ELSE IF h \in SigningHashes \cup {Nil} THEN "ok" ELSE "UnsupportedAlgorithm"

AlgorithmIdentifier(scheme, hash, mgf, salt) ==
  [error |-> "ok", scheme |-> scheme, hash |-> hash, mgf |-> mgf, salt |-> salt]

Salt(length) == [error |-> "ok", length |-> length]

compute_pss_salt_length_NoDigest(hash, padding) ==   \* mutant
  IF padding.salt \in {MaxLength, DigestLength} THEN Salt(EmLen - DigestSize[hash] - 2)
  ELSE IF padding.salt = AutoLength THEN Failed("TypeError") ELSE Salt(padding.salt)

\* A length that is no number, and not one of the two that can be computed
\* before signing, has no place in an identifier
compute_pss_salt_length(hash, padding) ==
  IF padding.salt = MaxLength
  THEN IF EmLen < DigestSize[hash] + 2 THEN Failed("AssertionError") ELSE Salt(EmLen - DigestSize[hash] - 2)
  ELSE IF padding.salt = DigestLength THEN Salt(DigestSize[hash])
  ELSE IF padding.salt = AutoLength THEN Failed("TypeError") ELSE Salt(padding.salt)

PssAlgorithm(hash, padding) ==
  LET salt == compute_pss_salt_length(hash, padding)
      mgf == identify_hash_type(padding.mgf)
  IN  IF hash = Nil THEN Failed("TypeError")
      ELSE IF salt.error # "ok" THEN salt
      ELSE IF mgf # "ok" THEN Failed(mgf)
      ELSE AlgorithmIdentifier("RsaPss", hash, padding.mgf, salt.length)

compute_signature_algorithm(key, hash, padding) ==
  LET type == identify_key_type(key)
      known == identify_hash_type(hash)
  IN  IF type = "TypeError" THEN Failed(type)
      ELSE IF known # "ok" THEN Failed(known)
      ELSE IF padding # Nil /\ padding.name = "PSS" THEN PssAlgorithm(hash, padding)
      ELSE IF type \in Edwards
      THEN IF hash = Nil THEN AlgorithmIdentifier(type, Nil, Nil, Nil) ELSE Failed("ValueError")
      ELSE IF hash = Nil THEN Failed("TypeError")
      ELSE IF type = "Dsa" /\ hash \in Sha3 THEN Failed("UnsupportedAlgorithm")
      ELSE AlgorithmIdentifier(type, hash, Nil, Nil)

PKCS1v15 == [name |-> "PKCS1v15", salt |-> Nil, mgf |-> Nil]
Using(hash) == [hash |-> hash, prehashed |-> FALSE]

sign_data(key, hash, padding, data) ==
  CASE key.type \in Edwards -> EdSign(key, data)
    [] key.type = "Ec" -> EcSign(key, data, "ECDSA", Using(hash))
    [] key.type = "Rsa" ->
         RsaSign(key, data, IF padding = Nil THEN PKCS1v15 ELSE padding, Using(hash))
    [] key.type = "Dsa" -> DsaSign(key, data, Using(hash))

-----------------------------------------------------------------------------
(* From an identifier back to the arguments of verify()                    *)

\* SHA-1 is read in a document, never verified
identify_key_type_for_algorithm_params(alg) ==
  IF alg.scheme = "RsaPss" THEN "Rsa"
  ELSE IF alg.scheme \in Edwards THEN alg.scheme
  ELSE IF /\ alg.scheme \in Hashed /\ alg.hash \in SigningHashes
          /\ ~(alg.scheme = "Dsa" /\ alg.hash \in Sha3)
  THEN alg.scheme ELSE "ValueError"

\* Of the DSA identifiers, the table of _oid.py has three
SIG_OIDS_TO_HASH(alg) ==
  IF \/ alg.scheme \notin KeyType
     \/ alg.scheme = "Dsa" /\ alg.hash \notin {"sha1", "sha224", "sha256"}
  THEN "UnsupportedAlgorithm" ELSE alg.hash

hash_oid_py_hash(hash) == IF hash \in DOMAIN DigestSize THEN hash ELSE "UnsupportedAlgorithm"

\* Of an RSA-PSS identifier without parameters, all of them are Nil
identify_signature_hash_algorithm(alg) ==
  IF alg.scheme = "RsaPss" THEN IF alg.hash = Nil THEN "ValueError" ELSE hash_oid_py_hash(alg.hash)
  ELSE SIG_OIDS_TO_HASH(alg)

identify_signature_algorithm_parameters(alg) ==
  IF alg.scheme = "RsaPss"
  THEN IF alg.hash = Nil \/ alg.mgf = Nil THEN [name |-> "ValueError"]
       ELSE IF hash_oid_py_hash(alg.mgf) # alg.mgf THEN [name |-> "UnsupportedAlgorithm"]
       ELSE [name |-> "PSS", salt |-> alg.salt, mgf |-> alg.mgf]
  ELSE IF alg.scheme = "Rsa" THEN PKCS1v15
  ELSE IF alg.scheme = "Ec" THEN [name |-> "ECDSA", hash |-> alg.hash]
  ELSE [name |-> "None"]

verify_signature_with_signature_algorithm(key, alg, sig, data) ==
  LET type == identify_key_type(key)
      padding == identify_signature_algorithm_parameters(alg)
      hash == identify_signature_hash_algorithm(alg)
  IN  IF type = "TypeError" THEN type
      ELSE IF identify_key_type_for_algorithm_params(alg) # type THEN "ValueError"
      ELSE IF padding.name \in Errors THEN padding.name
      ELSE IF hash \in Errors THEN hash
      ELSE CASE type \in Edwards -> EdVerify(key, sig, data)
             [] type = "Ec" -> EcVerify(key, sig, data, padding.name, Using(padding.hash))
             [] type = "Rsa" -> RsaVerify(key, sig, data, padding, Using(hash))
             [] type = "Dsa" -> DsaVerify(key, sig, data, Using(hash))
=============================================================================
