------------------------------ MODULE PkiData ------------------------------
(***************************************************************************)
(* Constructors for the certificates of the small instances, and the       *)
(* values of the constants the instances of path validation share.         *)
(***************************************************************************)
EXTENDS Integers, Sequences

Extension(oid, critical, form, value) ==
  [oid |-> oid, critical |-> critical, form |-> form, value |-> value]

BC(ca, len) ==
  Extension("basic_constraints", TRUE, "ok", [ca |-> ca, path_length |-> len])
KU(sign) == Extension("key_usage", FALSE, "ok", [key_cert_sign |-> sign])
AKI == Extension("authority_key_identifier", FALSE, "ok", [key_identifier |-> TRUE])
SAN(names) == Extension("subject_alternative_name", FALSE, "ok", names)
BadSAN == Extension("subject_alternative_name", FALSE, "malformed", << >>)
NC(p, e) == Extension("name_constraints", TRUE, "ok", [permitted |-> p, excluded |-> e])
BadNC == Extension("name_constraints", TRUE, "malformed", [permitted |-> << >>, excluded |-> << >>])

P256(key) ==
  [algorithm |-> "secp256r1", parses |-> TRUE, is_rsa |-> FALSE, rsa_parses |-> FALSE,
   octets |-> 0, key |-> key]

\* A certificate that permits_basic accepts in 2025
MkCert(subject, issuer, key, signer, exts) ==
  [ subject |-> subject, issuer |-> issuer, version |-> 2,
    signature_alg |-> "ecdsa_sha256", tbs_signature_alg |-> "ecdsa_sha256",
    serial |-> [octets |-> 8, negative |-> FALSE],
    not_before |-> [encoding |-> "UtcTime", time |-> 2024],
    not_after  |-> [encoding |-> "UtcTime", time |-> 2026],
    spki |-> P256(key), signed_by |-> signer, exts |-> exts ]

MkCA(subject, issuer, key, signer, len, more) ==
  MkCert(subject, issuer, key, signer, << BC(TRUE, len), KU(TRUE) >> \o more)

DNS(labels) == [type |-> "DNSName", value |-> labels]
IP(bits) == [type |-> "IPAddress", value |-> bits]
Mail(local, domain) ==
  [type |-> "RFC822Name",
   value |-> [dotted |-> FALSE, at |-> TRUE, local |-> local, domain |-> domain]]
Directory == [type |-> "DirectoryName", value |-> << >>]

MCLabel == {"com", "foo", "FOO", "bar", "*", "-", ""}
MCLabelLen ==
  [l \in MCLabel |-> IF l = "" THEN 0 ELSE IF l \in {"*", "-"} THEN 1 ELSE 3]
MCFold == [l \in MCLabel |-> IF l = "FOO" THEN "foo" ELSE l]
MCHostLabel == {"com", "foo", "FOO", "bar"}
MCAtomLabel == {"com", "foo", "FOO", "bar", "*", "-"}
MCSPKIAlgorithm == {"rsa", "secp256r1"}
MCSignatureAlgorithm == {"ecdsa_sha256", "rsa_pkcs1v15_sha256"}
=============================================================================
