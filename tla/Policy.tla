------------------------------- MODULE Policy -------------------------------
(***************************************************************************)
(* The certificate profile of path validation (policy/mod.rs).             *)
(*                                                                         *)
(* A certificate is the record of what the profile looks at:               *)
(*   subject, issuer          names; "empty" is the empty name             *)
(*   version                  2 for X.509 v3                               *)
(*   signature_alg, tbs_signature_alg                                      *)
(*   serial                   [octets, negative]                           *)
(*   not_before, not_after    [encoding, time]                             *)
(*   spki                     [algorithm, parses, is_rsa, rsa_parses,      *)
(*                             octets (the encoded modulus), key]          *)
(*   signed_by                the key its signature verifies under         *)
(*   exts                     its extensions, in order                     *)
(* A policy definition is a record [max_chain_depth, subject (a set of at  *)
(* most one name), validation_time, extended_key_usage, ca, ee].           *)
(***************************************************************************)
EXTENDS ExtensionPolicy

CONSTANTS
  SPKIAlgorithm,        \* WEBPKI_PERMITTED_SPKI_ALGORITHMS
  SignatureAlgorithm,   \* WEBPKI_PERMITTED_SIGNATURE_ALGORITHMS
  MinimumRSAModulus,    \* WEBPKI_MINIMUM_RSA_MODULUS, in bits
  TicksPerYear          \* granularity of the time scale

ASSUME PolicyAssumption ==
  MinimumRSAModulus \in Nat /\ TicksPerYear \in Nat \ {0}

Year(t) == t \div TicksPerYear

\* permits_validity_date
PermitsValidityDate(date) ==
  Check(~(date.encoding = "GeneralizedTime" /\ Year(date.time) \in 1950 .. 2049), "Other")

\* Policy::permits_basic
PermitsBasic(policy, cert) ==
     Check(cert.version = 2, "Other")
  && Check(cert.signature_alg = cert.tbs_signature_alg, "Other")
  && Check(cert.serial.octets \in 1 .. 21, "Other")
  && Check(~cert.serial.negative, "Other")
  && Check(cert.issuer # "empty", "Other")
  && PermitsValidityDate(cert.not_before)
  && PermitsValidityDate(cert.not_after)
  && Check(policy.validation_time \in cert.not_before.time .. cert.not_after.time, "Other")

\* The basicConstraints part of Policy::permits_ca
PermitsBasicConstraints_AnyCert(bc, depth) ==   \* mutant: cA is not looked at
  Parses(bc) && Check(\A len \in bc.value.path_length : depth <= len, "Other")

PermitsBasicConstraints(bc, depth) ==
     Parses(bc)
  && Check(\A len \in bc.value.path_length : depth <= len, "Other")
  && Check(bc.value.ca, "Other")

\* Policy::permits_ca
PermitsCA(policy, cert, depth) ==
     PermitsBasic(policy, cert)
  && Check(GetExtension(cert.exts, "basic_constraints") # {}, "ExtensionError")
  && PermitsBasicConstraints(
       CHOOSE bc \in GetExtension(cert.exts, "basic_constraints") : TRUE, depth)
  && ExtensionPolicyPermits(policy.ca, policy, cert)

\* permits_subject_alternative_name, with the parsing of the SAN before it
PermitsSubject(subject, cert) ==
  LET san == GetExtension(cert.exts, "subject_alternative_name")
  IN     Check(\A e \in san : e.form # "malformed", "Malformed")
      && Check(\E e \in san : SubjectMatches(subject, e.value), "Other")

\* Policy::permits_ee
PermitsEE(policy, cert) ==
     PermitsBasic(policy, cert)
  && (IF policy.subject = {} THEN Ok
      ELSE PermitsSubject(CHOOSE s \in policy.subject : TRUE, cert))
  && ExtensionPolicyPermits(policy.ee, policy, cert)

\* Policy::valid_issuer
ValidIssuer(policy, issuer, child, depth) ==
     PermitsCA(policy, issuer, depth)
  && Check(issuer.spki.algorithm \in SPKIAlgorithm, "Other")
  && Check(child.signature_alg \in SignatureAlgorithm, "Other")
  && Check(issuer.spki.parses, "Other")
  && Check(issuer.spki.is_rsa => issuer.spki.rsa_parses, "Malformed")
  && Check(issuer.spki.is_rsa => issuer.spki.octets * 8 >= MinimumRSAModulus, "Other")
  && Check(child.signed_by = issuer.spki.key, "Other")
=============================================================================
