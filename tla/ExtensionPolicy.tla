-------------------------- MODULE ExtensionPolicy --------------------------
(***************************************************************************)
(* The extension policies of path validation (policy/extension.rs): which  *)
(* extensions a certificate may, must or must not carry, with which        *)
(* criticality, and the validators run over their contents; and the        *)
(* set-once builder Python code uses to change them                        *)
(* (x509/verify/extension_policy.rs).                                      *)
(*                                                                         *)
(* An extension is a record [oid, critical, form, value].  Its form tells  *)
(* what parsing it does: "ok"; "malformed" (extn.value() fails); or        *)
(* "unconvertible" (the DER parses, parse_cert_ext cannot make a Python    *)
(* object of it).  An optional field is a set of at most one element.      *)
(***************************************************************************)
EXTENDS NameTypes, SequencesExt

\* The verdict of a check: Ok, or the kind of its ValidationError
Ok == "Ok"
ErrorKind == {"CandidatesExhausted", "Malformed", "ExtensionError", "FatalError", "Other"}
Verdicts == {Ok} \cup ErrorKind

Check(cond, kind) == IF cond THEN Ok ELSE kind

\* The "?" of Rust: the second check runs only when the first returned Ok.  (The
\* set gives the value of a a name, so that TLC evaluates it once.)
a && b == CHOOSE v \in {IF u = Ok THEN b ELSE u : u \in {a}} : TRUE

\* The extensions ExtensionPolicy has a field for, in the order in which the
\* absent ones are checked
OIDOrder == << "authority_information_access", "authority_key_identifier",
               "subject_key_identifier", "key_usage", "subject_alternative_name",
               "basic_constraints", "name_constraints", "extended_key_usage" >>

OID == ToSet(OIDOrder)

AnyEKU == "EKU_ANY_KEY_USAGE"

IsTuple(s) == Len(s) \in Nat /\ DOMAIN s = 1 .. Len(s)

-----------------------------------------------------------------------------
(* cryptography-x509: Extensions                                           *)

\* Extensions::from_raw_extensions returns DuplicateExtensionsError
HasDuplicates(exts) == \E i, j \in DOMAIN exts : i < j /\ exts[i].oid = exts[j].oid

\* Extensions::get_extension: the extension, in a set
GetExtension(exts, oid) == {exts[i] : i \in {j \in DOMAIN exts : exts[j].oid = oid}}

-----------------------------------------------------------------------------
(* Validators over the contents of an extension                            *)

\* Criticality::permits
CriticalityPermits(criticality, critical) ==
  \/ criticality = "Agnostic"
  \/ criticality = "Critical" /\ critical
  \/ criticality = "NonCritical" /\ ~critical

\* extn.value()?
Parses(ext) == Check(ext.form # "malformed", "Malformed")

\* invoke_py_validator_callback, a callback being named for how it ends
PyValidator == {"py::returns_none", "py::returns_value", "py::raises"}

InvokePyCallback(v) == Check(v = "py::returns_none", "Other")

\* A validator applied to an extension that is present.  policy is what the
\* validators look at in it: [extended_key_usage].
RunValidator(v, policy, cert, ext) ==
  CASE v = "none" -> Ok
    [] v = "common::authority_information_access" -> Parses(ext)
    [] v = "ca::authority_key_identifier" ->
         Parses(ext) && Check(ext.value.key_identifier, "Other")
    [] v = "ca::key_usage" ->
         Parses(ext) && Check(ext.value.key_cert_sign, "Other")
    [] v = "ca::name_constraints" ->
         Parses(ext) && Check(ext.value.permitted # << >> \/ ext.value.excluded # << >>, "Other")
    [] v = "ca::extended_key_usage" ->
         Parses(ext) && Check({policy.extended_key_usage, AnyEKU} \cap ext.value # {}, "Other")
    [] v = "ee::basic_constraints" ->
         Parses(ext) && Check(~ext.value.ca, "Other")
    [] v = "ee::subject_alternative_name" ->
         Check(ext.critical = (cert.subject = "empty"), "Other")
    [] v = "ee::extended_key_usage" ->
         Parses(ext) && Check(policy.extended_key_usage \in ext.value, "Other")
    [] v = "ee::key_usage" ->
         Parses(ext) && Check(~ext.value.key_cert_sign, "Other")
    [] OTHER ->   \* a Python callback
         Check(ext.form = "ok", "Other") && InvokePyCallback(v)

\* A validator called with None: only the Python ones look
RunValidatorOnNone(v) == IF v \in PyValidator THEN InvokePyCallback(v) ELSE Ok

-----------------------------------------------------------------------------
(* ExtensionValidator: [presence, criticality, validator]                  *)

NotPresent == [presence |-> "NotPresent", criticality |-> "Agnostic", validator |-> "none"]
Present(c, v) == [presence |-> "Present", criticality |-> c, validator |-> v]
MaybePresent(c, v) == [presence |-> "MaybePresent", criticality |-> c, validator |-> v]

\* ExtensionValidator::permits with Some(extn)
ValidatorPermits(val, policy, cert, ext) ==
     Check(val.presence # "NotPresent", "ExtensionError")
  && Check(CriticalityPermits(val.criticality, ext.critical), "ExtensionError")
  && RunValidator(val.validator, policy, cert, ext)

\* ExtensionValidator::permits with None
ValidatorPermitsNone(val) ==
     Check(val.presence # "Present", "ExtensionError")
  && RunValidatorOnNone(val.validator)

\* The first check of a sequence of verdicts that fails
FirstError(verdicts) ==
  IF \A i \in DOMAIN verdicts : verdicts[i] = Ok THEN Ok
  ELSE verdicts[CHOOSE i \in DOMAIN verdicts :
                  verdicts[i] # Ok /\ \A j \in 1 .. i - 1 : verdicts[j] = Ok]

\* An extension of the certificate that the policy has no field for
PermitsUnaccounted_Any(ext) == Ok   \* mutant

PermitsUnaccounted(ext) == Check(~ext.critical, "ExtensionError")

\* ExtensionPolicy::permits: every extension in the order of the certificate,
\* then every extension of OIDOrder that was not seen
ExtensionPolicyPermits(extPolicy, policy, cert) ==
     FirstError([i \in DOMAIN cert.exts |->
       LET ext == cert.exts[i]
       IN  IF ext.oid \in OID
           THEN ValidatorPermits(extPolicy[ext.oid], policy, cert, ext)
           ELSE PermitsUnaccounted(ext)])
  && FirstError([i \in DOMAIN OIDOrder |->
       IF GetExtension(cert.exts, OIDOrder[i]) # {} THEN Ok
       ELSE ValidatorPermitsNone(extPolicy[OIDOrder[i]])])

-----------------------------------------------------------------------------
(* The three policies a builder starts from                                *)

\* ExtensionPolicy::new_permit_all
PermitAll == [oid \in OID |-> MaybePresent("Agnostic", "none")]

\* ExtensionPolicy::new_default_webpki_ca
WebPKICA ==
  [ authority_information_access |->
      MaybePresent("NonCritical", "common::authority_information_access"),
    authority_key_identifier |-> MaybePresent("NonCritical", "ca::authority_key_identifier"),
    subject_key_identifier   |-> MaybePresent("NonCritical", "none"),
    key_usage                |-> Present("Agnostic", "ca::key_usage"),
    subject_alternative_name |-> MaybePresent("Agnostic", "none"),
    basic_constraints        |-> Present("Critical", "none"),
    name_constraints         |-> MaybePresent("Agnostic", "ca::name_constraints"),
    extended_key_usage       |-> MaybePresent("NonCritical", "ca::extended_key_usage") ]

\* ExtensionPolicy::new_default_webpki_ee
WebPKIEE ==
  [ authority_information_access |->
      MaybePresent("NonCritical", "common::authority_information_access"),
    authority_key_identifier |-> Present("NonCritical", "none"),
    subject_key_identifier   |-> MaybePresent("Agnostic", "none"),
    key_usage                |-> MaybePresent("Agnostic", "ee::key_usage"),
    subject_alternative_name |-> Present("Agnostic", "ee::subject_alternative_name"),
    basic_constraints        |-> MaybePresent("Agnostic", "ee::basic_constraints"),
    name_constraints         |-> NotPresent,
    extended_key_usage       |-> MaybePresent("NonCritical", "ee::extended_key_usage") ]
=============================================================================
