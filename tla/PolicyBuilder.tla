--------------------------- MODULE PolicyBuilder ---------------------------
(***************************************************************************)
(* How Python code configures a verifier (src/rust/src/x509/verify): the   *)
(* ExtensionPolicy and PolicyBuilder objects are frozen, every method      *)
(* returns a new object, and every setting may be made once.  A program    *)
(* holds on to any of the objects it made and calls their methods in any   *)
(* order.                                                                  *)
(***************************************************************************)
EXTENDS Policy

CONSTANTS
  Assignments,     \* what programs assign: << OID, ExtensionValidator >>
  Depths,          \* the max_chain_depths they set
  Times,           \* the validation times they set
  Subjects,        \* the subjects they build server verifiers for
  TestCerts,       \* the certificates verifiers are tried on, a sequence
  MaxExtPolicies, MaxBuilders, MaxVerifiers   \* bounds on the objects made

\* The path builder takes the extensions of a certificate, which fails when
\* there are duplicates, before the policy sees it
ASSUME TestCertsAssumption ==
  \A n \in DOMAIN TestCerts : IsTuple(TestCerts[n].exts) /\ ~HasDuplicates(TestCerts[n].exts)

VARIABLES
  extPolicies,   \* the ExtensionPolicy objects, in the order they were made
  builders,      \* the PolicyBuilder objects
  verifiers,     \* the policies of the verifiers built
  raised         \* whether the last call raised

builderVars == << extPolicies, builders, verifiers, raised >>

DEFAULT_MAX_CHAIN_DEPTH == 8

BuilderInit ==
  /\ extPolicies = << >>
  /\ builders = << [time |-> {}, store |-> FALSE, max_chain_depth |-> {},
                    ca_ext |-> {}, ee_ext |-> {}] >>
  /\ verifiers = << >>
  /\ raised = FALSE

\* ValueError, TypeError: the call raises and makes no object
Raise == raised' = TRUE /\ UNCHANGED << extPolicies, builders, verifiers >>

AddExtPolicy(p) ==
  /\ Len(extPolicies) < MaxExtPolicies
  /\ extPolicies' = Append(extPolicies, p)
  /\ raised' = FALSE
  /\ UNCHANGED << builders, verifiers >>

AddBuilder(b) ==
  /\ Len(builders) < MaxBuilders
  /\ builders' = Append(builders, b)
  /\ raised' = FALSE
  /\ UNCHANGED << extPolicies, verifiers >>

-----------------------------------------------------------------------------
(* ExtensionPolicy                                                         *)

\* permit_all, webpki_defaults_ca, webpki_defaults_ee
NewExtensionPolicy ==
  \E inner \in {PermitAll, WebPKICA, WebPKIEE} :
    AddExtPolicy([inner |-> inner, already_set |-> {}])

\* require_not_present, may_be_present and require_present: with_assigned_validator
\* refuses an OID that was assigned before or that it has no field for
AssignValidator ==
  \E i \in DOMAIN extPolicies, a \in Assignments :
    \/ /\ a[1] \in extPolicies[i].already_set \/ a[1] \notin OID
       /\ Raise
    \/ /\ a[1] \notin extPolicies[i].already_set /\ a[1] \in OID
       /\ AddExtPolicy([inner |-> [extPolicies[i].inner EXCEPT ![a[1]] = a[2]],
                        already_set |-> extPolicies[i].already_set \cup {a[1]}])

-----------------------------------------------------------------------------
(* PolicyBuilder                                                           *)

\* policy_builder_set_once_check! and the copy with one field changed
SetOnce(isSet, b) ==
  \/ isSet /\ Raise
  \/ ~isSet /\ AddBuilder(b)

SetTime ==
  \E i \in DOMAIN builders, t \in Times :
    SetOnce(builders[i].time # {}, [builders[i] EXCEPT !.time = {t}])

SetStore ==
  \E i \in DOMAIN builders :
    SetOnce(builders[i].store, [builders[i] EXCEPT !.store = TRUE])

SetMaxChainDepth ==
  \E i \in DOMAIN builders, d \in Depths :
    SetOnce(builders[i].max_chain_depth # {}, [builders[i] EXCEPT !.max_chain_depth = {d}])

\* Both at once; only the CA policy is tested
ExtensionPolicies ==
  \E i \in DOMAIN builders, c, e \in DOMAIN extPolicies :
    SetOnce(builders[i].ca_ext # {},
            [builders[i] EXCEPT !.ca_ext = {c}, !.ee_ext = {e}])

\* Option::unwrap_or
UnwrapOr(opt, default) == IF opt = {} THEN default ELSE CHOOSE x \in opt : TRUE

\* PolicyDefinition::new, with the defaults of client and server; now is what
\* datetime_now returns to a builder without a time
Definition(b, subject, eku, now) ==
  [ max_chain_depth    |-> UnwrapOr(b.max_chain_depth, DEFAULT_MAX_CHAIN_DEPTH),
    subject            |-> subject,
    validation_time    |-> UnwrapOr(b.time, now),
    extended_key_usage |-> eku,
    ca |-> UnwrapOr({extPolicies[i].inner : i \in b.ca_ext}, WebPKICA),
    ee |-> UnwrapOr({extPolicies[i].inner : i \in b.ee_ext}, WebPKIEE) ]

\* The two requirements PolicyDefinition::new fails early on
Acceptable(def) ==
  /\ def.ca["basic_constraints"].presence = "Present"
  /\ def.subject # {} => def.ee["subject_alternative_name"].presence = "Present"

Build(b, def) ==
  \/ /\ ~b.store \/ ~Acceptable(def)
     /\ Raise
  \/ /\ b.store /\ Acceptable(def)
     /\ Len(verifiers) < MaxVerifiers
     /\ verifiers' = Append(verifiers, def)
     /\ raised' = FALSE
     /\ UNCHANGED << extPolicies, builders >>

BuildClientVerifier ==
  \E i \in DOMAIN builders, now \in Times :
    Build(builders[i], Definition(builders[i], {}, "clientAuth", now))

\* build_subject refuses a name that is not a DNS name or an address
ValidSubject(s) ==
  CASE s.type = "DNSName" -> IsDNSName(s.value)
    [] s.type = "IPAddress" -> IsIPAddress(s.value)
    [] OTHER -> FALSE

BuildServerVerifier ==
  \E i \in DOMAIN builders, s \in Subjects, now \in Times :
    \/ ~ValidSubject(s) /\ Raise
    \/ ValidSubject(s) /\ Build(builders[i], Definition(builders[i], {s}, "serverAuth", now))

BuilderNext ==
  \/ NewExtensionPolicy \/ AssignValidator
  \/ SetTime \/ SetStore \/ SetMaxChainDepth \/ ExtensionPolicies
  \/ BuildClientVerifier \/ BuildServerVerifier

BuilderSpec == BuilderInit /\ [][BuilderNext]_builderVars

-----------------------------------------------------------------------------
(* Properties                                                              *)

Has(cert, oid) == GetExtension(cert.exts, oid) # {}

\* Whatever extension policies a program sets, a verifier accepts no issuer
\* without basicConstraints.cA or with a path length below the depth, and no
\* server certificate without a SAN that matches the subject
MandatoryChecks ==
  \A i \in DOMAIN verifiers, n \in DOMAIN TestCerts :
    LET v == verifiers[i]
        cert == TestCerts[n]
    IN  /\ PermitsCA(v, cert, 1) = Ok =>
             /\ Has(cert, "basic_constraints")
             /\ \A bc \in GetExtension(cert.exts, "basic_constraints") :
                  bc.value.ca /\ 0 \notin bc.value.path_length
        /\ v.subject # {} /\ PermitsEE(v, cert) = Ok =>
             \E s \in v.subject, san \in GetExtension(cert.exts, "subject_alternative_name") :
               SubjectMatches(s, san.value)

\* No verifier accepts a critical extension its policies have no field for
UnknownCriticalRefused ==
  \A i \in DOMAIN verifiers, n \in DOMAIN TestCerts :
    (\E k \in DOMAIN TestCerts[n].exts :
       TestCerts[n].exts[k].critical /\ TestCerts[n].exts[k].oid \notin OID)
    => /\ PermitsCA(verifiers[i], TestCerts[n], 0) # Ok
       /\ PermitsEE(verifiers[i], TestCerts[n]) # Ok
=============================================================================
