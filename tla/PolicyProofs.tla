---------------------------- MODULE PolicyProofs ----------------------------
(***************************************************************************)
(* Lemmas about the verdicts of modules ExtensionPolicy and Policy: what a *)
(* sequence of checks returns, that every check returns Ok or a kind of    *)
(* ValidationError that is not fatal, and what accepted certificates have; *)
(* theorems about the verifiers of module PolicyBuilder; and theorems      *)
(* about the names that policies and searches compare (NameMatching).      *)
(***************************************************************************)
EXTENDS PolicyBuilder, NameMatching, FiniteSetTheorems, TLAPS, WellFoundedInduction

\* What the checks of a policy return: none of them ends a search for good
PolicyVerdicts == {Ok, "Malformed", "ExtensionError", "Other"}

LEMMA PolicyVerdictsType == PolicyVerdicts \subseteq Verdicts /\ "FatalError" \notin PolicyVerdicts
BY DEF PolicyVerdicts, Verdicts, ErrorKind, Ok

\* What "?" between two checks returns
LEMMA ThenDef ==
  ASSUME NEW a, NEW b
  PROVE  (a && b) = IF a = Ok THEN b ELSE a
<1>1. {IF u = Ok THEN b ELSE u : u \in {a}} = {IF a = Ok THEN b ELSE a}
  OBVIOUS
<1>2. QED
  BY <1>1 DEF &&

\* A sequence of checks joined with && (the "?" of the code) is Ok exactly when
\* each of them is
LEMMA ThenOk ==
  ASSUME NEW a, NEW b
  PROVE  (a && b) = Ok <=> a = Ok /\ b = Ok
BY ThenDef

LEMMA ThenType ==
  ASSUME NEW a \in PolicyVerdicts, NEW b \in PolicyVerdicts
  PROVE  (a && b) \in PolicyVerdicts
BY ThenDef

\* A check is Ok exactly when its condition holds
LEMMA CheckOk ==
  ASSUME NEW cond, NEW kind \in ErrorKind
  PROVE  Check(cond, kind) = Ok <=> cond
BY DEF Check, Ok, ErrorKind

LEMMA CheckType ==
  ASSUME NEW cond, NEW kind \in {"Malformed", "ExtensionError", "Other"}
  PROVE  Check(cond, kind) \in PolicyVerdicts
BY DEF Check, PolicyVerdicts

\* The kinds the checks name
LEMMA Kinds == {"Malformed", "ExtensionError", "FatalError", "Other"} \subseteq ErrorKind
BY DEF ErrorKind

LEMMA ChecksType ==
  \A c : /\ Check(c, "Other") \in PolicyVerdicts
         /\ Check(c, "Malformed") \in PolicyVerdicts
         /\ Check(c, "ExtensionError") \in PolicyVerdicts
BY CheckType

\* A nonempty set of naturals has a least element
LEMMA LeastNatural ==
  ASSUME NEW T, T \subseteq Nat, T # {}
  PROVE  \E x \in T : \A y \in T : x <= y
<1>1. PICK x \in T : \A y \in T : ~(<< y, x >> \in OpToRel(<, Nat))
  BY NatLessThanWellFounded, WFMin
<1>2. \A y \in T : ~(y < x)
  BY <1>1 DEF OpToRel
<1>3. QED
  BY <1>2

\* FirstError returns one of the verdicts it is given, or Ok
LEMMA FirstErrorType ==
  ASSUME NEW verdicts, IsTuple(verdicts), \A i \in DOMAIN verdicts : verdicts[i] \in PolicyVerdicts
  PROVE  FirstError(verdicts) \in PolicyVerdicts
<1> DEFINE Failing == {i \in DOMAIN verdicts : verdicts[i] # Ok}
<1>1. CASE \A i \in DOMAIN verdicts : verdicts[i] = Ok
  BY <1>1 DEF FirstError, PolicyVerdicts
<1>2. CASE Failing # {}
  <2>1. PICK i \in Failing : \A j \in Failing : i <= j
    <3>1. Failing \subseteq Nat
      BY DEF IsTuple
    <3>2. QED
      BY <1>2, <3>1, LeastNatural
  <2>2. \A j \in 1 .. i - 1 : verdicts[j] = Ok
    BY <2>1 DEF IsTuple
  <2>3. (CHOOSE k \in DOMAIN verdicts : verdicts[k] # Ok /\ \A j \in 1 .. k - 1 : verdicts[j] = Ok)
          \in DOMAIN verdicts
    BY <2>1, <2>2
  <2>4. QED
    BY <1>2, <2>3 DEF FirstError
<1>3. QED
  BY <1>1, <1>2

LEMMA ParsesType == ASSUME NEW ext PROVE Parses(ext) \in PolicyVerdicts
BY CheckType DEF Parses

\* Every validator returns Ok or an error kind
LEMMA RunValidatorType ==
  ASSUME NEW v, NEW policy, NEW cert, NEW ext
  PROVE  /\ RunValidator(v, policy, cert, ext) \in PolicyVerdicts
         /\ RunValidatorOnNone(v) \in PolicyVerdicts
<1>1. \A c : Parses(ext) && Check(c, "Other") \in PolicyVerdicts
  BY ParsesType, CheckType, ThenType
<1>2. \A c : Check(c, "Other") \in PolicyVerdicts
  BY CheckType
<1>3. InvokePyCallback(v) \in PolicyVerdicts
  BY <1>2 DEF InvokePyCallback
<1>4. Check(ext.form = "ok", "Other") && InvokePyCallback(v) \in PolicyVerdicts
  BY <1>2, <1>3, ThenType
<1>5. Ok \in PolicyVerdicts
  BY DEF PolicyVerdicts
<1>6. RunValidatorOnNone(v) \in PolicyVerdicts
  BY <1>3, <1>5 DEF RunValidatorOnNone
<1>7. RunValidator(v, policy, cert, ext) \in PolicyVerdicts
  BY <1>1, <1>2, <1>4, <1>5, ParsesType DEF RunValidator
<1>8. QED
  BY <1>6, <1>7

\* ExtensionValidator::permits returns Ok or an error kind, with or without an
\* extension
LEMMA ValidatorPermitsType ==
  ASSUME NEW val, NEW policy, NEW cert, NEW ext
  PROVE  /\ ValidatorPermits(val, policy, cert, ext) \in PolicyVerdicts
         /\ ValidatorPermitsNone(val) \in PolicyVerdicts
<1>1. ValidatorPermits(val, policy, cert, ext) \in PolicyVerdicts
  BY ChecksType, ThenType, RunValidatorType DEF ValidatorPermits
<1>2. ValidatorPermitsNone(val) \in PolicyVerdicts
  BY ChecksType, ThenType, RunValidatorType DEF ValidatorPermitsNone
<1>3. QED
  BY <1>1, <1>2

LEMMA ExtensionPolicyType ==
  ASSUME NEW extPolicy, NEW policy, NEW cert, IsTuple(cert.exts)
  PROVE  ExtensionPolicyPermits(extPolicy, policy, cert) \in PolicyVerdicts
<1> DEFINE seen == [i \in DOMAIN cert.exts |->
                      LET ext == cert.exts[i]
                      IN  IF ext.oid \in OID
                          THEN ValidatorPermits(extPolicy[ext.oid], policy, cert, ext)
                          ELSE PermitsUnaccounted(ext)]
           absent == [i \in DOMAIN OIDOrder |->
                        IF GetExtension(cert.exts, OIDOrder[i]) # {} THEN Ok
                        ELSE ValidatorPermitsNone(extPolicy[OIDOrder[i]])]
<1>1. FirstError(seen) \in PolicyVerdicts
  <2>1. \A i \in DOMAIN seen : seen[i] \in PolicyVerdicts
    BY ValidatorPermitsType, ChecksType DEF PermitsUnaccounted
  <2>2. IsTuple(seen)
    <3>1. DOMAIN seen = 1 .. Len(cert.exts) /\ Len(cert.exts) \in Nat
      BY DEF IsTuple
    <3>2. Len(seen) = Len(cert.exts)
      BY <3>1
    <3>3. QED
      BY <3>1, <3>2 DEF IsTuple
  <2>3. QED
    BY <2>1, <2>2, FirstErrorType
<1>2. FirstError(absent) \in PolicyVerdicts
  <2>1. \A i \in DOMAIN absent : absent[i] \in PolicyVerdicts
    BY ValidatorPermitsType DEF PolicyVerdicts
  <2>2. IsTuple(absent)
    BY DEF IsTuple, OIDOrder
  <2>3. QED
    BY <2>1, <2>2, FirstErrorType
<1>3. QED
  BY <1>1, <1>2, ThenType DEF ExtensionPolicyPermits

\* permits_basic, permits_ca, permits_ee and valid_issuer return Ok or an error
\* kind
LEMMA PolicyType ==
  ASSUME NEW policy, NEW cert, IsTuple(cert.exts), NEW child, NEW depth
  PROVE  /\ PermitsEE(policy, cert) \in PolicyVerdicts
         /\ ValidIssuer(policy, cert, child, depth) \in PolicyVerdicts
<1>1. PermitsBasic(policy, cert) \in PolicyVerdicts
  BY ChecksType, ThenType DEF PermitsBasic, PermitsValidityDate
<1>2. \A s : PermitsSubject(s, cert) \in PolicyVerdicts
  BY ChecksType, ThenType DEF PermitsSubject
<1>3. \A bc : PermitsBasicConstraints(bc, depth) \in PolicyVerdicts
  BY ChecksType, ParsesType, ThenType DEF PermitsBasicConstraints
<1>4. PermitsCA(policy, cert, depth) \in PolicyVerdicts
  BY <1>1, <1>3, ChecksType, ThenType, ExtensionPolicyType DEF PermitsCA
<1>5. PermitsEE(policy, cert) \in PolicyVerdicts
  <2>1. (IF policy.subject = {} THEN Ok
         ELSE PermitsSubject(CHOOSE s \in policy.subject : TRUE, cert)) \in PolicyVerdicts
    BY <1>2 DEF PolicyVerdicts
  <2>2. QED
    BY <1>1, <2>1, ThenType, ExtensionPolicyType DEF PermitsEE
<1>6. ValidIssuer(policy, cert, child, depth) \in PolicyVerdicts
  BY <1>4, ChecksType, ThenType DEF ValidIssuer
<1>7. QED
  BY <1>5, <1>6

\* A certificate that permits_ee or valid_issuer accepts names its issuer
LEMMA NamesIssuer ==
  ASSUME NEW policy, NEW cert, NEW child, NEW depth,
         PermitsEE(policy, cert) = Ok \/ ValidIssuer(policy, cert, child, depth) = Ok
  PROVE  cert.issuer # "empty"
<1>1. PermitsBasic(policy, cert) = Ok
  BY ThenOk DEF PermitsEE, ValidIssuer, PermitsCA
<1>2. Check(cert.issuer # "empty", "Other") = Ok
  BY <1>1, ThenOk DEF PermitsBasic
<1>3. QED
  BY <1>2, CheckOk, Kinds

-----------------------------------------------------------------------------
(* What an accepted certificate has, whatever the extension policies are   *)

\* A certificate without duplicate extensions has at most one of each kind
LEMMA OneExtension ==
  ASSUME NEW exts, IsTuple(exts), ~HasDuplicates(exts), NEW oid,
         NEW x \in GetExtension(exts, oid), NEW y \in GetExtension(exts, oid)
  PROVE  x = y
<1>1. PICK i \in DOMAIN exts : exts[i].oid = oid /\ x = exts[i]
  BY DEF GetExtension
<1>2. PICK j \in DOMAIN exts : exts[j].oid = oid /\ y = exts[j]
  BY DEF GetExtension
<1>3. ~(i < j) /\ ~(j < i)
  BY <1>1, <1>2 DEF HasDuplicates
<1>4. i = j
  BY <1>1, <1>2, <1>3 DEF IsTuple
<1>5. QED
  BY <1>1, <1>2, <1>4

\* permits_ca accepts only certificates with a basicConstraints extension that
\* says cA and allows for the depth
LEMMA IssuerIsCA ==
  ASSUME NEW policy, NEW cert, IsTuple(cert.exts), ~HasDuplicates(cert.exts), NEW depth,
         PermitsCA(policy, cert, depth) = Ok
  PROVE  /\ GetExtension(cert.exts, "basic_constraints") # {}
         /\ \A bc \in GetExtension(cert.exts, "basic_constraints") :
              bc.value.ca /\ \A len \in bc.value.path_length : depth <= len
<1> DEFINE S == GetExtension(cert.exts, "basic_constraints")
           bc == CHOOSE x \in S : TRUE
<1>1. Check(S # {}, "ExtensionError") = Ok /\ PermitsBasicConstraints(bc, depth) = Ok
  BY ThenOk DEF PermitsCA
<1>2. S # {}
  BY <1>1, CheckOk, Kinds
<1>3. bc \in S
  BY <1>2
<1> HIDE DEF bc
<1>4. /\ Check(\A len \in bc.value.path_length : depth <= len, "Other") = Ok
      /\ Check(bc.value.ca, "Other") = Ok
  <2> DEFINE u == Parses(bc)
             v == Check(\A len \in bc.value.path_length : depth <= len, "Other")
             w == Check(bc.value.ca, "Other")
  <2>1. ((u && v) && w) = Ok
    BY <1>1 DEF PermitsBasicConstraints
  <2> HIDE DEF u, v, w
  <2>2. v = Ok /\ w = Ok
    BY <2>1, ThenOk
  <2>3. QED
    BY <2>2 DEF v, w
<1>5. \A len \in bc.value.path_length : depth <= len
  BY <1>4, CheckOk, Kinds
<1>6. bc.value.ca
  BY <1>4, CheckOk, Kinds
<1>7. \A x \in S : x = bc
  BY <1>3, OneExtension
<1>8. QED
  BY <1>2, <1>5, <1>6, <1>7

\* permits_ee accepts only certificates with a SAN that matches the subject
LEMMA LeafNamesSubject ==
  ASSUME NEW policy, NEW cert, policy.subject # {}, PermitsEE(policy, cert) = Ok
  PROVE  \E s \in policy.subject, san \in GetExtension(cert.exts, "subject_alternative_name") :
           SubjectMatches(s, san.value)
<1> DEFINE s == CHOOSE x \in policy.subject : TRUE
           S == GetExtension(cert.exts, "subject_alternative_name")
<1>1. s \in policy.subject
  OBVIOUS
<1> HIDE DEF s
<1>2. PermitsSubject(s, cert) = Ok
  BY ThenOk DEF PermitsEE, s
<1>3. Check(\E e \in S : SubjectMatches(s, e.value), "Other") = Ok
  BY <1>2, ThenOk DEF PermitsSubject
<1>4. \E e \in S : SubjectMatches(s, e.value)
  BY <1>3, CheckOk, Kinds
<1>5. QED
  BY <1>1, <1>4

\* The first failing check is found: FirstError is Ok only when all checks are
LEMMA FirstErrorOk ==
  ASSUME NEW verdicts, IsTuple(verdicts), FirstError(verdicts) = Ok
  PROVE  \A i \in DOMAIN verdicts : verdicts[i] = Ok
<1> DEFINE Failing == {i \in DOMAIN verdicts : verdicts[i] # Ok}
<1> SUFFICES ASSUME Failing # {} PROVE FALSE
  OBVIOUS
<1>1. PICK i \in Failing : \A j \in Failing : i <= j
  <2>1. Failing \subseteq Nat
    BY DEF IsTuple
  <2>2. QED
    BY <2>1, LeastNatural
<1>2. \A j \in 1 .. i - 1 : verdicts[j] = Ok
  BY <1>1 DEF IsTuple
<1> DEFINE k == CHOOSE x \in DOMAIN verdicts :
                  verdicts[x] # Ok /\ \A j \in 1 .. x - 1 : verdicts[j] = Ok
<1>3. verdicts[k] # Ok
  BY <1>1, <1>2
<1>4. FirstError(verdicts) = verdicts[k]
  BY <1>1 DEF FirstError
<1>5. QED
  BY <1>3, <1>4

\* ExtensionPolicy::permits accepts no critical extension it has no field for
LEMMA UnaccountedRefused ==
  ASSUME NEW extPolicy, NEW policy, NEW cert, IsTuple(cert.exts),
         NEW k \in DOMAIN cert.exts, cert.exts[k].critical, cert.exts[k].oid \notin OID
  PROVE  ExtensionPolicyPermits(extPolicy, policy, cert) # Ok
<1> DEFINE seen == [i \in DOMAIN cert.exts |->
                      LET ext == cert.exts[i]
                      IN  IF ext.oid \in OID
                          THEN ValidatorPermits(extPolicy[ext.oid], policy, cert, ext)
                          ELSE PermitsUnaccounted(ext)]
<1> SUFFICES ASSUME ExtensionPolicyPermits(extPolicy, policy, cert) = Ok PROVE FALSE
  OBVIOUS
<1>1. FirstError(seen) = Ok
  BY ThenOk DEF ExtensionPolicyPermits
<1>2. IsTuple(seen)
  <2>1. DOMAIN seen = 1 .. Len(cert.exts) /\ Len(cert.exts) \in Nat
    BY DEF IsTuple
  <2>2. Len(seen) = Len(cert.exts)
    BY <2>1
  <2>3. QED
    BY <2>1, <2>2 DEF IsTuple
<1>3. seen[k] = PermitsUnaccounted(cert.exts[k])
  OBVIOUS
<1>4. k \in DOMAIN seen
  OBVIOUS
<1> HIDE DEF seen
<1>5. PermitsUnaccounted(cert.exts[k]) = Ok
  BY <1>1, <1>2, <1>3, <1>4, FirstErrorOk
<1>6. QED
  BY <1>5, CheckOk, Kinds DEF PermitsUnaccounted

-----------------------------------------------------------------------------
(* What every verifier that a program can build checks, for any validators it *)
(* assigns, in any order and number of calls, and for any certificates        *)

LEMMA MandatoryInEveryState == MandatoryChecks
<1> SUFFICES ASSUME NEW i \in DOMAIN verifiers, NEW n \in DOMAIN TestCerts
             PROVE  /\ PermitsCA(verifiers[i], TestCerts[n], 1) = Ok =>
                         /\ Has(TestCerts[n], "basic_constraints")
                         /\ \A bc \in GetExtension(TestCerts[n].exts, "basic_constraints") :
                              bc.value.ca /\ 0 \notin bc.value.path_length
                    /\ verifiers[i].subject # {} /\ PermitsEE(verifiers[i], TestCerts[n]) = Ok =>
                         \E s \in verifiers[i].subject,
                            san \in GetExtension(TestCerts[n].exts, "subject_alternative_name") :
                           SubjectMatches(s, san.value)
  BY DEF MandatoryChecks
<1> DEFINE v == verifiers[i]
           cert == TestCerts[n]
<1>1. IsTuple(cert.exts) /\ ~HasDuplicates(cert.exts)
  BY TestCertsAssumption
<1>2. ASSUME PermitsCA(v, cert, 1) = Ok
      PROVE  /\ Has(cert, "basic_constraints")
             /\ \A bc \in GetExtension(cert.exts, "basic_constraints") :
                  bc.value.ca /\ 0 \notin bc.value.path_length
  <2>1. /\ GetExtension(cert.exts, "basic_constraints") # {}
        /\ \A bc \in GetExtension(cert.exts, "basic_constraints") :
             bc.value.ca /\ \A len \in bc.value.path_length : 1 <= len
    BY <1>1, <1>2, IssuerIsCA
  <2>2. ~(1 <= 0)
    OBVIOUS
  <2>3. QED
    BY <2>1, <2>2 DEF Has
<1>3. ASSUME v.subject # {}, PermitsEE(v, cert) = Ok
      PROVE  \E s \in v.subject, san \in GetExtension(cert.exts, "subject_alternative_name") :
               SubjectMatches(s, san.value)
  BY <1>3, LeafNamesSubject
<1>4. QED
  BY <1>2, <1>3

LEMMA UnknownInEveryState == UnknownCriticalRefused
<1> SUFFICES ASSUME NEW i \in DOMAIN verifiers, NEW n \in DOMAIN TestCerts,
                    NEW k \in DOMAIN TestCerts[n].exts,
                    TestCerts[n].exts[k].critical, TestCerts[n].exts[k].oid \notin OID
             PROVE  /\ PermitsCA(verifiers[i], TestCerts[n], 0) # Ok
                    /\ PermitsEE(verifiers[i], TestCerts[n]) # Ok
  BY DEF UnknownCriticalRefused
<1>1. IsTuple(TestCerts[n].exts)
  BY TestCertsAssumption
<1>2. \A p : ExtensionPolicyPermits(p, verifiers[i], TestCerts[n]) # Ok
  BY <1>1, UnaccountedRefused
<1>3. QED
  BY <1>2, ThenOk DEF PermitsCA, PermitsEE

-----------------------------------------------------------------------------
(* The verifiers that a program can build                                  *)

\* PolicyDefinition::new fails early, so that all verifiers are acceptable
VerifierInv == \E S : verifiers \in Seq(S) /\ \A v \in S : Acceptable(v)

LEMMA BuildKeeps ==
  ASSUME VerifierInv, NEW b, NEW def, Build(b, def)
  PROVE  VerifierInv'
<1>1. CASE verifiers' = verifiers
  BY <1>1 DEF VerifierInv, Acceptable
<1>2. CASE Acceptable(def) /\ verifiers' = Append(verifiers, def)
  <2>1. PICK S : verifiers \in Seq(S) /\ \A v \in S : Acceptable(v)
    BY DEF VerifierInv
  <2>2. verifiers' \in Seq(S \cup {def}) /\ \A v \in S \cup {def} : Acceptable(v)
    BY <1>2, <2>1
  <2>3. QED
    BY <2>2 DEF VerifierInv, Acceptable
<1>3. QED
  BY <1>1, <1>2 DEF Build, Raise

LEMMA VerifierStep == VerifierInv /\ [BuilderNext]_builderVars => VerifierInv'
<1> SUFFICES ASSUME VerifierInv, [BuilderNext]_builderVars PROVE VerifierInv'
  OBVIOUS
<1>1. CASE BuildClientVerifier
  BY <1>1, BuildKeeps DEF BuildClientVerifier
<1>2. CASE BuildServerVerifier
  <2>1. CASE Raise
    BY <2>1 DEF Raise, VerifierInv, Acceptable
  <2>2. CASE ~Raise
    BY <1>2, <2>2, BuildKeeps DEF BuildServerVerifier
  <2>3. QED
    BY <2>1, <2>2
<1>3. CASE UNCHANGED verifiers
  BY <1>3 DEF VerifierInv, Acceptable
<1>4. CASE NewExtensionPolicy \/ AssignValidator
  BY <1>3, <1>4 DEF NewExtensionPolicy, AssignValidator, AddExtPolicy, Raise
<1>5. CASE SetTime \/ SetStore \/ SetMaxChainDepth \/ ExtensionPolicies
  BY <1>3, <1>5 DEF SetTime, SetStore, SetMaxChainDepth, ExtensionPolicies, SetOnce, AddBuilder, Raise
<1>6. QED
  BY <1>1, <1>2, <1>3, <1>4, <1>5 DEF BuilderNext, builderVars

LEMMA VerifierInvariant == BuilderSpec => []VerifierInv
<1>1. BuilderInit => VerifierInv
  <2>1. << >> \in Seq({})
    OBVIOUS
  <2>2. QED
    BY <2>1 DEF BuilderInit, VerifierInv
<1>2. QED
  BY <1>1, VerifierStep, PTL DEF BuilderSpec

\* An extension policy that requires an extension refuses certificates without
LEMMA RequiredIsPresent ==
  ASSUME NEW extPolicy, NEW policy, NEW cert, NEW k \in DOMAIN OIDOrder,
         extPolicy[OIDOrder[k]].presence = "Present",
         ExtensionPolicyPermits(extPolicy, policy, cert) = Ok
  PROVE  Has(cert, OIDOrder[k])
<1> DEFINE absent == [i \in DOMAIN OIDOrder |->
                        IF GetExtension(cert.exts, OIDOrder[i]) # {} THEN Ok
                        ELSE ValidatorPermitsNone(extPolicy[OIDOrder[i]])]
<1>1. FirstError(absent) = Ok
  BY ThenOk DEF ExtensionPolicyPermits
<1>2. IsTuple(absent)
  BY DEF IsTuple, OIDOrder
<1>3. absent[k] = Ok
  BY <1>1, <1>2, FirstErrorOk
<1>4. ValidatorPermitsNone(extPolicy[OIDOrder[k]]) # Ok
  <2>1. Check(extPolicy[OIDOrder[k]].presence # "Present", "ExtensionError") # Ok
    BY CheckOk, Kinds
  <2>2. QED
    BY <2>1, ThenOk DEF ValidatorPermitsNone
<1>5. QED
  BY <1>3, <1>4 DEF Has

\* The extension policies of every verifier by themselves refuse an issuer
\* without basicConstraints and, for a server, a leaf without a SAN
RequiredByPolicy ==
  \A i \in DOMAIN verifiers : \A cert :
    /\ ExtensionPolicyPermits(verifiers[i].ca, verifiers[i], cert) = Ok =>
         Has(cert, "basic_constraints")
    /\ verifiers[i].subject # {} /\ ExtensionPolicyPermits(verifiers[i].ee, verifiers[i], cert) = Ok =>
         Has(cert, "subject_alternative_name")

LEMMA AcceptableRequires == VerifierInv => RequiredByPolicy
<1> SUFFICES ASSUME VerifierInv, NEW i \in DOMAIN verifiers, NEW cert
             PROVE  /\ ExtensionPolicyPermits(verifiers[i].ca, verifiers[i], cert) = Ok =>
                         Has(cert, "basic_constraints")
                    /\ /\ verifiers[i].subject # {}
                       /\ ExtensionPolicyPermits(verifiers[i].ee, verifiers[i], cert) = Ok
                       => Has(cert, "subject_alternative_name")
  BY DEF RequiredByPolicy
<1>1. Acceptable(verifiers[i])
  BY DEF VerifierInv
<1>2. /\ 5 \in DOMAIN OIDOrder /\ OIDOrder[5] = "subject_alternative_name"
      /\ 6 \in DOMAIN OIDOrder /\ OIDOrder[6] = "basic_constraints"
  BY DEF OIDOrder
<1>3. QED
  BY <1>1, <1>2, RequiredIsPresent DEF Acceptable

-----------------------------------------------------------------------------
\* Whatever extension policies a program sets, a verifier accepts no issuer
\* without basicConstraints.cA or with a path length below the depth, and no
\* server certificate without a SAN that matches the subject: permits_ca and
\* permits_ee check these themselves, and no policy takes that away
THEOREM ChecksAreMandatory == BuilderSpec => []MandatoryChecks
BY MandatoryInEveryState, PTL

\* No verifier accepts a critical extension its policies have no field for:
\* ExtensionPolicy::permits finds every such extension, wherever it stands
THEOREM UnknownCriticalNeverAccepted == BuilderSpec => []UnknownCriticalRefused
BY UnknownInEveryState, PTL

\* PolicyDefinition::new fails early, so that also the extension policies of
\* every verifier that a program can build require the two extensions
THEOREM VerifiersRequire == BuilderSpec => []RequiredByPolicy
BY VerifierInvariant, AcceptableRequires, PTL

-----------------------------------------------------------------------------
(* The name types: the matching of DNS names, subnets and mailboxes        *)

\* Induction up to n over the members of a set
LEMMA InductionUpTo ==
  ASSUME NEW n \in Nat, NEW T, 0 \in T, \A m \in 0 .. n - 1 : m \in T => m + 1 \in T
  PROVE  \A m \in 0 .. n : m \in T
<1> DEFINE Out == {m \in 0 .. n : m \notin T}
<1> SUFFICES ASSUME Out # {} PROVE FALSE
  OBVIOUS
<1>1. Out \subseteq Nat
  OBVIOUS
<1> HIDE DEF Out
<1>2. PICK m \in Out : \A k \in Out : m <= k
  BY <1>1, LeastNatural
<1>3. m \in 0 .. n /\ m \notin T /\ m # 0
  BY <1>2 DEF Out
<1>4. m - 1 \in 0 .. n - 1 /\ m - 1 \in T /\ (m - 1) + 1 = m
  BY <1>2, <1>3 DEF Out
<1>5. QED
  BY <1>3, <1>4

\* f gives the number of characters of the last k labels of s
Counts(f, s) ==
  f = [k \in 0 .. Len(s) |-> IF k = 0 THEN 0 ELSE f[k - 1] + LabelLen[s[Len(s) - k + 1]]]

LEMMA LabelCharsDef ==
  ASSUME NEW s
  PROVE  LabelChars(s) = (CHOOSE f : Counts(f, s))[Len(s)]
BY DEF LabelChars, Counts

\* The recursion of LabelChars has a solution
LEMMA CountsExists ==
  ASSUME NEW s \in Seq(Label)
  PROVE  \E f \in [0 .. Len(s) -> Nat] : Counts(f, s)
<1> DEFINE n == Len(s)
           w(k) == LabelLen[s[n - k + 1]]
           Upto(m) == \E f \in [0 .. m -> Nat] : f[0] = 0 /\ \A k \in 1 .. m : f[k] = f[k - 1] + w(k)
           T == {m \in 0 .. n : Upto(m)}
<1>1. n \in Nat /\ \A k \in 1 .. n : w(k) \in Nat
  BY LabelAssumption
<1> HIDE DEF w
<1>2. Upto(0)
  <2> WITNESS [k \in 0 .. 0 |-> 0] \in [0 .. 0 -> Nat]
  <2> QED
    OBVIOUS
<1>3. ASSUME NEW m \in 0 .. n, m # n, Upto(m) PROVE Upto(m + 1)
  <2>1. PICK f \in [0 .. m -> Nat] : f[0] = 0 /\ \A k \in 1 .. m : f[k] = f[k - 1] + w(k)
    BY <1>3
  <2> DEFINE g == [k \in 0 .. m + 1 |-> IF k = m + 1 THEN f[m] + w(k) ELSE f[k]]
  <2>0. m + 1 \in 1 .. n /\ w(m + 1) \in Nat /\ f[m] \in Nat
    BY <1>1, <1>3, <2>1
  <2>2. g \in [0 .. m + 1 -> Nat]
    BY <1>1, <2>1, <2>0
  <2>3. g[0] = 0 /\ \A k \in 1 .. m + 1 : g[k] = g[k - 1] + w(k)
    BY <1>1, <2>1
  <2>4. QED
    BY <2>2, <2>3
<1>4. Upto(n)
  <2> HIDE DEF Upto
  <2>1. 0 \in T /\ \A m \in 0 .. n - 1 : m \in T => m + 1 \in T
    BY <1>1, <1>2, <1>3
  <2> HIDE DEF T
  <2>2. \A m \in 0 .. n : m \in T
    BY <1>1, <2>1, InductionUpTo
  <2>3. n \in 0 .. n
    BY <1>1
  <2>4. QED
    BY <2>2, <2>3 DEF T
<1>5. QED
  BY <1>1, <1>4 DEF Counts, w

\* What LabelChars counts: f[k] characters in the last k labels
LEMMA LabelCharsCounts ==
  ASSUME NEW s \in Seq(Label)
  PROVE  \E f \in [0 .. Len(s) -> Nat] :
           /\ f[0] = 0
           /\ \A k \in 1 .. Len(s) : f[k] = f[k - 1] + LabelLen[s[Len(s) - k + 1]]
           /\ LabelChars(s) = f[Len(s)]
<1> DEFINE f == CHOOSE g : Counts(g, s)
<1>1. Counts(f, s)
  BY CountsExists, Zenon
<1> HIDE DEF f
<1> DEFINE n == Len(s)
           w(k) == LabelLen[s[n - k + 1]]
           T == {m \in 0 .. n : f[m] \in Nat}
<1>2. n \in Nat /\ \A k \in 1 .. n : w(k) \in Nat
  BY LabelAssumption
<1>3. /\ DOMAIN f = 0 .. n /\ f = [k \in DOMAIN f |-> f[k]]
      /\ f[0] = 0
      /\ \A k \in 1 .. n : f[k] = f[k - 1] + w(k)
  <2>1. f = [k \in 0 .. n |-> IF k = 0 THEN 0 ELSE f[k - 1] + w(k)]
    BY <1>1 DEF Counts
  <2> HIDE DEF w
  <2>2. DOMAIN f = 0 .. n /\ \A k \in 0 .. n : f[k] = IF k = 0 THEN 0 ELSE f[k - 1] + w(k)
    BY <2>1, Zenon
  <2>3. f = [k \in DOMAIN f |-> f[k]]
    <3> DEFINE g == [k \in 0 .. n |-> IF k = 0 THEN 0 ELSE f[k - 1] + w(k)]
    <3>1. g = [k \in DOMAIN g |-> g[k]]
      BY Zenon
    <3>2. QED
      BY <2>1, <3>1, Zenon
  <2>4. f[0] = 0 /\ \A k \in 1 .. n : f[k] = f[k - 1] + w(k)
    BY <1>2, <2>2
  <2>5. QED
    BY <2>2, <2>3, <2>4, Zenon
<1> HIDE DEF w
<1>4. 0 \in T /\ \A m \in 0 .. n - 1 : m \in T => m + 1 \in T
  <2>1. ASSUME NEW m \in 0 .. n - 1, m \in T PROVE m + 1 \in T
    <3>1. m + 1 \in 1 .. n /\ (m + 1) - 1 = m /\ f[m] \in Nat
      BY <1>2, <2>1
    <3>2. f[m + 1] = f[m] + w(m + 1)
      BY <1>3, <3>1
    <3>3. QED
      BY <1>2, <3>1, <3>2
  <2>2. QED
    BY <1>2, <1>3, <2>1
<1>5. f \in [0 .. n -> Nat]
  <2> HIDE DEF T
  <2>1. \A m \in 0 .. n : m \in T
    BY <1>2, <1>4, InductionUpTo
  <2>2. \A m \in 0 .. n : f[m] \in Nat
    BY <2>1 DEF T
  <2>3. QED
    BY <1>3, <2>2
<1>6. LabelChars(s) = f[n]
  BY LabelCharsDef DEF f
<1>7. QED
  BY <1>3, <1>5, <1>6 DEF w

\* The labels that two names share from the right have as many characters, so
\* the name with more labels is the longer one
LEMMA ZippedLengths ==
  ASSUME NEW a \in Seq(Label), NEW b \in Seq(Label), Len(a) <= Len(b),
         \A k \in 0 .. Len(a) - 1 : Fold[a[Len(a) - k]] = Fold[b[Len(b) - k]]
  PROVE  /\ LabelChars(a) \in Nat /\ LabelChars(b) \in Nat
         /\ LabelChars(a) <= LabelChars(b)
         /\ Len(a) = Len(b) => LabelChars(a) = LabelChars(b)
<1> DEFINE m == Len(a)
           n == Len(b)
<1>1. m \in Nat /\ n \in Nat /\ m <= n
  OBVIOUS
<1>2. PICK f \in [0 .. m -> Nat] :
        /\ f[0] = 0
        /\ \A k \in 1 .. m : f[k] = f[k - 1] + LabelLen[a[m - k + 1]]
        /\ LabelChars(a) = f[m]
  BY LabelCharsCounts
<1>3. PICK g \in [0 .. n -> Nat] :
        /\ g[0] = 0
        /\ \A k \in 1 .. n : g[k] = g[k - 1] + LabelLen[b[n - k + 1]]
        /\ LabelChars(b) = g[n]
  BY LabelCharsCounts
<1>4. \A k \in 1 .. m : LabelLen[a[m - k + 1]] = LabelLen[b[n - k + 1]]
  <2> TAKE k \in 1 .. m
  <2>1. k - 1 \in 0 .. m - 1 /\ m - (k - 1) = m - k + 1 /\ n - (k - 1) = n - k + 1
    BY <1>1
  <2>2. Fold[a[m - k + 1]] = Fold[b[n - k + 1]]
    BY <2>1
  <2>3. a[m - k + 1] \in Label /\ b[n - k + 1] \in Label
    BY <1>1
  <2>4. QED
    BY <2>2, <2>3, LabelAssumption
<1>5. \A k \in 1 .. n : LabelLen[b[n - k + 1]] \in Nat
  BY <1>1, LabelAssumption
<1> HIDE DEF m, n
<1>6. \A k \in 0 .. m : f[k] = g[k]
  <2> DEFINE T == {k \in 0 .. m : f[k] = g[k]}
  <2>1. 0 \in T /\ \A k \in 0 .. m - 1 : k \in T => k + 1 \in T
    <3>1. ASSUME NEW k \in 0 .. m - 1, k \in T PROVE k + 1 \in T
      <4>1. k + 1 \in 1 .. m /\ k + 1 \in 1 .. n /\ (k + 1) - 1 = k
        BY <1>1
      <4>2. QED
        BY <1>2, <1>3, <1>4, <3>1, <4>1
    <3>2. QED
      BY <1>1, <1>2, <1>3, <3>1
  <2> HIDE DEF T
  <2>2. \A k \in 0 .. m : k \in T
    BY <1>1, <2>1, InductionUpTo
  <2>3. QED
    BY <2>2 DEF T
<1>7. \A k \in 0 .. n - m : g[m] <= g[m + k]
  <2> DEFINE T == {k \in 0 .. n - m : g[m] <= g[m + k]}
  <2>0. n - m \in Nat
    BY <1>1
  <2>1. 0 \in T /\ \A k \in 0 .. (n - m) - 1 : k \in T => k + 1 \in T
    <3>1. ASSUME NEW k \in 0 .. (n - m) - 1, k \in T PROVE k + 1 \in T
      <4>1. m + k + 1 \in 1 .. n /\ (m + k + 1) - 1 = m + k /\ m + (k + 1) = m + k + 1
            /\ m \in 0 .. n /\ m + k \in 0 .. n
        BY <1>1
      <4>2. g[m + k + 1] = g[m + k] + LabelLen[b[n - (m + k + 1) + 1]]
        BY <1>3, <4>1
      <4>4. g[m] \in Nat /\ g[m + k] \in Nat /\ LabelLen[b[n - (m + k + 1) + 1]] \in Nat
        BY <1>5, <4>1
      <4>3. g[m + k + 1] >= g[m + k]
        BY <4>2, <4>4
      <4>5. QED
        <5>1. g[m] <= g[m + (k + 1)]
          BY <3>1, <4>1, <4>2, <4>4
        <5>2. QED
          BY <1>1, <5>1
    <3>2. QED
      BY <1>1, <1>3, <3>1
  <2> HIDE DEF T
  <2>2. \A k \in 0 .. n - m : k \in T
    BY <2>0, <2>1, InductionUpTo
  <2>3. QED
    BY <2>2 DEF T
<1>8. g[m] <= g[n]
  <2>1. n - m \in 0 .. n - m /\ m + (n - m) = n
    BY <1>1
  <2>2. QED
    BY <1>7, <2>1
<1>9. f[m] \in Nat /\ g[n] \in Nat /\ f[m] = g[m]
  BY <1>1, <1>2, <1>3, <1>6
<1>10. QED
  BY <1>1, <1>2, <1>3, <1>8, <1>9 DEF m, n

LEMMA MinPair ==
  ASSUME NEW i \in Int, NEW j \in Int, i <= j
  PROVE  Min({i, j}) = i /\ Min({j, i}) = i
BY DEF Min

\* What the zipped comparison of a name with a shorter one means
LEMMA ZippedIsSuffix ==
  ASSUME NEW c \in Seq(Label), NEW n \in Seq(Label), Len(c) <= Len(n)
  PROVE  /\ ZippedRLabelsAgree(c, n) <=>
              \A k \in 0 .. Len(c) - 1 : Fold[c[Len(c) - k]] = Fold[n[Len(n) - k]]
         /\ ZippedRLabelsAgree(n, c) <=>
              \A k \in 0 .. Len(c) - 1 : Fold[c[Len(c) - k]] = Fold[n[Len(n) - k]]
         /\ EndsWith(n, c) <=>
              \A k \in 0 .. Len(c) - 1 : Fold[c[Len(c) - k]] = Fold[n[Len(n) - k]]
<1>1. Min({Len(c), Len(n)}) = Len(c) /\ Min({Len(n), Len(c)}) = Len(c)
  BY MinPair
<1>2. ZippedRLabelsAgree(c, n) <=>
        \A k \in 0 .. Len(c) - 1 : Fold[c[Len(c) - k]] = Fold[n[Len(n) - k]]
  BY <1>1 DEF ZippedRLabelsAgree
<1>3. ZippedRLabelsAgree(n, c) <=>
        \A k \in 0 .. Len(c) - 1 : Fold[c[Len(c) - k]] = Fold[n[Len(n) - k]]
  BY <1>1 DEF ZippedRLabelsAgree
<1>4. ASSUME \A k \in 0 .. Len(c) - 1 : Fold[c[Len(c) - k]] = Fold[n[Len(n) - k]]
      PROVE  EndsWith(n, c)
  <2> SUFFICES ASSUME NEW i \in 1 .. Len(c) PROVE Fold[n[Len(n) - Len(c) + i]] = Fold[c[i]]
    BY DEF EndsWith
  <2>1. Len(c) - i \in 0 .. Len(c) - 1 /\ Len(c) - (Len(c) - i) = i
        /\ Len(n) - (Len(c) - i) = Len(n) - Len(c) + i
    OBVIOUS
  <2>2. QED
    BY <1>4, <2>1
<1>5. ASSUME EndsWith(n, c), NEW k \in 0 .. Len(c) - 1
      PROVE  Fold[c[Len(c) - k]] = Fold[n[Len(n) - k]]
  <2>1. Len(c) - k \in DOMAIN c /\ Len(n) - Len(c) + (Len(c) - k) = Len(n) - k
    OBVIOUS
  <2>2. QED
    BY <1>5, <2>1 DEF EndsWith
<1>6. QED
  BY <1>2, <1>3, <1>4, <1>5

\* A name has a number of characters
LEMMA CharLenType ==
  ASSUME NEW s \in Seq(Label)
  PROVE  LabelChars(s) \in Nat /\ CharLen(s) \in Int /\ CharLen(s) = LabelChars(s) + Len(s) - 1
<1>1. LabelChars(s) \in Nat
  BY ZippedLengths
<1>2. QED
  BY <1>1 DEF CharLen

\* DNSConstraint::matches is the suffix relation on labels
LEMMA ConstraintIsSuffix ==
  ASSUME NEW c \in Seq(Label), NEW n \in Seq(Label)
  PROVE  DNSConstraintMatches(c, n) <=> EndsWith(n, c)
<1>1. CASE Len(c) <= Len(n)
  <2>1. ASSUME EndsWith(n, c) PROVE CharLen(n) >= CharLen(c)
    <3>1. LabelChars(c) <= LabelChars(n)
      BY <1>1, <2>1, ZippedIsSuffix, ZippedLengths
    <3>2. QED
      BY <1>1, <3>1, CharLenType
  <2>2. QED
    BY <1>1, <2>1, ZippedIsSuffix DEF DNSConstraintMatches
<1>2. CASE Len(n) < Len(c)
  <2>1. ~EndsWith(n, c)
    BY <1>2 DEF EndsWith
  <2>2. ASSUME ZippedRLabelsAgree(c, n) PROVE CharLen(n) < CharLen(c)
    <3>1. LabelChars(n) <= LabelChars(c)
      BY <1>2, <2>2, ZippedIsSuffix, ZippedLengths
    <3>2. QED
      BY <1>2, <3>1, CharLenType
  <2>3. QED
    BY <2>1, <2>2, CharLenType DEF DNSConstraintMatches
<1>3. QED
  BY <1>1, <1>2

\* DNSName::is_subdomain_of is the proper suffix relation
LEMMA SubdomainIsProperSuffix ==
  ASSUME NEW c \in Seq(Label), NEW n \in Seq(Label)
  PROVE  IsSubdomainOf(n, c) <=> EndsWith(n, c) /\ Len(n) > Len(c)
<1>1. CASE Len(c) < Len(n)
  <2>1. ASSUME EndsWith(n, c) PROVE CharLen(n) > CharLen(c)
    <3>1. LabelChars(c) <= LabelChars(n)
      BY <1>1, <2>1, ZippedIsSuffix, ZippedLengths
    <3>2. QED
      BY <1>1, <3>1, CharLenType
  <2>2. QED
    BY <1>1, <2>1, ZippedIsSuffix DEF IsSubdomainOf
<1>2. CASE Len(n) <= Len(c)
  <2>1. ASSUME ZippedRLabelsAgree(n, c) PROVE CharLen(n) <= CharLen(c)
    <3>1. LabelChars(n) <= LabelChars(c)
      BY <1>2, <2>1, ZippedIsSuffix, ZippedLengths
    <3>2. QED
      BY <1>2, <3>1, CharLenType
  <2>2. QED
    BY <1>2, <2>1, CharLenType DEF IsSubdomainOf
<1>3. QED
  BY <1>1, <1>2

\* Equality of names is the suffix relation on as many labels
LEMMA SameIsSuffix ==
  ASSUME NEW a \in Seq(Label), NEW b \in Seq(Label)
  PROVE  SameDNS(a, b) <=> EndsWith(b, a) /\ Len(a) = Len(b)
<1>1. ASSUME Len(a) = Len(b), NEW i \in DOMAIN a PROVE Len(b) - Len(a) + i = i
  BY <1>1
<1>2. QED
  BY <1>1 DEF SameDNS, EndsWith

LEMMA SameIsNoLonger ==
  ASSUME NEW a \in Seq(Label), NEW b \in Seq(Label)
  PROVE  SameDNS(a, b) <=> EndsWith(b, a) /\ ~(Len(b) > Len(a))
<1>1. EndsWith(b, a) => Len(a) <= Len(b)
  BY DEF EndsWith
<1>2. Len(a) <= Len(b) => (Len(a) = Len(b) <=> ~(Len(b) > Len(a)))
  OBVIOUS
<1>3. QED
  BY <1>1, <1>2, SameIsSuffix

LEMMA SameSymmetric ==
  ASSUME NEW a \in Seq(Label), NEW b \in Seq(Label)
  PROVE  SameDNS(a, b) <=> SameDNS(b, a)
BY DEF SameDNS

\* DNSName::parent is None for names of one label only
LEMMA ParentIsName ==
  ASSUME NEW n \in Seq(Label), IsDNSName(n), Len(n) > 1
  PROVE  HasParent(n)
<1> DEFINE t == Tail(n)
<1>1. t \in Seq(Label) /\ Len(t) = Len(n) - 1 /\ \A i \in DOMAIN t : t[i] = n[i + 1]
  OBVIOUS
<1>2. \A i \in DOMAIN t : LabelLen[t[i]] \in 1 .. MaxLabelLen /\ t[i] \in HostLabel
  <2> TAKE i \in DOMAIN t
  <2>1. i + 1 \in DOMAIN n
    BY <1>1
  <2>2. QED
    BY <1>1, <2>1 DEF IsDNSName
<1>3. EndsWith(n, t)
  <2>1. \A i \in DOMAIN t : Len(n) - Len(t) + i = i + 1
    BY <1>1
  <2>2. QED
    BY <1>1, <2>1 DEF EndsWith
<1> HIDE DEF t
<1>4. CharLen(t) <= CharLen(n)
  <2>1. LabelChars(t) <= LabelChars(n)
    BY <1>1, <1>3, ZippedIsSuffix, ZippedLengths
  <2>2. QED
    BY <1>1, <2>1, CharLenType
<1>5. CharLen(t) >= 1
  <2>1. PICK f \in [0 .. Len(t) -> Nat] :
          /\ f[0] = 0
          /\ \A k \in 1 .. Len(t) : f[k] = f[k - 1] + LabelLen[t[Len(t) - k + 1]]
          /\ LabelChars(t) = f[Len(t)]
    BY <1>1, LabelCharsCounts
  <2>2. CASE Len(t) = 1
    <3>1. f[1] = f[0] + LabelLen[t[1]]
      BY <2>1, <2>2
    <3>2. LabelLen[t[1]] >= 1 /\ LabelLen[t[1]] \in Int
      BY <1>1, <1>2, <2>2, LabelAssumption
    <3>3. LabelChars(t) >= 1
      BY <2>1, <2>2, <3>1, <3>2
    <3>4. QED
      BY <1>1, <2>2, <3>3, CharLenType
  <2>3. CASE Len(t) > 1
    BY <1>1, <2>3, CharLenType
  <2>4. QED
    BY <1>1, <2>2, <2>3
<1>6. CharLen(t) \in 1 .. MaxNameLen
  <2>1. CharLen(n) \in 1 .. MaxNameLen
    BY DEF IsDNSName
  <2>2. QED
    BY <1>1, <1>4, <1>5, <2>1, CharLenType, LabelAssumption
<1>7. QED
  BY <1>2, <1>6 DEF HasParent, IsDNSName, t

\* The inner name of a pattern is made of labels
LEMMA InnerNameType ==
  ASSUME NEW p \in Seq(Label)
  PROVE  /\ InnerName(p) \in Seq(Label)
         /\ IsWildcard(p) => InnerName(p) = Tail(p) /\ Len(InnerName(p)) = Len(p) - 1
         /\ ~IsWildcard(p) => InnerName(p) = p
BY DEF InnerName, IsWildcard

\* What DNSPattern::matches says of a name
LEMMA PatternMatches ==
  ASSUME NEW p \in Seq(Label), NEW n \in Seq(Label), IsDNSName(n), IsDNSPattern(p)
  PROVE  DNSPatternMatches(p, n) <=> EndsWith(n, InnerName(p)) /\ Len(n) = Len(p)
<1>1. CASE ~IsWildcard(p)
  BY <1>1, InnerNameType, SameIsSuffix DEF DNSPatternMatches
<1>2. CASE IsWildcard(p)
  <2> DEFINE inner == InnerName(p)
  <2>1. inner \in Seq(Label) /\ Len(inner) = Len(p) - 1 /\ Len(p) > 1
    BY <1>2, InnerNameType DEF IsWildcard
  <2> HIDE DEF inner
  <2>2. ASSUME Len(n) > 1
        PROVE  SameDNS(inner, Tail(n)) <=> EndsWith(n, inner) /\ Len(n) = Len(p)
    <3> DEFINE t == Tail(n)
    <3>1. t \in Seq(Label) /\ Len(t) = Len(n) - 1 /\ \A i \in DOMAIN t : t[i] = n[i + 1]
      BY <2>2
    <3> HIDE DEF t
    <3>2. SameDNS(inner, t) <=> Len(inner) = Len(t) /\ \A i \in DOMAIN inner : Fold[inner[i]] = Fold[t[i]]
      BY DEF SameDNS
    <3>3. ASSUME Len(inner) = Len(t), NEW i \in DOMAIN inner
          PROVE  t[i] = n[Len(n) - Len(inner) + i]
      <4>1. i \in DOMAIN t /\ Len(n) - Len(inner) + i = i + 1
        BY <2>1, <3>1, <3>3
      <4>2. QED
        BY <3>1, <4>1
    <3>4. (Len(inner) = Len(t)) <=> (Len(n) = Len(p))
      BY <2>1, <3>1
    <3>5. Len(inner) = Len(t) => Len(inner) <= Len(n)
      BY <2>1, <3>1
    <3>6. SameDNS(inner, t) <=> EndsWith(n, inner) /\ Len(inner) = Len(t)
      BY <3>2, <3>3, <3>5 DEF EndsWith
    <3>7. QED
      BY <3>4, <3>6 DEF t
  <2>3. Len(n) = Len(p) => Len(n) > 1
    BY <2>1
  <2>4. Len(n) > 1 => HasParent(n)
    BY ParentIsName
  <2>5. DNSPatternMatches(p, n) <=> HasParent(n) /\ SameDNS(inner, Tail(n))
    BY <1>2 DEF DNSPatternMatches, inner
  <2>6. HasParent(n) => Len(n) > 1
    BY DEF HasParent
  <2>7. QED
    BY <2>2, <2>3, <2>4, <2>5, <2>6 DEF inner
<1>3. QED
  BY <1>1, <1>2

-----------------------------------------------------------------------------
(* Subnets                                                                 *)

\* The leading ones of a word are its first bits, and a word has no other ones
\* exactly if it has no hole
LEMMA LeadingOnesPrefix ==
  ASSUME NEW b \in Seq({0, 1})
  PROVE  /\ LeadingOnes(b) \in 0 .. Len(b)
         /\ \A i \in 1 .. LeadingOnes(b) : b[i] = 1
         /\ LeadingOnes(b) < Len(b) => b[LeadingOnes(b) + 1] = 0
<1> DEFINE Zeros == {i \in 1 .. Len(b) + 1 : i = Len(b) + 1 \/ b[i] = 0}
           Lead == {i \in DOMAIN b : \A j \in 1 .. i : b[j] = 1}
<1>1. Zeros \subseteq Nat /\ Zeros # {}
  <2>1. Len(b) + 1 \in Zeros
    OBVIOUS
  <2>2. QED
    BY <2>1
<1>2. PICK z \in Zeros : \A y \in Zeros : z <= y
  <2> HIDE DEF Zeros
  <2> QED
    BY <1>1, LeastNatural
<1>3. z - 1 \in 0 .. Len(b) /\ \A i \in 1 .. z - 1 : b[i] = 1
  <2>1. z \in 1 .. Len(b) + 1
    BY <1>2
  <2>2. ASSUME NEW i \in 1 .. z - 1 PROVE b[i] = 1
    <3>1. i \in 1 .. Len(b) /\ i \notin Zeros
      BY <1>2, <2>1
    <3>2. b[i] \in {0, 1}
      BY <3>1
    <3>3. QED
      BY <3>1, <3>2
  <2>3. QED
    BY <2>1, <2>2
<1>4. Lead = 1 .. z - 1
  <2>1. ASSUME NEW i \in 1 .. z - 1 PROVE i \in Lead
    BY <1>3
  <2>2. ASSUME NEW i \in Lead PROVE i \in 1 .. z - 1
    <3>1. i \in 1 .. Len(b) /\ \A j \in 1 .. i : b[j] = 1
      OBVIOUS
    <3>2. z <= i => b[z] = 1
      BY <1>2, <3>1
    <3>3. z <= i => b[z] = 0
      BY <1>2, <3>1
    <3>4. QED
      BY <1>2, <3>1, <3>2, <3>3
  <2>3. QED
    BY <2>1, <2>2
<1>5. LeadingOnes(b) = z - 1
  <2>1. LeadingOnes(b) = Cardinality(Lead)
    BY DEF LeadingOnes
  <2>2. Cardinality(1 .. z - 1) = z - 1
    BY <1>3, FS_Interval
  <2>3. QED
    BY <1>4, <2>1, <2>2
<1>6. z - 1 < Len(b) => b[z] = 0
  BY <1>2
<1>7. QED
  BY <1>2, <1>3, <1>5, <1>6

\* IPAddress::as_prefix is Some exactly for masks without a hole
LEMMA PrefixIffNoHole ==
  ASSUME NEW b \in Seq({0, 1})
  PROVE  LeadingOnes(b) = CountOnes(b) <=> \A i \in 1 .. Len(b) : b[i] = 1 => i <= LeadingOnes(b)
<1> DEFINE p == LeadingOnes(b)
           Ones == {i \in DOMAIN b : b[i] = 1}
<1>1. p \in 0 .. Len(b) /\ \A i \in 1 .. p : b[i] = 1
  BY LeadingOnesPrefix
<1> HIDE DEF p
<1>2. 1 .. p \subseteq Ones /\ Ones \subseteq 1 .. Len(b)
  BY <1>1
<1>3. IsFiniteSet(Ones)
  BY <1>2, FS_Interval, FS_Subset
<1>4. IsFiniteSet(1 .. p) /\ Cardinality(1 .. p) = p
  BY <1>1, FS_Interval
<1>5. CountOnes(b) = Cardinality(Ones)
  BY DEF CountOnes
<1>6. (Cardinality(1 .. p) = Cardinality(Ones)) <=> (Ones = 1 .. p)
  <2> HIDE DEF Ones
  <2> QED
    BY <1>2, <1>3, FS_Subset
<1>7. (Ones = 1 .. p) <=> \A i \in 1 .. Len(b) : b[i] = 1 => i <= p
  <2>1. ASSUME \A i \in 1 .. Len(b) : b[i] = 1 => i <= p PROVE Ones \subseteq 1 .. p
    BY <1>1, <2>1
  <2>2. ASSUME Ones = 1 .. p, NEW i \in 1 .. Len(b), b[i] = 1 PROVE i <= p
    <3>1. i \in Ones
      BY <2>2
    <3>2. i \in 1 .. p
      BY <2>2, <3>1
    <3>3. QED
      BY <1>1, <3>2
  <2>3. QED
    BY <1>2, <2>1, <2>2
<1>8. QED
  BY <1>4, <1>5, <1>6, <1>7 DEF p

\* IPAddress::mask keeps the first bits and clears the others, from none to all
LEMMA MaskKeepsPrefix ==
  ASSUME NEW b \in Seq({0, 1}), NEW p \in 0 .. Len(b)
  PROVE  Mask(b, p) = [i \in DOMAIN b |-> IF i <= p THEN b[i] ELSE 0]
<1> DEFINE w == Len(b)
           n == w - p
           max == MaxWord(w)
           right == CheckedShr(max, n)
           word == CheckedShl(right, n)
<1>1. MaskWord(w, p) = word
  BY DEF MaskWord
<1>2. DOMAIN max = 1 .. w /\ Len(max) = w /\ \A i \in 1 .. w : max[i] = 1
  BY DEF MaxWord
<1> HIDE DEF max
<1>3. /\ DOMAIN right = 1 .. w /\ Len(right) = w
      /\ \A i \in 1 .. w : right[i] = IF n < w /\ n < i THEN max[i - n] ELSE 0
  BY <1>2 DEF CheckedShr
<1> HIDE DEF right
<1>4. \A i \in 1 .. w : word[i] = IF n < w /\ i + n <= w THEN right[i + n] ELSE 0
  BY <1>3 DEF CheckedShl
<1> HIDE DEF word
<1>5. \A i \in 1 .. w : word[i] = IF i <= p THEN 1 ELSE 0
  <2> TAKE i \in 1 .. w
  <2>1. CASE i <= p
    <3>1. n < w /\ i + n <= w /\ i + n \in 1 .. w /\ n < i + n /\ (i + n) - n = i
      BY <2>1
    <3>2. QED
      BY <1>2, <1>3, <1>4, <2>1, <3>1
  <2>2. CASE ~(i <= p)
    <3>1. ~(i + n <= w)
      BY <2>2
    <3>2. QED
      BY <1>4, <2>2, <3>1
  <2>3. QED
    BY <2>1, <2>2
<1>6. \A i \in 1 .. w : b[i] * word[i] = IF i <= p THEN b[i] ELSE 0
  <2> TAKE i \in 1 .. w
  <2>1. b[i] \in {0, 1}
    OBVIOUS
  <2>2. QED
    BY <1>5, <2>1
<1>7. QED
  BY <1>1, <1>6 DEF Mask

\* The two halves of the octets of a constraint
LEMMA SubnetHalves ==
  ASSUME NEW b \in Seq({0, 1}), NEW w \in Nat, Len(b) = 2 * w
  PROVE  /\ SubnetBits(b) \in Seq({0, 1}) /\ Len(SubnetBits(b)) = w
         /\ \A i \in 1 .. w : SubnetBits(b)[i] = b[i]
         /\ SubnetMask(b) \in Seq({0, 1}) /\ Len(SubnetMask(b)) = w
         /\ \A i \in 1 .. w : SubnetMask(b)[i] = b[w + i]
<1>1. Len(b) \div 2 = w
  OBVIOUS
<1>2. SubnetBits(b) = SubSeq(b, 1, w) /\ SubnetMask(b) = SubSeq(b, w + 1, 2 * w)
  BY <1>1 DEF SubnetBits, SubnetMask
<1>3. SubSeq(b, 1, w) \in Seq({0, 1}) /\ Len(SubSeq(b, 1, w)) = w
      /\ \A i \in 1 .. w : SubSeq(b, 1, w)[i] = b[i]
  OBVIOUS
<1>4. SubSeq(b, w + 1, 2 * w) \in Seq({0, 1}) /\ Len(SubSeq(b, w + 1, 2 * w)) = w
      /\ \A i \in 1 .. w : SubSeq(b, w + 1, 2 * w)[i] = b[w + i]
  OBVIOUS
<1>5. QED
  BY <1>2, <1>3, <1>4

\* IPConstraint::from_bytes is None for a mask with a hole: a zero before a one
LEMMA HoleIsRefused ==
  ASSUME NEW b \in Seq({0, 1}), NEW w \in Nat, Len(b) = 2 * w
  PROVE  LeadingOnes(SubnetMask(b)) # CountOnes(SubnetMask(b)) <=>
           \E i, j \in w + 1 .. 2 * w : i < j /\ b[i] < b[j]
<1> DEFINE m == SubnetMask(b)
           p == LeadingOnes(m)
<1>1. m \in Seq({0, 1}) /\ Len(m) = w /\ \A i \in 1 .. w : m[i] = b[w + i]
  BY SubnetHalves
<1> HIDE DEF m
<1>2. p \in 0 .. w /\ (\A i \in 1 .. p : m[i] = 1) /\ (p < w => m[p + 1] = 0)
  BY <1>1, LeadingOnesPrefix
<1>3. p = CountOnes(m) <=> \A i \in 1 .. w : m[i] = 1 => i <= p
  BY <1>1, PrefixIffNoHole
<1> HIDE DEF p
<1>4. ASSUME p # CountOnes(m) PROVE \E i, j \in w + 1 .. 2 * w : i < j /\ b[i] < b[j]
  <2>1. PICK j \in 1 .. w : m[j] = 1 /\ p < j
    BY <1>2, <1>3, <1>4
  <2>2. p + 1 \in 1 .. w /\ m[p + 1] = 0 /\ p + 1 # j
    BY <1>2, <2>1
  <2>3. b[w + (p + 1)] = 0 /\ b[w + j] = 1 /\ w + (p + 1) < w + j
        /\ w + (p + 1) \in w + 1 .. 2 * w /\ w + j \in w + 1 .. 2 * w
    BY <1>1, <1>2, <2>1, <2>2
  <2>4. QED
    BY <2>3
<1>5. ASSUME NEW i \in w + 1 .. 2 * w, NEW j \in w + 1 .. 2 * w, i < j, b[i] < b[j], p = CountOnes(m)
      PROVE  FALSE
  <2>1. i - w \in 1 .. w /\ j - w \in 1 .. w /\ w + (i - w) = i /\ w + (j - w) = j
    OBVIOUS
  <2>2. m[i - w] = b[i] /\ m[j - w] = b[j]
    BY <1>1, <2>1
  <2>3. b[i] \in {0, 1} /\ b[j] \in {0, 1}
    OBVIOUS
  <2>4. b[i] = 0 /\ b[j] = 1
    BY <1>5, <2>3
  <2>5. j - w <= p
    BY <1>3, <1>5, <2>1, <2>2, <2>4
  <2>6. i - w \in 1 .. p
    BY <1>2, <1>5, <2>1, <2>5
  <2>7. m[i - w] = 1
    BY <1>2, <2>6
  <2>8. QED
    BY <2>2, <2>4, <2>7
<1>6. QED
  BY <1>4, <1>5 DEF m, p

\* IPConstraint::matches compares exactly the bits that the mask selects
LEMMA SubnetCompares ==
  ASSUME NEW b \in Seq({0, 1}), NEW ip \in Seq({0, 1}), NEW w \in Nat, Len(b) = 2 * w,
         LeadingOnes(SubnetMask(b)) = CountOnes(SubnetMask(b))
  PROVE  IPConstraintMatches(b, ip) <=>
           /\ Len(ip) = w
           /\ \A i \in DOMAIN ip : b[Len(ip) + i] = 1 => b[i] = ip[i]
<1> DEFINE m == SubnetMask(b)
           a == SubnetBits(b)
           p == LeadingOnes(m)
<1>1. /\ m \in Seq({0, 1}) /\ Len(m) = w /\ \A i \in 1 .. w : m[i] = b[w + i]
      /\ a \in Seq({0, 1}) /\ Len(a) = w /\ \A i \in 1 .. w : a[i] = b[i]
  BY SubnetHalves
<1>2. IPConstraintMatches(b, ip) <=> Mask(a, p) = Mask(ip, p)
  BY DEF IPConstraintMatches
<1>3. p = CountOnes(m)
  OBVIOUS
<1> HIDE DEF m, a
<1>4. p \in 0 .. w /\ (\A i \in 1 .. p : m[i] = 1) /\ \A i \in 1 .. w : m[i] = 1 => i <= p
  BY <1>1, <1>3, LeadingOnesPrefix, PrefixIffNoHole
<1> HIDE DEF p
<1>5. Mask(a, p) = [i \in 1 .. w |-> IF i <= p THEN a[i] ELSE 0]
  <2>1. DOMAIN a = 1 .. w /\ p \in 0 .. Len(a)
    BY <1>1, <1>4
  <2>2. Mask(a, p) = [i \in DOMAIN a |-> IF i <= p THEN a[i] ELSE 0]
    BY <1>1, <2>1, MaskKeepsPrefix
  <2>3. QED
    BY <2>1, <2>2, Zenon
<1>6. ASSUME Len(ip) = w PROVE Mask(ip, p) = [i \in 1 .. w |-> IF i <= p THEN ip[i] ELSE 0]
  <2>1. DOMAIN ip = 1 .. w /\ p \in 0 .. Len(ip)
    BY <1>4, <1>6
  <2>2. Mask(ip, p) = [i \in DOMAIN ip |-> IF i <= p THEN ip[i] ELSE 0]
    BY <2>1, MaskKeepsPrefix
  <2>3. QED
    BY <2>1, <2>2, Zenon
<1>7. Mask(a, p) = Mask(ip, p) => Len(ip) = w
  <2>1. DOMAIN Mask(a, p) = 1 .. w /\ DOMAIN Mask(ip, p) = 1 .. Len(ip)
    BY <1>1 DEF Mask
  <2>2. QED
    BY <2>1
<1>8. ASSUME Len(ip) = w
      PROVE  Mask(a, p) = Mask(ip, p) <=> \A i \in 1 .. w : b[w + i] = 1 => b[i] = ip[i]
  <2>1. ASSUME Mask(a, p) = Mask(ip, p), NEW i \in 1 .. w, b[w + i] = 1 PROVE b[i] = ip[i]
    <3>1. i <= p
      BY <1>1, <1>4, <2>1
    <3>2. Mask(a, p)[i] = a[i] /\ Mask(ip, p)[i] = ip[i]
      BY <1>5, <1>6, <1>8, <3>1
    <3>3. QED
      BY <1>1, <2>1, <3>2
  <2>2. ASSUME \A i \in 1 .. w : b[w + i] = 1 => b[i] = ip[i] PROVE Mask(a, p) = Mask(ip, p)
    <3>1. \A i \in 1 .. w : i <= p => a[i] = ip[i]
      BY <1>1, <1>4, <2>2
    <3>2. QED
      BY <1>5, <1>6, <1>8, <3>1
  <2>3. QED
    BY <2>1, <2>2
<1>9. ASSUME Len(ip) = w
      PROVE  (\A i \in DOMAIN ip : b[Len(ip) + i] = 1 => b[i] = ip[i])
               <=> \A i \in 1 .. w : b[w + i] = 1 => b[i] = ip[i]
  BY <1>9
<1>10. QED
  BY <1>2, <1>7, <1>8, <1>9

-----------------------------------------------------------------------------
(* What is asked and what is answered                                      *)

\* The type of general name that a question is about
TypeAsked(q) == CASE q = "dns_constraint" -> "DNSName"
             [] q = "ip_constraint"  -> "IPAddress"
             [] OTHER                -> "RFC822Name"

\* The names of a question are of its kind, and a reply is what the code makes
\* of them: the inductive invariant of NameMatching
NamesInv ==
  /\ \/ question \in {"dns_constraint", "dns_subject"} /\ asked \in DNSStrings /\ presented \in DNSStrings
     \/ question = "ip_constraint" /\ asked \in BitStrings /\ presented \in BitStrings
     \/ question = "mail_constraint" /\ asked \in Mailboxes /\ presented \in Mailboxes
  /\ \/ reply = "unasked"
     \/ /\ question = "dns_subject" /\ IsDNSName(asked)
        /\ reply = IF SubjectMatches(GN("DNSName", asked), << GN("DNSName", presented) >>)
                   THEN Match ELSE NoMatch
     \/ /\ question # "dns_subject"
        /\ reply = EvaluateSingleConstraint(GN(TypeAsked(question), asked), GN(TypeAsked(question), presented))

LEMMA NamesInvInit == NamesInit => NamesInv
BY DEF NamesInit, NamesInv

LEMMA NamesInvNext == NamesInv /\ [NamesNext]_nameVars => NamesInv'
<1> SUFFICES ASSUME NamesInv, [NamesNext]_nameVars PROVE NamesInv'
  OBVIOUS
<1>1. CASE UNCHANGED nameVars
  BY <1>1 DEF nameVars, NamesInv
<1>2. CASE NamesNext /\ AskSubject
  BY <1>2 DEF NamesNext, AskSubject, NamesInv
<1>3. CASE NamesNext /\ AskConstraint
  BY <1>3 DEF NamesNext, AskConstraint, NamesInv, TypeAsked
<1>4. QED
  BY <1>1, <1>2, <1>3 DEF NamesNext

LEMMA EvaluatedCases ==
  ASSUME NEW parses \in BOOLEAN, NEW matches \in BOOLEAN
  PROVE  /\ Evaluated(parses, matches) # "unasked"
         /\ Evaluated(parses, matches) = Failed <=> ~parses
         /\ Evaluated(parses, matches) = Match <=> parses /\ matches
         /\ Evaluated(parses, matches) \in {Match, NoMatch} <=> parses
BY DEF Evaluated, Failed, Match, NoMatch

LEMMA LenType ==
  ASSUME NEW S, NEW s \in Seq(S)
  PROVE  Len(s) \in Nat /\ DOMAIN s = 1 .. Len(s)
OBVIOUS

\* The replies to a question about a DNS constraint
LEMMA DNSReply ==
  ASSUME NamesInv, question = "dns_constraint", reply # "unasked"
  PROVE  /\ asked \in Seq(Label) /\ presented \in Seq(Label)
         /\ reply = Match <=> /\ IsDNSName(asked) /\ IsDNSPattern(presented)
                              /\ EndsWith(InnerName(presented), asked)
         /\ reply \in {Match, NoMatch} => IsDNSName(asked) /\ IsDNSPattern(presented)
<1>1. asked \in Seq(Label) /\ presented \in Seq(Label)
  BY StringsAssumption DEF NamesInv
<1> DEFINE parses == IsDNSName(asked) /\ IsDNSPattern(presented)
           matches == DNSConstraintMatches(asked, InnerName(presented))
<1>2. reply = Evaluated(parses, matches)
  BY DEF NamesInv, TypeAsked, GN, EvaluateSingleConstraint
<1>3. parses \in BOOLEAN /\ matches \in BOOLEAN
  BY DEF IsDNSName, IsDNSPattern, DNSConstraintMatches
<1>4. matches <=> EndsWith(InnerName(presented), asked)
  BY <1>1, InnerNameType, ConstraintIsSuffix
<1> HIDE DEF parses, matches
<1>5. QED
  BY <1>1, <1>2, <1>3, <1>4, EvaluatedCases DEF parses

LEMMA DNSMatchingFollows == NamesInv => DNSMatching
<1> SUFFICES ASSUME NamesInv PROVE DNSMatching
  OBVIOUS
<1>1. DNSConstraintIsSuffix
  <2> SUFFICES ASSUME question = "dns_constraint", reply \in {Match, NoMatch}
               PROVE  (reply = Match) = EndsWith(InnerName(presented), asked)
    BY DEF DNSConstraintIsSuffix
  <2>1. reply # "unasked"
    BY DEF Match, NoMatch
  <2>2. (reply = Match) <=> EndsWith(InnerName(presented), asked)
    BY <2>1, DNSReply
  <2>3. EndsWith(InnerName(presented), asked) \in BOOLEAN
    BY DEF EndsWith
  <2>4. QED
    BY <2>2, <2>3
<1>2. WildcardWithinSubtree
  <2> SUFFICES ASSUME question = "dns_constraint", reply = Match, NEW n \in DNSStrings,
                      IsDNSName(n), DNSPatternMatches(presented, n)
               PROVE  EndsWith(n, asked)
    BY DEF WildcardWithinSubtree
  <2> DEFINE inner == InnerName(presented)
  <2>1. /\ asked \in Seq(Label) /\ presented \in Seq(Label) /\ n \in Seq(Label)
        /\ IsDNSPattern(presented) /\ EndsWith(inner, asked)
    BY DNSReply, StringsAssumption DEF Match
  <2>2. inner \in Seq(Label)
    BY <2>1, InnerNameType
  <2>3. EndsWith(n, inner)
    BY <2>1, PatternMatches
  <2> HIDE DEF inner
  <2>4. /\ Len(asked) <= Len(inner) /\ Len(inner) <= Len(n)
        /\ Len(asked) \in Nat /\ Len(inner) \in Nat /\ Len(n) \in Nat
        /\ DOMAIN asked = 1 .. Len(asked) /\ DOMAIN inner = 1 .. Len(inner)
    BY <2>1, <2>2, <2>3, LenType DEF EndsWith
  <2>5. ASSUME NEW i \in DOMAIN asked
        PROVE  Fold[n[Len(n) - Len(asked) + i]] = Fold[asked[i]]
    <3> DEFINE j == Len(inner) - Len(asked) + i
    <3>1. j \in DOMAIN inner /\ Len(n) - Len(inner) + j = Len(n) - Len(asked) + i
      BY <2>4
    <3>2. Fold[inner[j]] = Fold[asked[i]]
      BY <2>1 DEF EndsWith
    <3> HIDE DEF j
    <3>3. Fold[n[Len(n) - Len(inner) + j]] = Fold[inner[j]]
      BY <2>3, <3>1 DEF EndsWith
    <3>4. QED
      BY <3>1, <3>2, <3>3
  <2>6. Len(asked) <= Len(n)
    BY <2>4
  <2>7. QED
    BY <2>5, <2>6 DEF EndsWith
<1>3. WildcardIsOneLabel
  <2> SUFFICES ASSUME question = "dns_subject", reply # "unasked"
               PROVE  (reply = Match) = /\ IsDNSPattern(presented)
                                        /\ EndsWith(asked, InnerName(presented))
                                        /\ Len(asked) = Len(presented)
    BY DEF WildcardIsOneLabel
  <2>1. asked \in Seq(Label) /\ presented \in Seq(Label) /\ IsDNSName(asked)
    BY StringsAssumption DEF NamesInv
  <2>2. reply = IF SubjectMatches(GN("DNSName", asked), << GN("DNSName", presented) >>)
                THEN Match ELSE NoMatch
    BY DEF NamesInv
  <2>3. SubjectMatches(GN("DNSName", asked), << GN("DNSName", presented) >>)
          <=> IsDNSPattern(presented) /\ DNSPatternMatches(presented, asked)
    <3> DEFINE sans == << GN("DNSName", presented) >>
    <3>1. DOMAIN sans = {1} /\ sans[1].type = "DNSName" /\ sans[1].value = presented
      BY DEF GN
    <3>2. GN("DNSName", asked).type = "DNSName" /\ GN("DNSName", asked).value = asked
      BY DEF GN
    <3> HIDE DEF sans
    <3>3. SubjectMatches(GN("DNSName", asked), sans)
            <=> IsDNSPattern(presented) /\ DNSPatternMatches(presented, asked)
      BY <3>1, <3>2 DEF SubjectMatches
    <3>4. QED
      BY <3>3 DEF sans
  <2>4. reply = Match <=> IsDNSPattern(presented) /\ DNSPatternMatches(presented, asked)
    BY <2>2, <2>3 DEF Match, NoMatch
  <2>5. reply = Match <=> /\ IsDNSPattern(presented)
                          /\ EndsWith(asked, InnerName(presented))
                          /\ Len(asked) = Len(presented)
    BY <2>1, <2>4, PatternMatches
  <2>6. QED
    BY <2>5
<1>4. QED
  BY <1>1, <1>2, <1>3 DEF DNSMatching

\* The replies to a question about a subnet
LEMMA SubnetReply ==
  ASSUME NamesInv, question = "ip_constraint", reply # "unasked"
  PROVE  /\ asked \in Seq({0, 1}) /\ presented \in Seq({0, 1})
         /\ reply = Match <=> /\ IsIPConstraint(asked) /\ IsIPAddress(presented)
                              /\ IPConstraintMatches(asked, presented)
         /\ reply \in {Match, NoMatch} <=> IsIPConstraint(asked) /\ IsIPAddress(presented)
         /\ reply = Failed <=> ~(IsIPConstraint(asked) /\ IsIPAddress(presented))
<1>1. asked \in Seq({0, 1}) /\ presented \in Seq({0, 1})
  BY StringsAssumption DEF NamesInv
<1> DEFINE parses == IsIPConstraint(asked) /\ IsIPAddress(presented)
           matches == IPConstraintMatches(asked, presented)
<1>2. reply = Evaluated(parses, matches)
  BY DEF NamesInv, TypeAsked, GN, EvaluateSingleConstraint
<1>3. parses \in BOOLEAN /\ matches \in BOOLEAN
  BY DEF IsIPConstraint, IsIPAddress, IPConstraintMatches
<1> HIDE DEF parses, matches
<1>4. QED
  BY <1>1, <1>2, <1>3, EvaluatedCases DEF parses, matches

LEMMA SubnetMatchingFollows == NamesInv => SubnetMatching
<1> SUFFICES ASSUME NamesInv, question = "ip_constraint", reply # "unasked"
             PROVE  SubnetIsMask /\ BadSubnetIsError
  BY DEF SubnetMatching, SubnetIsMask, BadSubnetIsError, Match, NoMatch
<1>1. asked \in Seq({0, 1}) /\ presented \in Seq({0, 1})
  BY SubnetReply
<1>2. SubnetIsMask
  <2> SUFFICES ASSUME reply \in {Match, NoMatch}
               PROVE  (reply = Match) =
                        /\ 2 * Len(presented) = Len(asked)
                        /\ \A i \in DOMAIN presented :
                             asked[Len(presented) + i] = 1 => asked[i] = presented[i]
    BY DEF SubnetIsMask
  <2>1. IsIPConstraint(asked) /\ IsIPAddress(presented)
    BY SubnetReply
  <2>2. PICK w \in Nat : Len(asked) = 2 * w
    BY <2>1, LabelAssumption DEF IsIPConstraint
  <2>3. LeadingOnes(SubnetMask(asked)) = CountOnes(SubnetMask(asked))
    BY <2>1 DEF IsIPConstraint
  <2>4. IPConstraintMatches(asked, presented) <=>
          /\ Len(presented) = w
          /\ \A i \in DOMAIN presented : asked[Len(presented) + i] = 1 => asked[i] = presented[i]
    BY <1>1, <2>2, <2>3, SubnetCompares
  <2>5. Len(presented) = w <=> 2 * Len(presented) = Len(asked)
    BY <1>1, <2>2, LenType
  <2>6. reply = Match <=> IPConstraintMatches(asked, presented)
    BY <2>1, SubnetReply
  <2>7. QED
    BY <2>4, <2>5, <2>6
<1>3. BadSubnetIsError
  <2>1. ASSUME NEW w \in Nat, Len(asked) = 2 * w
        PROVE  LeadingOnes(SubnetMask(asked)) # CountOnes(SubnetMask(asked)) <=>
                 \E i, j \in Len(asked) \div 2 + 1 .. Len(asked) : i < j /\ asked[i] < asked[j]
    <3>1. Len(asked) \div 2 = w
      <4>1. (2 * w) \div 2 = w
        OBVIOUS
      <4>2. QED
        BY <2>1, <4>1
    <3>2. QED
      BY <1>1, <2>1, <3>1, HoleIsRefused
  <2>2. Len(asked) \in {2 * V4Bits, 2 * V6Bits} => \E w \in Nat : Len(asked) = 2 * w
    BY LabelAssumption
  <2>3. ~(IsIPConstraint(asked) /\ IsIPAddress(presented)) <=>
          \/ Len(presented) \notin {V4Bits, V6Bits} \/ Len(asked) \notin {2 * V4Bits, 2 * V6Bits}
          \/ \E i, j \in Len(asked) \div 2 + 1 .. Len(asked) : i < j /\ asked[i] < asked[j]
    BY <2>1, <2>2 DEF IsIPConstraint, IsIPAddress
  <2>4. QED
    BY <2>3, SubnetReply DEF BadSubnetIsError
<1>4. QED
  BY <1>2, <1>3

LEMMA MailboxConstraintFollows == NamesInv => MailboxConstraint
<1> SUFFICES ASSUME NamesInv, question = "mail_constraint", reply \in {Match, NoMatch}
             PROVE  (reply = Match) =
                      /\ EndsWith(presented.domain, asked.domain)
                      /\ asked.dotted = (Len(presented.domain) > Len(asked.domain))
                      /\ asked.at => asked.local = presented.local
  BY DEF MailboxConstraint
<1>1. /\ asked.domain \in Seq(Label) /\ presented.domain \in Seq(Label)
      /\ asked.dotted \in BOOLEAN /\ asked.at \in BOOLEAN
  <2>1. asked \in Mailboxes /\ presented \in Mailboxes
    BY DEF NamesInv
  <2>2. QED
    BY <2>1, StringsAssumption
<1> DEFINE parses == IsRFC822Constraint(asked) /\ IsRFC822Name(presented)
           matches == RFC822ConstraintMatches(asked, presented)
<1>2. reply = Evaluated(parses, matches)
  BY DEF NamesInv, TypeAsked, GN, EvaluateSingleConstraint, Match, NoMatch
<1>3. parses \in BOOLEAN /\ matches \in BOOLEAN
  BY <1>1 DEF IsRFC822Constraint, IsRFC822Name, RFC822ConstraintMatches, IsSubdomainOf, SameDNS, IsDNSName
<1>4. parses /\ (reply = Match <=> matches)
  <2> HIDE DEF parses, matches
  <2> QED
    BY <1>2, <1>3, EvaluatedCases
<1>5. asked.dotted => ~asked.at
  BY <1>1, <1>4 DEF IsRFC822Constraint, IsRFC822Name
<1>6. SameDNS(asked.domain, presented.domain) <=>
        EndsWith(presented.domain, asked.domain) /\ ~(Len(presented.domain) > Len(asked.domain))
  BY <1>1, SameIsNoLonger
<1>7. SameDNS(presented.domain, asked.domain) <=> SameDNS(asked.domain, presented.domain)
  BY <1>1, SameSymmetric
<1>8. CASE asked.dotted
  BY <1>1, <1>4, <1>5, <1>8, SubdomainIsProperSuffix DEF RFC822ConstraintMatches
<1>9. CASE ~asked.dotted
  <2>1. asked.dotted = FALSE
    BY <1>1, <1>9
  <2>2. matches <=> /\ SameDNS(asked.domain, presented.domain)
                    /\ asked.at => asked.local = presented.local
    BY <1>1, <1>7, <1>9 DEF RFC822ConstraintMatches
  <2> HIDE DEF matches
  <2>3. (reply = Match) <=> /\ EndsWith(presented.domain, asked.domain)
                            /\ ~(Len(presented.domain) > Len(asked.domain))
                            /\ asked.at => asked.local = presented.local
    BY <1>4, <1>6, <2>2
  <2>4. (FALSE = (Len(presented.domain) > Len(asked.domain))) <=> ~(Len(presented.domain) > Len(asked.domain))
    OBVIOUS
  <2>5. (reply = Match) = /\ EndsWith(presented.domain, asked.domain)
                          /\ FALSE = (Len(presented.domain) > Len(asked.domain))
                          /\ asked.at => asked.local = presented.local
    BY <2>3, <2>4
  <2>6. QED
    BY <2>1, <2>5, Zenon
<1>10. QED
  BY <1>1, <1>8, <1>9

\* DNSConstraint::matches and DNSPattern::matches, which compare labels from the
\* right after a test on the number of characters, answer as RFC 5280 and RFC
\* 6125 define, for all labels and all lengths.
THEOREM DNSNamesMatch == NamesSpec => []DNSMatching
<1>1. NamesSpec => []NamesInv
  BY NamesInvInit, NamesInvNext, PTL DEF NamesSpec
<1>2. QED
  BY <1>1, DNSMatchingFollows, PTL

\* IPConstraint compares exactly the bits under its mask, for every width, and
\* refuses masks with a hole, which as_prefix finds by counting ones.
THEOREM SubnetsMatch == NamesSpec => []SubnetMatching
<1>1. NamesSpec => []NamesInv
  BY NamesInvInit, NamesInvNext, PTL DEF NamesSpec
<1>2. QED
  BY <1>1, SubnetMatchingFollows, PTL

\* RFC822Constraint::matches: a mailbox, a host, or the proper subdomains of a
\* domain, for all mailboxes.
THEOREM MailboxesMatch == NamesSpec => []MailboxConstraint
<1>1. NamesSpec => []NamesInv
  BY NamesInvInit, NamesInvNext, PTL DEF NamesSpec
<1>2. QED
  BY <1>1, MailboxConstraintFollows, PTL
=============================================================================
