--------------------------- MODULE ExtensionCodec ---------------------------
(***************************************************************************)
(* X.509 extensions as Python objects [oid, v] and as ASN.1 [asn, v]: how  *)
(* x509/extensions.rs writes them, how certificate.rs, crl.rs, ocsp_req.rs *)
(* and ocsp_resp.rs read them, and what the Python classes refuse.  A text *)
(* is a string; the ones that an encoding cannot hold are named.           *)
(***************************************************************************)
EXTENDS Asn1Values

CONSTANTS
  U32, U64,             \* 2^32 and 2^64
  TlsFeatures,          \* the values of TLSFeatureType
  SctHashes,            \* the hashes of an SCT, 1 .. 6
  SctSignatures,        \* its signature algorithms, 1 .. 3
  LogIdBytes,           \* 32
  TimestampBytes,       \* 8
  NonAscii,             \* texts that are no IA5String
  NonPrintable,         \* texts that are no PrintableString
  Wildcards             \* DNS names with an asterisk

ASSUME ExtensionCodecAssumption ==
  /\ U32 \in Nat /\ U64 \in Nat /\ LogIdBytes \in Nat /\ TimestampBytes \in Nat
  /\ TlsFeatures \subseteq Nat /\ SctHashes \subseteq Nat /\ SctSignatures \subseteq Nat

Asn(type, r) == IF r.error = "ok" THEN Ok([asn |-> type, v |-> r.v]) ELSE r
Extract(v, limit) == IF v \in 0 .. limit - 1 THEN Ok(v) ELSE Err("OverflowError")
ExtractU64(v) == Extract(v, U64)
ExtractU32(v) == Extract(v, U32)

-----------------------------------------------------------------------------
(* Key usage                                                               *)

KeyAgreement == 4
EncipherOrDecipherOnly == {7, 8}

\* usage is the set of the flags that are true, by their bits
encode_key_usage(usage) ==
  LET set == usage \ (IF KeyAgreement \in usage THEN {} ELSE EncipherOrDecipherOnly)
      b == IF \A n \in set : n < 8
           THEN IF set = {} THEN BitString(set, 0, 0) ELSE BitString(set, 1, TrailingZeros(set, 0))
           ELSE BitString(set, 2, TrailingZeros(set, 1))
  IN  IF WellFormed(b) THEN Ok(b) ELSE Err("panic")

\* KeyUsage refuses a usage without key agreement that restricts it
ParseKeyUsage(b) ==
  LET usage == {n \in 0 .. 8 : has_bit_set(b, n)}
  IN  IF KeyAgreement \notin usage /\ usage \cap EncipherOrDecipherOnly # {}
      THEN Err("ValueError") ELSE Ok(usage)

-----------------------------------------------------------------------------
(* Certificate policies: sequences of [id, qualifiers], a qualifier being   *)
(* [id, uri] or [id, notice, text]                                          *)

Utf8(text) == [tag |-> "Utf8String", text |-> text]
Falsy(text) == text = Nil \/ text = ""

EncodeNotice(n) ==
  Fields([org |-> IF n.org = Nil THEN Err("TypeError") ELSE Ok(Utf8(n.org)),
          numbers |-> Each(n.numbers, EncodeUint)], << "numbers", "org" >>)

EncodeQualifier(q) ==
  IF q.id = "CPS" THEN IF q.uri \in NonAscii THEN Err("ValueError") ELSE Ok(q)
  ELSE Fields([id |-> Ok(q.id), notice |-> Optional(q.notice, EncodeNotice),
               text |-> Ok(IF Falsy(q.text) THEN Nil ELSE Utf8(q.text))], << "notice" >>)

encode_certificate_policies(policies) ==
  LET Policy(p) ==
        Fields([id |-> Ok(p.id),
                qualifiers |-> IF Missing(p.qualifiers) THEN Ok(Nil)
                               ELSE Each(p.qualifiers, EncodeQualifier)], << "qualifiers" >>)
  IN  Each(policies, Policy)

\* A BMPString is decoded by Python and need not be UTF-16
parse_display_text(d) ==
  IF d.tag = "BmpString" /\ d.text = Nil THEN Err("UnicodeDecodeError") ELSE Ok(d.text)

parse_user_notice(q) ==
  LET Number(bytes) == Ok(big_byte_slice_to_py_int(bytes))
      Notice(n) == Fields([org |-> parse_display_text(n.org), numbers |-> Each(n.numbers, Number)],
                          << "org", "numbers" >>)
  IN  Fields([id |-> Ok("UserNotice"), notice |-> Optional(q.notice, Notice),
              text |-> Optional(q.text, parse_display_text)], << "text", "notice" >>)

\* The structure and the OID in front of it must agree
parse_policy_qualifier(q) ==
  LET isUri == "uri" \in DOMAIN q
  IN  IF isUri # (q.id = "CPS") THEN Err("ValueError")
      ELSE IF isUri THEN Ok(q) ELSE parse_user_notice(q)

parse_policy_qualifiers(qs) == Each(qs, parse_policy_qualifier)

parse_cp(policies) ==
  LET Policy(p) == Fields([id |-> Ok(p.id), qualifiers |-> Optional(p.qualifiers, parse_policy_qualifiers)],
                          << "qualifiers" >>)
  IN  Each(policies, Policy)

-----------------------------------------------------------------------------
(* Signed certificate timestamps: sequences of bytes, each list and each    *)
(* timestamp after its length in two bytes                                  *)

U16(n) == ToBytes(n % Byte ^ 2, 2)
Drop(s, n) == SubSeq(s, n + 1, Len(s))

Concatenated(scts) ==
  LET upto[i \in 0 .. Len(scts)] ==
        IF i = 0 THEN << >> ELSE upto[i - 1] \o U16(Len(scts[i])) \o scts[i]
  IN  upto[Len(scts)]

encode_scts(scts) == LET all == Concatenated(scts) IN Ok(U16(Len(all)) \o all)

read_exact(data, n) ==
  IF n > Len(data) THEN Err("ValueError")
  ELSE Ok([read |-> SubSeq(data, 1, n), rest |-> Drop(data, n)])

read_length_prefixed(data) ==
  IF Len(data) < 2 THEN Err("ValueError")
  ELSE read_exact(Drop(data, 2), FromBytes(SubSeq(data, 1, 2)))

\* What comes after the signature is not looked at
SctReadable(sct) ==
  LET fixed == 1 + LogIdBytes + TimestampBytes
      ext == read_length_prefixed(Drop(sct, fixed))
  IN  /\ Len(sct) >= fixed /\ sct[1] = 0 /\ ext.error = "ok"
      /\ Len(ext.v.rest) >= 2
      /\ ext.v.rest[1] \in SctHashes /\ ext.v.rest[2] \in SctSignatures
      /\ read_length_prefixed(Drop(ext.v.rest, 2)).error = "ok"

parse_scts(data) ==
  LET whole == read_length_prefixed(data)
      OneMore(st) == LET r == read_length_prefixed(st.rest)
                  IN  IF r.error = "ok" /\ SctReadable(r.v.read)
                      THEN [error |-> "ok", v |-> Append(st.v, r.v.read), rest |-> r.v.rest]
                      ELSE [error |-> "ValueError", v |-> Nil, rest |-> << >>]
      after[i \in 0 .. Len(data)] ==
        IF i = 0 THEN [error |-> "ok", v |-> << >>, rest |-> whole.v.read]
        ELSE LET st == after[i - 1] IN IF st.rest = << >> THEN st ELSE OneMore(st)
  IN  IF whole.error # "ok" THEN whole
      ELSE [error |-> after[Len(data)].error, v |-> after[Len(data)].v]

-----------------------------------------------------------------------------
(* Key identifiers, constraints, access descriptions                        *)

encode_authority_key_identifier(aki) ==
  Fields([key_identifier |-> Ok(aki.key_identifier),
          issuer |-> Optional(aki.issuer, encode_general_names),
          serial |-> Optional(aki.serial, EncodeUint)], << "issuer", "serial" >>)

\* AuthorityKeyIdentifier wants the issuer and the serial number, or neither
parse_authority_key_identifier(aki) ==
  LET Serial(bytes) == Ok(big_byte_slice_to_py_int(bytes))
      parts == Fields([key_identifier |-> Ok(aki.key_identifier),
                       issuer |-> Optional(aki.issuer, parse_general_names),
                       serial |-> Optional(aki.serial, Serial)], << "serial", "issuer" >>)
  IN  IF parts.error = "ok" /\ (aki.issuer = Nil) # (aki.serial = Nil)
      THEN Err("ValueError") ELSE parts

\* A subtree has a minimum of zero and no maximum; reading ignores both
encode_general_subtrees(names) ==
  LET Subtree(gn) == Fields([base |-> encode_general_name(gn)], << "base" >>)
  IN  Optional(names, LAMBDA s : Each(s, Subtree))

parse_general_subtrees(subtrees) ==
  LET Base(s) == parse_general_name(s.base) IN Optional(subtrees, LAMBDA s : Each(s, Base))

SubtreesRefused(names) ==
  IF names = Nil THEN "ok"
  ELSE IF names = << >> THEN "ValueError"
  ELSE IF \E i \in DOMAIN names : names[i].type = "IPAddress" /\ names[i].v.prefix = Nil THEN "TypeError"
  ELSE IF \E i \in DOMAIN names : names[i].type = "DNSName" /\ names[i].v \in Wildcards THEN "ValueError"
  ELSE "ok"

NameConstraints(nc) ==
  IF SubtreesRefused(nc.permitted) # "ok" THEN Err(SubtreesRefused(nc.permitted))
  ELSE IF SubtreesRefused(nc.excluded) # "ok" THEN Err(SubtreesRefused(nc.excluded))
  ELSE IF nc.permitted = Nil /\ nc.excluded = Nil THEN Err("ValueError") ELSE Ok(nc)

ParseNameConstraints(nc) ==
  LET parts == Fields([permitted |-> parse_general_subtrees(nc.permitted),
                       excluded |-> parse_general_subtrees(nc.excluded)], << "permitted", "excluded" >>)
  IN  IF parts.error = "ok" THEN NameConstraints(parts.v) ELSE parts

encode_access_descriptions(ads) ==
  LET Description(ad) == Fields([method |-> Ok(ad.method), location |-> encode_general_name(ad.location)],
                                << "location" >>)
  IN  Each(ads, Description)

parse_access_descriptions(ads) ==
  LET Description(ad) == Fields([method |-> Ok(ad.method), location |-> parse_general_name(ad.location)],
                                << "location" >>)
  IN  Each(ads, Description)

-----------------------------------------------------------------------------
(* Admissions: [authority, admissions], an admission being [authority,      *)
(* naming, infos] and a profession info [naming, items, oids, number, add]  *)

encode_naming_authority(n) ==
  IF n.url \in NonAscii THEN Err("ValueError")
  ELSE Ok([id |-> n.id, url |-> n.url, text |-> IF n.text = Nil THEN Nil ELSE Utf8(n.text)])

encode_profession_info(i) ==
  Fields([naming |-> Optional(i.naming, encode_naming_authority),
          items |-> Ok([k \in DOMAIN i.items |-> Utf8(i.items[k])]),
          oids |-> Ok(i.oids),
          number |-> IF i.number \in NonPrintable THEN Err("ValueError") ELSE Ok(i.number),
          add |-> Ok(i.add)], << "naming", "number" >>)

encode_admission(a) ==
  Fields([authority |-> Optional(a.authority, encode_general_name),
          naming |-> Optional(a.naming, encode_naming_authority),
          infos |-> Each(a.infos, encode_profession_info)], << "authority", "naming", "infos" >>)

EncodeAdmissions(as) ==
  Fields([authority |-> Optional(as.authority, encode_general_name),
          admissions |-> Each(as.admissions, encode_admission)], << "authority", "admissions" >>)

parse_naming_authority(n) ==
  Fields([id |-> Ok(n.id), url |-> Ok(n.url), text |-> Optional(n.text, parse_display_text)], << "text" >>)

parse_profession_info(i) ==
  Fields([naming |-> Optional(i.naming, parse_naming_authority),
          items |-> Each(i.items, parse_display_text),
          oids |-> Ok(i.oids), number |-> Ok(i.number), add |-> Ok(i.add)], << "naming", "items" >>)

parse_admission(a) ==
  Fields([authority |-> Optional(a.authority, parse_general_name),
          naming |-> Optional(a.naming, parse_naming_authority),
          infos |-> Each(a.infos, parse_profession_info)], << "authority", "naming", "infos" >>)

ParseAdmissions(as) ==
  Fields([authority |-> Optional(as.authority, parse_general_name),
          admissions |-> Each(as.admissions, parse_admission)], << "authority", "admissions" >>)

-----------------------------------------------------------------------------
(* By object identifier                                                     *)

GeneralNamesOids == {"SubjectAlternativeName", "IssuerAlternativeName", "CertificateIssuer"}
NumberOids == {"InhibitAnyPolicy", "CRLNumber", "DeltaCRLIndicator"}
AccessOids == {"AuthorityInformationAccess", "SubjectInformationAccess"}
PointsOids == {"CRLDistributionPoints", "FreshestCRL"}
NullOids == {"OCSPNoCheck", "PrecertPoison"}
OidsOids == {"ExtendedKeyUsage", "OCSPAcceptableResponses"}
SctOids == {"PrecertificateSignedCertificateTimestamps", "SignedCertificateTimestamps"}

EncodeReason(r) == Ok(CRL_ENTRY_REASON_ENUM_TO_CODE[r])
EncodeTemplate(v) ==
  Fields([id |-> Ok(v.id), major |-> Optional(v.major, ExtractU32), minor |-> Optional(v.minor, ExtractU32)],
         << "major", "minor" >>)
EncodePolicyConstraints(v) ==
  Fields([require |-> Optional(v.require, ExtractU64), inhibit |-> Optional(v.inhibit, ExtractU64)],
         << "require", "inhibit" >>)
EncodeNameConstraints(v) ==
  Fields([permitted |-> encode_general_subtrees(v.permitted),
          excluded |-> encode_general_subtrees(v.excluded)], << "permitted", "excluded" >>)
encode_basic_constraints(v) ==
  Fields([ca |-> Ok(v.ca), path_length |-> Optional(v.path_length, ExtractU64)], << "path_length" >>)

encode_extension(oid, v) ==
  CASE oid = "BasicConstraints" -> Asn("BasicConstraints", encode_basic_constraints(v))
    [] oid \in {"SubjectKeyIdentifier", "OCSPNonce"} -> Asn("OctetString", Ok(v))
    [] oid = "KeyUsage" -> Asn("BitString", encode_key_usage(v))
    [] oid \in AccessOids -> Asn("AccessDescriptions", encode_access_descriptions(v))
    [] oid \in OidsOids -> Asn("Oids", Ok(v))
    [] oid = "CertificatePolicies" -> Asn("CertificatePolicies", encode_certificate_policies(v))
    [] oid = "PolicyConstraints" -> Asn("PolicyConstraints", EncodePolicyConstraints(v))
    [] oid = "NameConstraints" -> Asn("NameConstraints", EncodeNameConstraints(v))
    [] oid \in NumberOids -> Asn("Integer", EncodeUint(v))
    [] oid \in GeneralNamesOids -> Asn("GeneralNames", encode_general_names(v))
    [] oid = "AuthorityKeyIdentifier" -> Asn("AuthorityKeyIdentifier", encode_authority_key_identifier(v))
    [] oid \in PointsOids -> Asn("DistributionPoints", encode_distribution_points(v))
    [] oid \in NullOids -> Asn("Null", Ok(Nil))
    [] oid = "TLSFeature" -> Asn("Integers", Each(v, ExtractU64))
    [] oid \in SctOids -> Asn("OctetString", encode_scts(v))
    [] oid = "CRLReason" -> Asn("Enumerated", EncodeReason(v))
    [] oid = "InvalidityDate" -> Asn("GeneralizedTime", Ok(py_to_datetime(v)))
    [] oid = "IssuingDistributionPoint" -> Asn("IssuingDistributionPoint", encode_issuing_distribution_point(v))
    [] oid = "MSCertificateTemplate" -> Asn("MSCertificateTemplate", EncodeTemplate(v))
    [] oid = "Admissions" -> Asn("Admissions", EncodeAdmissions(v))
    [] OTHER -> Err("NotImplementedError")

ParseAsn(der, type, Op(_)) == IF der.asn = type THEN Op(der.v) ELSE Err("ValueError")
ParseNumber(bytes) == Ok(big_byte_slice_to_py_int(bytes))
ParseFeature(n) == IF n \in TlsFeatures THEN Ok(n) ELSE Err("KeyError")
ParseUsages(oids) == IF oids = << >> THEN Err("ValueError") ELSE Ok(oids)
ParseBasicConstraints(v) == IF ~v.ca /\ v.path_length # Nil THEN Err("ValueError") ELSE Ok(v)
ParsePolicyConstraints(v) == IF v.require = Nil /\ v.inhibit = Nil THEN Err("ValueError") ELSE Ok(v)

\* What certificates and requests for them understand
parse_cert_ext(oid, der) ==
  CASE oid \in GeneralNamesOids -> ParseAsn(der, "GeneralNames", parse_general_names)
    [] oid = "TLSFeature" -> ParseAsn(der, "Integers", LAMBDA v : Each(v, ParseFeature))
    [] oid = "SubjectKeyIdentifier" -> ParseAsn(der, "OctetString", Ok)
    [] oid = "ExtendedKeyUsage" -> ParseAsn(der, "Oids", ParseUsages)
    [] oid = "KeyUsage" -> ParseAsn(der, "BitString", ParseKeyUsage)
    [] oid \in AccessOids -> ParseAsn(der, "AccessDescriptions", parse_access_descriptions)
    [] oid = "CertificatePolicies" -> ParseAsn(der, "CertificatePolicies", parse_cp)
    [] oid = "PolicyConstraints" -> ParseAsn(der, "PolicyConstraints", ParsePolicyConstraints)
    [] oid = "OCSPNoCheck" -> ParseAsn(der, "Null", Ok)
    [] oid = "InhibitAnyPolicy" -> ParseAsn(der, "Integer", ParseNumber)
    [] oid = "BasicConstraints" -> ParseAsn(der, "BasicConstraints", ParseBasicConstraints)
    [] oid = "AuthorityKeyIdentifier" -> ParseAsn(der, "AuthorityKeyIdentifier", parse_authority_key_identifier)
    [] oid \in PointsOids -> ParseAsn(der, "DistributionPoints", parse_distribution_points)
    [] oid = "NameConstraints" -> ParseAsn(der, "NameConstraints", ParseNameConstraints)
    [] oid = "MSCertificateTemplate" -> ParseAsn(der, "MSCertificateTemplate", Ok)
    [] oid = "Admissions" -> ParseAsn(der, "Admissions", ParseAdmissions)

CertificateOids ==
  {"SubjectAlternativeName", "IssuerAlternativeName", "TLSFeature", "SubjectKeyIdentifier",
   "ExtendedKeyUsage", "KeyUsage", "CertificatePolicies", "PolicyConstraints", "OCSPNoCheck",
   "InhibitAnyPolicy", "BasicConstraints", "AuthorityKeyIdentifier", "NameConstraints",
   "MSCertificateTemplate", "Admissions"} \cup AccessOids \cup PointsOids

parse_crl_ext(oid, der) ==
  CASE oid \in {"CRLNumber", "DeltaCRLIndicator"} -> ParseAsn(der, "Integer", ParseNumber)
    [] oid = "IssuingDistributionPoint" ->
         ParseAsn(der, "IssuingDistributionPoint", ParseIssuingDistributionPoint)
    [] OTHER -> parse_cert_ext(oid, der)

CrlOids ==
  {"CRLNumber", "DeltaCRLIndicator", "IssuerAlternativeName", "AuthorityInformationAccess",
   "AuthorityKeyIdentifier", "IssuingDistributionPoint", "FreshestCRL"}

parse_crl_entry_ext(oid, der) ==
  CASE oid = "CRLReason" -> ParseAsn(der, "Enumerated", parse_crl_reason_flags)
    [] oid = "CertificateIssuer" -> ParseAsn(der, "GeneralNames", parse_general_names)
    [] oid = "InvalidityDate" -> ParseAsn(der, "GeneralizedTime", LAMBDA t : Ok(datetime_to_py(t)))

EntryOids == {"CRLReason", "CertificateIssuer", "InvalidityDate"}

\* A nonce that is no OCTET STRING is the whole value of the extension
ParseNonce(der) == Ok(IF der.asn = "OctetString" THEN der.v ELSE der)

Recognised ==
  [certificate |-> CertificateOids \cup {"PrecertPoison", "PrecertificateSignedCertificateTimestamps"},
   request |-> CertificateOids,
   crl |-> CrlOids,
   crl_entry |-> EntryOids,
   ocsp_request |-> {"OCSPNonce", "OCSPAcceptableResponses"},
   ocsp_response |-> {"OCSPNonce"},
   single_response |-> EntryOids \cup {"SignedCertificateTimestamps"}]

\* The parser that a document of this kind gives to parse_and_cache_extensions
ParseExt(kind, oid, der) ==
  CASE oid = "PrecertPoison" -> ParseAsn(der, "Null", Ok)
    [] oid \in SctOids -> ParseAsn(der, "OctetString", parse_scts)
    [] oid = "OCSPNonce" -> ParseNonce(der)
    [] oid = "OCSPAcceptableResponses" -> ParseAsn(der, "Oids", Ok)
    [] kind = "crl" -> parse_crl_ext(oid, der)
    [] kind \in {"crl_entry", "single_response"} -> parse_crl_entry_ext(oid, der)
    [] OTHER -> parse_cert_ext(oid, der)
=============================================================================
