---------------------------- MODULE MCExtensions ----------------------------
(* Small instance of Extensions.  A byte has three bits, so that the length *)
(* of a list of timestamps is below 64; addresses have three and five bits; *)
(* a year has two ticks and time zones differ by one.                       *)
EXTENDS Extensions

dns == [type |-> "DNSName", v |-> "a"]
star == [type |-> "DNSName", v |-> "*"]
IP(addr, prefix) == [type |-> "IPAddress", v |-> [addr |-> addr, prefix |-> prefix]]
cn == [oid |-> "CN", type |-> "UTF8String", value |-> "x"]
bmp == [oid |-> "O", type |-> "BMPString", value |-> "y"]
dir == [type |-> "DirectoryName", v |-> << {cn, bmp}, {cn} >>]
other == [type |-> "OtherName", v |-> [der |-> TRUE, id |-> "o"]]
raw_other == [type |-> "OtherName", v |-> [der |-> FALSE, id |-> "o"]]

Known(oid, values) == [i \in DOMAIN values |-> [oid |-> oid, known |-> TRUE, v |-> values[i]]]
Map(s, Op(_)) == [i \in DOMAIN s |-> Op(s[i])]

Point(full, relative, reasons, issuer) ==
  [full_name |-> full, relative_name |-> relative, reasons |-> reasons, crl_issuer |-> issuer]
WithReasons(r) == << Point(<< dns >>, Nil, r, Nil) >>
Points ==
  Map(<< Nil, {}, {"key_compromise"}, {"privilege_withdrawn"}, {"aa_compromise"}, {"ca_compromise", "aa_compromise"} >>,
      WithReasons)
  \o << << Point(Nil, {cn}, Nil, << dir >>), Point(Nil, Nil, {"superseded"}, << dns >>) >>,
         << Point(<< >>, {cn}, Nil, Nil) >>, << Point(<< raw_other >>, Nil, Nil, Nil) >> >>

Issuing(full, relative, reasons, only, indirect) ==
  [full_name |-> full, relative_name |-> relative, reasons |-> reasons, only |-> only, indirect_crl |-> indirect]
IssuingPoints ==
  << Issuing(<< dns >>, Nil, {"aa_compromise"}, {"user"}, FALSE), Issuing(<< >>, {cn}, {}, {}, TRUE),
     Issuing(<< dns >>, {cn}, Nil, {}, FALSE), Issuing(Nil, Nil, Nil, {"ca"}, TRUE) >>

Notice(notice, text) == [id |-> "UserNotice", notice |-> notice, text |-> text]
Cps(uri) == [id |-> "CPS", uri |-> uri]
PolicyWith(q) == << [id |-> "p", qualifiers |-> q] >>
Policies ==
  Map(<< Nil, << >>, << Cps("u") >>, << Cps("notascii") >>,
         << Notice([org |-> "o", numbers |-> << 0, 4 >>], ""), Cps("u") >>,
         << Notice(Nil, "t") >>, << Notice([org |-> Nil, numbers |-> << >>], Nil) >>,
         << Notice([org |-> "o", numbers |-> << -1 >>], Nil) >> >>, PolicyWith)

\* Version, log, timestamp, no extensions, hash, signature algorithm, signature
Sct(version, hash, signature) == << version, 1, 7, 0, 0, hash, 1, 0, Len(signature) >> \o signature
small == Sct(0, 1, << >>)
large == Sct(0, 2, << 1, 2, 3, 4, 5, 6, 7 >>)
Repeat(s, n) == [i \in 1 .. n |-> s]
Timestamps == << << >>, << small >>, << small, large >>, Repeat(small, 5), Repeat(small, 6), Repeat(large, 4) >>

Naming(url, text) == [id |-> "i", url |-> url, text |-> text]
Info(naming, number) ==
  [naming |-> naming, items |-> << "t" >>, oids |-> << "d" >>, number |-> number, add |-> Nil]
AdmissionsOf(naming, number) ==
  [authority |-> dir, admissions |-> << [authority |-> Nil, naming |-> naming, infos |-> << Info(Nil, number) >>],
                                        [authority |-> dns, naming |-> Nil, infos |-> << Info(naming, Nil) >>] >>]

GeneralNames ==
  << << >>, << dns, dir >>, << other, star >>, << IP(<< 1, 0, 1 >>, Nil), IP(<< 1, 0, 0, 1, 1 >>, Nil) >>, << raw_other >> >>

Reasons == << "unspecified", "key_compromise", "certificate_hold", "remove_from_crl", "privilege_withdrawn", "aa_compromise" >>
At(offset) == [at |-> 4000, offset |-> offset]
Unrecognized(oid) == [oid |-> oid, known |-> FALSE, v |-> [asn |-> "Private", v |-> "z"]]

MCValues ==
  Known("KeyUsage", << {}, {0}, {0, 5, 6}, {4}, {4, 7}, {4, 8}, 0 .. 8 >>)
  \o Known("CRLDistributionPoints", Points)
  \o Known("FreshestCRL", << << Point(<< IP(<< 1, 0, 0 >>, 1) >>, Nil, {"superseded"}, Nil) >> >>)
  \o Known("IssuingDistributionPoint", IssuingPoints)
  \o Known("CertificatePolicies", Policies)
  \o Known("PrecertificateSignedCertificateTimestamps", Timestamps)
  \o Known("CRLNumber", << -1, 0, 3, 4, 7, 8, 31, 32, 63, 64 >>)
  \o Known("InhibitAnyPolicy", << 0, 4 >>)
  \o Known("AuthorityKeyIdentifier",
        << [key_identifier |-> "k", issuer |-> Nil, serial |-> Nil],
           [key_identifier |-> Nil, issuer |-> << dir >>, serial |-> 36] >>)
  \o Known("SubjectAlternativeName", GeneralNames)
  \o Known("CertificateIssuer", << << dir >> >>)
  \o Known("NameConstraints",
        << [permitted |-> << dns, IP(<< 1, 0, 0 >>, 1), IP(<< 0, 0, 0, 0, 0 >>, 0) >>, excluded |-> Nil],
           [permitted |-> Nil, excluded |-> << IP(<< 1, 1, 1 >>, 3), dir >>] >>)
  \o Known("AuthorityInformationAccess", << << [method |-> "ocsp", location |-> dns] >> >>)
  \o Known("ExtendedKeyUsage", << << >>, << "serverAuth" >> >>)
  \o Known("OCSPAcceptableResponses", << << >>, << "basic" >> >>)
  \o Known("TLSFeature", << << 5, 17 >> >>)
  \o Known("CRLReason", Reasons)
  \o Known("InvalidityDate", << At(Nil), At(0), At(-1), At(1) >>)
  \o Known("OCSPNonce", << "n" >>) \o Known("SubjectKeyIdentifier", << "k" >>)
  \o Known("PrecertPoison", << Nil >>) \o Known("OCSPNoCheck", << Nil >>)
  \o Known("BasicConstraints",
        << [ca |-> FALSE, path_length |-> Nil], [ca |-> TRUE, path_length |-> 0], [ca |-> TRUE, path_length |-> 18] >>)
  \o Known("PolicyConstraints", << [require |-> 0, inhibit |-> Nil], [require |-> Nil, inhibit |-> -1] >>)
  \o Known("MSCertificateTemplate", << [id |-> "t", major |-> 3, minor |-> Nil], [id |-> "t", major |-> 9, minor |-> 0] >>)
  \o Known("Admissions", << AdmissionsOf(Naming("u", "t"), "n"), AdmissionsOf(Naming("notascii", Nil), "n"),
                            AdmissionsOf(Nil, "notprintable") >>)
  \o Known("Custom", << Nil >>)
  \o << Unrecognized("Custom"), Unrecognized("KeyUsage") >>

Enc(oid, asn, v) == [oid |-> oid, critical |-> TRUE, value |-> [asn |-> asn, v |-> v]]
Utf16(text) == [tag |-> "BmpString", text |-> text]
Names(gns) == << Enc("IssuerAlternativeName", "GeneralNames", gns), Enc("CertificateIssuer", "GeneralNames", gns) >>
Subtrees(p, e) == << Enc("NameConstraints", "NameConstraints", [permitted |-> p, excluded |-> e]) >>
RawPoint(name, reasons) ==
  << Enc("FreshestCRL", "DistributionPoints",
         << [distribution_point |-> name, reasons |-> reasons, crl_issuer |-> Nil] >>) >>
RawFull == [form |-> "FullName", names |-> << dns >>]
RawRelative(coding, tag) ==
  [form |-> "NameRelativeToCRLIssuer", names |-> << {[oid |-> "CN", tag |-> tag, coding |-> coding, value |-> "x"]} >>]
RawPolicy(q) == << Enc("CertificatePolicies", "CertificatePolicies", << [id |-> "p", qualifiers |-> q] >>) >>

Entry(n) == << Enc("CRLReason", "Enumerated", n), Enc("InvalidityDate", "GeneralizedTime", 4000) >>
RawScts(b) == << Enc("SignedCertificateTimestamps", "OctetString", b) >>

MCForeign ==
  << << >>,
   << Enc("KeyUsage", "BitString", BitString({4}, 2, 0)) >>,
   << Enc("KeyUsage", "BitString", BitString({7}, 1, 0)) >>,
   << Enc("KeyUsage", "Garbage", Nil) >>,
   << Enc("SubjectKeyIdentifier", "OctetString", "k"), Enc("SubjectKeyIdentifier", "OctetString", "l") >>,
   << Enc("CRLNumber", "Integer", << 0, 5 >>), Enc("DeltaCRLIndicator", "Integer", << 3, 5 >>) >>,
   Names(<< [type |-> "X400Address", v |-> "x"] >>), Names(<< [type |-> "EDIPartyName", v |-> "x"] >>),
   Names(<< [type |-> "IPAddress", v |-> << 1, 0, 0, 1, 0, 0 >>], [type |-> "IPAddress", v |-> << 1, 1, 1 >>] >>),
   Names(<< [type |-> "IPAddress", v |-> << 1, 0, 0, 1, 0, 1 >>] >>),
   Names(<< [type |-> "IPAddress", v |-> << 1, 1, 0, 1, 0, 0 >>] >>),
   Names(<< [type |-> "IPAddress", v |-> << 1, 1, 0, 0 >>] >>),
   Subtrees(Nil, Nil), Subtrees(<< >>, Nil), Subtrees(Nil, << [base |-> star] >>),
   Subtrees(<< [base |-> [type |-> "IPAddress", v |-> << 1, 0, 0 >>]] >>, Nil),
   Subtrees(<< [base |-> [type |-> "IPAddress", v |-> << 1, 0, 0, 1, 1, 0 >>]] >>, Nil),
   RawPoint(RawFull, BitString({}, 1, 7)), RawPoint(RawFull, BitString({0, 7, 8}, 2, 7)),
   RawPoint(NoName, Nil), RawPoint(RawRelative("utf8", "UTF8String"), Nil),
   RawPoint(RawRelative("utf8", "BMPString"), Nil), RawPoint(RawRelative("utf8", "Unknown"), Nil),
   RawPoint([form |-> "NameRelativeToCRLIssuer", names |-> << {} >>], Nil),
   RawPolicy(<< >>), RawPolicy(<< [id |-> "UserNotice", uri |-> "u"] >>),
   RawPolicy(<< [id |-> "CPS", notice |-> Nil, text |-> Nil] >>),
   RawPolicy(<< [id |-> "UserNotice", notice |-> Nil, text |-> Utf16("t")] >>),
   RawPolicy(<< [id |-> "UserNotice", notice |-> Nil, text |-> Utf16(Nil)] >>),
   << Enc("TLSFeature", "Integers", << 6 >>) >>,
   << Enc("OCSPNonce", "Raw", "n") >>,
   << Enc("BasicConstraints", "BasicConstraints", [ca |-> FALSE, path_length |-> 0]) >>,
   << Enc("PolicyConstraints", "PolicyConstraints", [require |-> Nil, inhibit |-> Nil]) >>,
   << Enc("AuthorityKeyIdentifier", "AuthorityKeyIdentifier", [key_identifier |-> Nil, issuer |-> Nil, serial |-> << 1 >>]) >>,
   << Enc("IssuingDistributionPoint", "IssuingDistributionPoint",
          [distribution_point |-> NoName, reasons |-> Nil, only |-> {"user", "ca"}, indirect_crl |-> FALSE]) >> >>
  \o Map(<< 7, 8, 9, 11 >>, Entry)
  \o Map(<< U16(11) \o U16(9) \o small, U16(12) \o U16(9) \o small, U16(11) \o U16(10) \o small,
            U16(11) \o U16(9) \o Sct(1, 1, << >>), U16(11) \o U16(9) \o Sct(0, 7, << >>), << 0 >> >>, RawScts)
=============================================================================
