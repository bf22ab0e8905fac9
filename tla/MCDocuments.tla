----------------------------- MODULE MCDocuments -----------------------------
(* Small instance of Documents.  A year has two ticks of two microseconds,   *)
(* so that time zones cross the ends of 1950 and 2049 and dates lie between  *)
(* ticks; a byte has four bits, so that serial numbers of eight bits need a  *)
(* byte more; the RSA keys have 537 bits, so that a SHA-256 digest leaves    *)
(* room for a salt of its own length, or 33.                                 *)
EXTENDS Documents, TLC

Key(type, id) == [type |-> type, id |-> id]
rsa == Key("Rsa", 1)
rsa2 == Key("Rsa", 2)
ec == Key("Ec", 1)
dsa == Key("Dsa", 1)
ed == Key("Ed25519", 1)
x25519 == Key("X25519", 1)

MCDigestSize == [sha1 |-> 20, sha256 |-> 32, sha3_256 |-> 32, sha384 |-> 48]

By(key, hash, padding) == [key |-> key, hash |-> hash, padding |-> padding]
PSS(salt, mgf) == [name |-> "PSS", salt |-> salt, mgf |-> mgf]

Usual == {By(rsa, "sha256", Nil), By(ec, "sha256", Nil), By(dsa, "sha256", Nil), By(ed, Nil, Nil)}
Every ==
  Usual \cup {By(k, h, Nil) : k \in {rsa, ec, dsa, ed, x25519}, h \in {"sha1", "sha3_256", "sha384", Nil, NotAHash}}
  \cup {By(k, h, PSS(s, g)) : k \in {rsa, ec}, h \in {"sha256", "sha384"},
                              s \in {MaxLength, DigestLength, AutoLength, 0, 16, 32}, g \in {"sha256", "sha384", "sha1"}}
  \cup {By(rsa, Nil, PSS(0, "sha256")), By(rsa, "sha256", PKCS1v15), By(ec, "sha256", PKCS1v15)}
MCSignings ==
  [certificate |-> Usual \cup {By(rsa, "sha256", PSS(DigestLength, "sha256"))}, crl |-> Usual \cup {By(dsa, "sha384", Nil)},
   request |-> Every, ocsp_response |-> {s \in Every : s.padding = Nil}, ocsp_request |-> {}]

MCIssuers == [subject : {"ca", "other"}, key : {rsa, rsa2, ec, dsa, ed}]
MCAlgorithms ==
  {AlgorithmIdentifier(t, "sha256", Nil, Nil) : t \in {"Rsa", "Ec", "Dsa"}}
  \cup {AlgorithmIdentifier("Ec", "sha3_256", Nil, Nil), AlgorithmIdentifier("Ed25519", Nil, Nil, Nil)}
  \cup {AlgorithmIdentifier("RsaPss", h, "sha256", s) : h \in {"sha256", "sha384", Nil}, s \in {16, 32}}

At(t, z) == [at |-> t, offset |-> z]
Field(f, values) == [field : {f}, v : values]

\* The first microsecond of 1950 and of 2050, and those around them
First == 1950 * TicksPerYear * Microseconds
Last == 2050 * TicksPerYear * Microseconds
Times == {At(First, Nil), At(First, 1), At(First, -1), At(Last - 1, Nil), At(Last, Microseconds), At(Last, Nil)}

\* The first tick that two digits stand for, a date in the other form than the
\* encoder's with a number that no builder accepts, and a tick before 1950
Existing(serial, form, t) == [serial |-> serial, date |-> [form |-> form, t |-> t]]
MCExistingEntries ==
  {Existing(<< 0 >>, "UtcTime", 50 * TicksPerYear),
   Existing(<< 4, 0, 0 >>, "GeneralizedTime", 2000 * TicksPerYear),
   Existing(<< 7 >>, "GeneralizedTime", 1950 * TicksPerYear - 1)}

Cert(subject, key, serial) == [subject |-> subject, issuer |-> "ca", serial |-> serial, key |-> key]
leaf == Cert("leaf", ec, << 1 >>)
negative == Cert("leaf", ec, << 15, 1 >>)
ca == Cert("ca", rsa, << 2 >>)
Id(hash) == [cert |-> leaf, issuer |-> ca, hash |-> hash, by_hash |-> Nil]
IdByHash(h, hash, serial) ==
  [cert |-> Nil, issuer |-> Nil, hash |-> hash,
   by_hash |-> [name |-> Digest(h, "ca"), key |-> Digest(h, rsa), serial |-> serial, hash |-> hash]]
Ids == {Id("sha1"), Id("sha256"), Id("sha3_256"), [Id("sha1") EXCEPT !.cert = negative]}
       \cup {IdByHash(h, "sha256", n) : h \in {"sha1", "sha256"}, n \in {-1, 0, 200}}
MCResponses ==
  [id : Ids, status : {"GOOD", "REVOKED", "UNKNOWN"}, this_update : {At(First - 1, Nil)},
   next_update : {Nil, At(Last, 1)}, time : {Nil, At(Last, -1)},
   reason : {Nil, "unspecified", "certificate_hold", "remove_from_crl", "aa_compromise"}]

MCIndices == {-4, -3, -1, 0, 1, 2, 3}
MCInputs ==
  [certificate |-> Field("issuer_name", {"ca"}) \cup Field("subject_name", {"leaf"}) \cup Field("public_key", {ec})
                   \cup Field("serial_number", {-1, 0, 7, 200, 256})
                   \cup Field("not_valid_before", Times) \cup Field("not_valid_after", Times),
   crl |-> Field("issuer_name", {"ca"}) \cup Field("last_update", {At(First, 1), At(Last, 1)})
           \cup Field("next_update", {At(First, Nil), At(Last, Nil)}),
   request |-> Field("subject_name", {"leaf"}),
   ocsp_request |-> Field("request", Ids),
   ocsp_response |-> Field("response", MCResponses) \cup Field("certificates", {<< >>, << ca >>})
                     \cup Field("responder_id", [cert : {ca, leaf}, encoding : {"HASH", "NAME"}])]

Attribute(oid, utf8, tag) == [oid |-> oid, value |-> "v", utf8 |-> utf8, tag |-> tag]
MCListInputs ==
  [certificate |-> {},
   crl |-> {[serial |-> s, date |-> d] : s \in {0, 200}, d \in {At(First, 1), At(Last - 1, Nil)}},
   request |-> {Attribute("1", FALSE, "PrintableString"), Attribute("1", TRUE, Nil), Attribute("2", TRUE, Nil), Attribute("2", FALSE, Nil)},
   ocsp_request |-> {}, ocsp_response |-> {}]
=============================================================================
