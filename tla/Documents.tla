----------------------------- MODULE Documents -----------------------------
(***************************************************************************)
(* The life of a signed document: an application fills in a builder,       *)
(* setter by setter and in any order, signs, and sends; a receiver loads   *)
(* what arrives, which may not be what was sent, checks its signature and  *)
(* reads it.  Certificates, revocation lists, requests for certificates    *)
(* and OCSP requests and responses are told apart by the builder's kind.   *)
(***************************************************************************)
EXTENDS Ocsp

CONSTANTS
  Inputs,               \* by kind, what setters are called with: a set of [field, v]
  ListInputs,           \* by kind, what RevokedCertificateBuilder or add_attribute get
  ExistingEntries,      \* encoded entries of revocation lists that the program loads
  MaxList,              \* bound on the length of a list
  Signings,             \* by kind, the arguments of sign(): [key, hash, padding]
  Issuers,              \* [subject, key]: who a document is checked against
  Algorithms,           \* identifiers that a damaged document may carry
  Indices               \* of a revocation list that are tried

\* Five kinds of documents, of which OCSP requests are not signed; the constructor
\* of PSS wants a salt length that is not negative, or one of the three names
ASSUME SigningsAssumption ==
  /\ DOMAIN Signings = {"certificate", "crl", "request", "ocsp_request", "ocsp_response"}
  /\ Signings.ocsp_request = {}
  /\ \A kind \in DOMAIN Signings : \A s \in Signings[kind] :
       s.padding # Nil /\ s.padding.name = "PSS" =>
         s.padding.salt \in {AutoLength, MaxLength, DigestLength} \/ s.padding.salt \in Nat

IsDatetime(dt) == dt.at \in Int /\ dt.offset \in Int \cup {Nil}
IsNumber(v) == v \in Int /\ v < Two[MaxBits]

\* The setters of certificates and revocation lists are those of their fields;
\* dates are datetimes, with or without a time zone
ASSUME InputsAssumption ==
  /\ Nil \notin Int
  /\ \A kind \in {"certificate", "crl"} : \A i \in Inputs[kind] :
       /\ i.field \in Required[kind]
       /\ i.field \in Dates => IsDatetime(i.v)
       /\ i.field = "serial_number" => IsNumber(i.v)

\* So are those of OCSP responses; the reason of a revocation is of the enumeration
ASSUME OcspInputsAssumption ==
  \A i \in Inputs.ocsp_response :
    /\ i.field \in {"response", "responder_id", "certificates"}
    /\ i.field = "response" =>
         /\ i.v.reason \in DOMAIN CRL_ENTRY_REASON_ENUM_TO_CODE \cup {Nil}
         /\ ByHash(i.v.id) => IsNumber(i.v.id.by_hash.serial)

\* The instances of RevokedCertificate that there are: what the builder builds
\* from arguments it accepts, and the entries of any list that was loaded
Revoked ==
  {RevokedCertificate(e) : e \in {x \in ListInputs.crl : RevokedAccepted(x)}}
  \cup {LoadedRevokedCertificate(e) : e \in ExistingEntries}

\* Those that can be encoded, and what they are encoded to
Encodable(r) == r.date >= EarliestUtcTime
EncodedRevoked == {EncodeRevoked(r).v : r \in {x \in Revoked : Encodable(x)}}

\* The serial number of an entry that parses is a BigUint, and its date is of any
\* year in either form; None is no entry of a revocation list, and no list of them
ASSUME ListInputsAssumption ==
  /\ MaxList \in Nat /\ Indices \subseteq Int
  /\ \A e \in ListInputs.crl : IsNumber(e.serial) /\ IsDatetime(e.date)
  /\ \A e \in ExistingEntries :
       /\ big_byte_slice_to_py_int(e.serial) \in 0 .. Two[MaxBits] - 1
       /\ e.date.form \in {"UtcTime", "GeneralizedTime"} /\ e.date.t \in Int
  /\ Nil \notin EncodedRevoked /\ \A n \in 1 .. MaxList : Nil \notin [1 .. n -> EncodedRevoked]

\* Identifiers that parse: only RSA-PSS has parameters, its salt length is a
\* number, and the identifiers of EdDSA name no hash
ASSUME AlgorithmsAssumption ==
  \A a \in Algorithms :
    /\ a = AlgorithmIdentifier(a.scheme, a.hash, a.mgf, a.salt)
    /\ IF a.scheme = "RsaPss" THEN a.salt \in Nat ELSE a.mgf = Nil /\ a.salt = Nil
    /\ a.scheme \in Edwards => a.hash = Nil

VARIABLES
  builder,
  output,               \* what sign() or build() returned, and its arguments
  doc,                  \* the document as loaded by its receiver
  cell                  \* CertificateRevocationList.revoked_certs

documentVars == << builder, output, doc, cell >>

Kinds == DOMAIN Signings
RequiredOf(kind) == IF kind \in DOMAIN Required THEN Required[kind] ELSE OcspRequired[kind]
FieldsOf(kind) == RequiredOf(kind) \cup (IF kind = "ocsp_response" THEN {"certificates"} ELSE {})

DocumentInit ==
  /\ \E kind \in Kinds :
       builder = [kind |-> kind, set |-> [f \in FieldsOf(kind) |-> Nil], list |-> << >>]
  /\ output = Nil /\ doc = Nil /\ cell = Nil

-----------------------------------------------------------------------------
(* Building.  A setter that refuses raises, and there is no new builder.    *)

Set ==
  \E i \in Inputs[builder.kind] :
    /\ output = Nil
    /\ IF builder.kind \in DOMAIN Required THEN Accepts(builder, i.field, i.v)
       ELSE OcspAccepts(builder, i.field, i.v)
    /\ builder' = [builder EXCEPT !.set[i.field] = Stored(i.field, i.v)]
    /\ UNCHANGED << output, doc, cell >>

\* Any instance of RevokedCertificate is taken as it is
AddRevoked ==
  \E r \in Revoked :
    /\ builder.kind = "crl" /\ output = Nil /\ Len(builder.list) < MaxList
    /\ builder' = [builder EXCEPT !.list = Append(@, r)]
    /\ UNCHANGED << output, doc, cell >>

AddAttribute ==
  \E a \in ListInputs[builder.kind] :
    /\ builder.kind = "request" /\ output = Nil /\ Len(builder.list) < MaxList
    /\ reject_duplicate_attribute(builder, a)
    /\ builder' = [builder EXCEPT !.list = Append(@, a)]
    /\ UNCHANGED << output, doc, cell >>

Ready == output = Nil /\ \A f \in RequiredOf(builder.kind) : builder.set[f] # Nil

Create(b, s) ==
  CASE b.kind = "certificate" -> create_x509_certificate(b, s.key, s.hash, s.padding)
    [] b.kind = "crl" -> create_x509_crl(b, s.key, s.hash, s.padding)
    [] b.kind = "request" -> create_x509_csr(b, s.key, s.hash, s.padding)
    [] b.kind = "ocsp_response" -> create_ocsp_response(b, s.key, s.hash)

SignDocument ==
  \E s \in Signings[builder.kind] :
    /\ Ready /\ PaddingAccepted(s.key, s.padding)
    /\ output' = [by |-> s, result |-> Create(builder, s)]
    /\ UNCHANGED << builder, doc, cell >>

\* An OCSP request is not signed
Build ==
  /\ builder.kind = "ocsp_request" /\ Ready
  /\ output' = [by |-> Nil, result |-> create_ocsp_request(builder.set.request)]
  /\ UNCHANGED << builder, doc, cell >>

\* A class method: the fields of a builder do not matter
BuildUnsuccessful ==
  \E status \in Statuses \ {Successful} :
    /\ builder.kind = "ocsp_response" /\ output = Nil
    /\ output' = [by |-> Nil, result |-> Ok(UnsuccessfulResponse(status))]
    /\ UNCHANGED << builder, doc, cell >>

-----------------------------------------------------------------------------
(* Receiving                                                               *)

\* Documents that parse, other than the one that was sent
IssuedDamage(d) ==
  (UNION {{[d EXCEPT !.alg = a], [d EXCEPT !.tbs.alg = a], [d EXCEPT !.alg = a, !.tbs.alg = a]} : a \in Algorithms})
  \cup {[d EXCEPT !.tbs.issuer = i.subject] : i \in Issuers}
  \cup {[d EXCEPT !.tbs.version = v] : v \in {0, 1}}

RequestDamage(d) ==
  {[d EXCEPT !.alg = a] : a \in Algorithms} \cup {[d EXCEPT !.tbs.spki = i.key] : i \in Issuers}
  \cup {[d EXCEPT !.tbs.version = 1]}

ResponseDamage(d) ==
  {[d EXCEPT !.status = s] : s \in Statuses \cup {4}} \cup {[d EXCEPT !.bytes = FALSE]}
  \cup (IF d.bytes THEN {[d EXCEPT !.tbs.responses = @ \o @]} ELSE {})

Damaged(d) ==
  CASE d.kind \in {"certificate", "crl"} -> IssuedDamage(d)
    [] d.kind = "request" -> RequestDamage(d)
    [] d.kind = "ocsp_request" -> {[d EXCEPT !.tbs.requests = @ \o @]}
    [] d.kind = "ocsp_response" -> ResponseDamage(d)

load_der(d) ==
  CASE d.kind = "ocsp_request" -> load_der_ocsp_request(d) = "ok"
    [] d.kind = "ocsp_response" -> load_der_ocsp_response(d) = "ok"
    [] OTHER -> VersionAccepted(d)

Load ==
  /\ output # Nil /\ output.result.error = "ok" /\ doc = Nil
  /\ \E d \in {output.result.v} \cup Damaged(output.result.v) : load_der(d) /\ doc' = d
  /\ UNCHANGED << builder, output, cell >>

-----------------------------------------------------------------------------
(* Reading a revocation list                                               *)

IsCrl == doc # Nil /\ doc.kind = "crl"

\* Any index or slice makes the list of all entries first, with an iterator of
\* its own
GetItem ==
  /\ IsCrl /\ cell = Nil
  /\ cell' = Entries(doc)
  /\ UNCHANGED << builder, output, doc >>

DocumentNext ==
  \/ Set \/ AddRevoked \/ AddAttribute \/ SignDocument \/ Build \/ BuildUnsuccessful
  \/ Load \/ GetItem

DocumentSpec == DocumentInit /\ [][DocumentNext]_documentVars

-----------------------------------------------------------------------------
(* Properties                                                              *)

Valid(d, issuer) ==
  CASE d.kind = "certificate" -> verify_directly_issued_by(d, issuer) = "ok"
    [] d.kind = "crl" -> is_crl_signature_valid(d, issuer.key) = "True"
    [] d.kind = "request" -> d.tbs.spki = issuer.key /\ is_csr_signature_valid(d)

X509 == {"certificate", "crl", "request"}
Received == doc # Nil /\ doc.kind \in X509
Sent == output.result.v

\* What is accepted was signed, word for word: verify_directly_issued_by and
\* is_signature_valid succeed only with the signer's key, on the document that
\* was signed under the algorithm it was signed with; and the issuer of a
\* certificate has the name that its builder was given.
ValidOnlyAsSigned ==
  Received =>
    \A issuer \in Issuers :
      Valid(doc, issuer) =>
        /\ doc = Sent /\ issuer.key = output.by.key
        /\ doc.kind = "certificate" => issuer.subject = builder.set.issuer_name

\* Every combination of key, hash, padding and salt length that sign() accepts
\* gives a document that verifies, except DSA with a hash that the table of
\* _oid.py lacks: compute_signature_algorithm and the way back from it agree.
X509Verifies ==
  output # Nil /\ output.by # Nil /\ output.result.error = "ok" /\ Sent.kind \in X509 =>
    \/ Valid(Sent, [subject |-> IF Sent.kind = "certificate" THEN Sent.tbs.issuer ELSE Nil, key |-> output.by.key])
    \/ output.by.key.type = "Dsa" /\ SIG_OIDS_TO_HASH(Sent.alg) = "UnsupportedAlgorithm"

\* is_signature_valid of a revocation list and of a request is True for a
\* correct signature, as docs/x509/reference.rst says.
CorrectIsValid ==
  output # Nil /\ output.by # Nil /\ output.result.error = "ok" /\ Sent.kind \in {"crl", "request"} =>
    Valid(Sent, [subject |-> Nil, key |-> output.by.key])

Window(d) ==
  IF d.kind = "certificate" THEN << as_datetime(d.tbs.not_before), as_datetime(d.tbs.not_after) >>
  ELSE << as_datetime(d.tbs.last_update), as_datetime(d.tbs.next_update) >>

\* The dates and serial numbers that the getters of a document return are the
\* instants, without their microseconds, and the numbers that its builder was
\* given, in new entries and in those taken over from another list: two digits
\* for the year are enough whenever they are used.
FieldsReadBack ==
  Received =>
    CASE doc.kind = "certificate" ->
           /\ big_byte_slice_to_py_int(doc.tbs.serial) = builder.set.serial_number
           /\ Window(doc) = << WholeTicks(builder.set.not_valid_before), WholeTicks(builder.set.not_valid_after) >>
      [] doc.kind = "crl" ->
           /\ Window(doc) = << WholeTicks(builder.set.last_update), WholeTicks(builder.set.next_update) >>
           /\ [i \in DOMAIN Entries(doc) |->
                 [serial |-> big_byte_slice_to_py_int(Entries(doc)[i].serial),
                  date |-> as_datetime(Entries(doc)[i].date)]]
              = [i \in DOMAIN builder.list |->
                   [serial |-> builder.list[i].serial, date |-> WholeTicks(builder.list[i].date)]]
      [] doc.kind = "request" ->
           {a.oid : a \in doc.tbs.attributes} = {builder.list[i].oid : i \in DOMAIN builder.list}

\* Whichever date is set first, and in whichever time zone, no certificate or
\* revocation list ends before it begins.
WindowsAreOrdered ==
  Received /\ doc.kind # "request" => Window(doc)[1] <= Window(doc)[2]

\* The builders refuse the dates and numbers that create_x509_* takes for granted,
\* with one exception: an entry of an existing list that was revoked before 1950
\* is added unseen, and UtcTime::new(..).unwrap() panics on its date.
PanicsOnEarlyEntriesOnly ==
  output # Nil /\ output.result.error = "panic" =>
    /\ builder.kind = "crl"
    /\ \E i \in DOMAIN builder.list, e \in ExistingEntries :
         builder.list[i] = LoadedRevokedCertificate(e) /\ ~Encodable(builder.list[i])

Answer(idx) == getitem_index(IF cell = Nil THEN Entries(doc) ELSE cell, idx)
AnswerSlice(i, j, step) == getitem_slice(IF cell = Nil THEN Entries(doc) ELSE cell, i, j, step)

\* The ways to read a revocation list agree, before and after the list of its
\* entries is cached: an index counts from either end, a slice holds the entries
\* at the positions a Python list would give, and a lookup finds the first entry
\* with that serial number.
CrlViewsAgree ==
  IsCrl =>
    LET entries == Entries(doc)
        n == Len(entries)
        At(i) == IF i < 0 THEN i + n ELSE i
        From(i) == IF At(i) < 0 THEN 0 ELSE At(i)
    IN  /\ \A i \in Indices :
             Answer(i) = IF At(i) \in 0 .. n - 1 THEN Ok(entries[At(i) + 1]) ELSE Err("IndexError")
        /\ \A i \in Indices, j \in Indices, step \in 1 .. 2 :
             LET chosen == {k \in From(i) .. At(j) - 1 : k < n /\ (k - From(i)) % step = 0}
                 slice == AnswerSlice(i, j, step)
             IN  /\ slice.error = "ok" /\ Len(slice.v) = Cardinality(chosen)
                 /\ \A k \in chosen : slice.v[(k - From(i)) \div step + 1] = entries[k + 1]
        /\ \A i \in DOMAIN entries :
             LET found == get_revoked_certificate_by_serial_number(doc, big_byte_slice_to_py_int(entries[i].serial))
             IN  /\ found.error = "ok" /\ found.v # Nil /\ found.v.serial = entries[i].serial
                 /\ \E j \in 1 .. i : found.v = entries[j] /\ \A k \in 1 .. j - 1 : entries[k].serial # entries[i].serial

\* A caller who checks a response with its getters
VerifiesByHand(d, key) ==
  CASE key.type = "Rsa" -> RsaVerify(key, d.sig, d.tbs, PKCS1v15, Using(OcspHash(d)))
    [] key.type = "Dsa" -> DsaVerify(key, d.sig, d.tbs, Using(OcspHash(d)))
    [] key.type = "Ec" -> EcVerify(key, d.sig, d.tbs, "ECDSA", Using(OcspHash(d)))
    [] key.type \in Edwards -> EdVerify(key, d.sig, d.tbs)

\* A successful response names the key that signed it: the certificate whose
\* name or key hash is its responder id verifies it, with the hash that the
\* response reports.
ResponderSigned ==
  doc # Nil /\ doc.kind = "ocsp_response" /\ doc.bytes /\ doc.tbs = Sent.tbs =>
    LET cert == builder.set.responder_id.cert
    IN  /\ doc.tbs.responder.by_key \in {Nil, HashData("sha1", cert.key)}
        /\ doc.tbs.responder.by_name \in {Nil, cert.subject}
        /\ \/ OcspHash(doc) = "UnsupportedAlgorithm"
           \/ VerifiesByHand(doc, cert.key) = "ok"

\* The answer in a response is the one that was added: the status, the time and
\* the reason of a revocation, the dates without their microseconds and the
\* serial number; and there is an answer only when the response has response
\* bytes with one answer.
OcspAnswersReadBack ==
  doc # Nil /\ doc.kind = "ocsp_response" =>
    LET a == OcspAnswer(doc)
        r == builder.set.response
    IN  IF a.error # "ok" THEN ~doc.bytes \/ Len(doc.tbs.responses) # 1
        ELSE /\ a.v.status = r.status /\ a.v.reason = r.reason
             /\ a.v.time = (IF r.time = Nil THEN Nil ELSE WholeTicks(convert_to_naive_utc_time(r.time)))
             /\ a.v.this_update = WholeTicks(convert_to_naive_utc_time(r.this_update))
             /\ a.v.serial_number = (IF ByHash(r.id) THEN r.id.by_hash.serial
                                     ELSE big_byte_slice_to_py_int(r.id.cert.serial))

\* What sign() makes, the checks of this library accept: is_signature_valid and
\* verify_directly_issued_by with the signer's key, and a caller's own check of
\* a response with the responder's
SignedVerifies == X509Verifies /\ ResponderSigned

\* What a receiver reads is what the builder was given, to the second, in
\* documents that make sense, and nothing but an entry of an existing list dated
\* before 1950 makes the encoder panic
ReadsBack == FieldsReadBack /\ WindowsAreOrdered /\ OcspAnswersReadBack /\ PanicsOnEarlyEntriesOnly
=============================================================================
