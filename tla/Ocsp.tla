-------------------------------- MODULE Ocsp --------------------------------
(***************************************************************************)
(* OCSP requests and responses: what their Python builders accept          *)
(* (x509/ocsp.py), and how ocsp.rs, ocsp_req.rs and ocsp_resp.rs encode,   *)
(* sign, load and read them.  A certificate is [subject, issuer, serial,   *)
(* key].  A response is [kind, status, bytes, tbs, alg, sig, certs], where *)
(* bytes tells whether there are response bytes.                           *)
(***************************************************************************)
EXTENDS DocumentBuilders

CONSTANT
  OcspHashes            \* SHA-1 and SHA-2, the hashes of a CertID

ASSUME OcspAssumption == OcspHashes \subseteq DOMAIN DigestSize

-----------------------------------------------------------------------------
(* CertIDs: [hash, name, key, serial]                                      *)

HashData(hash, data) == Digest(hash, data)

certid_new(cert, issuer, hash) ==
  [hash |-> hash, name |-> HashData(hash, cert.issuer), key |-> HashData(hash, issuer.key),
   serial |-> cert.serial]

\* Of [name, key, serial, hash]; the hashes come from the caller
certid_new_from_hash(h) ==
  LET serial == py_uint_to_big_endian_bytes(h.serial)
  IN  IF serial.error # "ok" THEN serial
      ELSE Ok([hash |-> h.hash, name |-> h.name, key |-> h.key, serial |-> serial.v])

HashLengthsFit(h) == DigestSize[h.name.hash] = DigestSize[h.hash] /\ DigestSize[h.key.hash] = DigestSize[h.hash]

\* An argument is [cert, issuer, hash], or [by_hash, hash] for by_hash of
\* [name, key, serial, hash]
ByHash(arg) == arg.cert = Nil
IdAccepted(arg) == arg.hash \in OcspHashes /\ (ByHash(arg) => HashLengthsFit(arg.by_hash))
CertId(arg) == IF ByHash(arg) THEN certid_new_from_hash(arg.by_hash) ELSE Ok(certid_new(arg.cert, arg.issuer, arg.hash))

create_ocsp_request(arg) ==
  LET id == CertId(arg)
  IN  IF id.error # "ok" THEN id
      ELSE Ok([kind |-> "ocsp_request", tbs |-> [requests |-> << id.v >>]])

-----------------------------------------------------------------------------
(* Responses                                                               *)

\* _SingleResponse, of [id, status, this_update, next_update, time, reason]
SingleAccepted(s) ==
  /\ IdAccepted(s.id)
  /\ IF s.status = "REVOKED" THEN s.time # Nil ELSE s.time = Nil /\ s.reason = Nil

GeneralizedTime(dt) == Ok(py_to_datetime(dt))
ReasonCode(r) == Ok(CRL_ENTRY_REASON_ENUM_TO_CODE[r])

EncodeSingle(s) ==
  Fields([status |-> Ok(s.status), reason |-> Optional(s.reason, ReasonCode),
          time |-> Optional(s.time, GeneralizedTime),
          next_update |-> Optional(s.next_update, GeneralizedTime),
          this_update |-> GeneralizedTime(s.this_update), id |-> CertId(s.id)],
         << "reason", "time", "next_update", "this_update", "id" >>)

ResponderId(r) ==
  IF r.encoding = "HASH" THEN [by_key |-> HashData("sha1", r.cert.key), by_name |-> Nil]
  ELSE [by_key |-> Nil, by_name |-> r.cert.subject]

Successful == 0
Statuses == {0, 1, 2, 3, 5, 6}

SignedResponse(b, signed) ==
  [kind |-> "ocsp_response", status |-> Successful, bytes |-> TRUE, tbs |-> signed.tbs,
   alg |-> signed.alg, sig |-> signed.sig, certs |-> b.set.certificates]

\* The response is encoded before the algorithm is computed, and the key is
\* compared with that of the responder's certificate last
create_ocsp_response(b, key, hash) ==
  LET tbs == Fields([version |-> Ok(0), responder |-> Ok(ResponderId(b.set.responder_id)),
                     responses |-> Each(<< b.set.response >>, EncodeSingle)], << "responses" >>)
      signed == Signed("ocsp_response", compute_signature_algorithm(key, hash, Nil), tbs, key, hash, Nil)
  IN  IF tbs.error # "ok" THEN tbs
      ELSE IF signed.error # "ok" THEN signed
      ELSE IF b.set.responder_id.cert.key # key THEN Err("ValueError")
      ELSE Ok(SignedResponse(b, signed.v))

UnsuccessfulResponse(status) ==
  [kind |-> "ocsp_response", status |-> status, bytes |-> FALSE, tbs |-> Nil, alg |-> Nil,
   sig |-> Nil, certs |-> Nil]

\* The setters of both builders
OcspRequired == [ocsp_request |-> {"request"}, ocsp_response |-> {"response", "responder_id"}]
OcspAccepts(b, f, v) ==
  /\ b.set[f] = Nil
  /\ CASE f = "request" -> IdAccepted(v)
       [] f = "response" -> SingleAccepted(v)
       [] f = "certificates" -> v # << >>
       [] OTHER -> TRUE

-----------------------------------------------------------------------------
(* Loading and reading                                                     *)

load_der_ocsp_request(d) == IF Len(d.tbs.requests) # 1 THEN "NotImplementedError" ELSE "ok"

load_der_ocsp_response(d) ==
  IF d.status \notin Statuses \/ (d.status = Successful /\ ~d.bytes) THEN "ValueError" ELSE "ok"

requires_successful_response(d) == IF d.bytes THEN Ok(d.tbs) ELSE Err("ValueError")

single_response(d) ==
  LET basic == requires_successful_response(d)
  IN  IF basic.error # "ok" THEN basic
      ELSE IF Len(basic.v.responses) # 1 THEN Err("ValueError") ELSE Ok(basic.v.responses[1])

\* The getters of a response with one answer
OcspAnswer(d) ==
  LET r == single_response(d)
  IN  IF r.error # "ok" THEN r
      ELSE Fields([status |-> Ok(r.v.status), id |-> Ok(r.v.id),
                   serial_number |-> Ok(big_byte_slice_to_py_int(r.v.id.serial)),
                   time |-> Ok(r.v.time), reason |-> Optional(r.v.reason, parse_crl_reason_flags),
                   this_update |-> Ok(r.v.this_update), next_update |-> Ok(r.v.next_update)],
                  << "reason" >>)

\* Only a certificate, a request for one or a revocation list checks its own
\* signature; of a response, the caller does with the getters
OcspHash(d) == SIG_OIDS_TO_HASH(d.alg)
=============================================================================
