-------------------------- MODULE DocumentBuilders --------------------------
(***************************************************************************)
(* Certificates, revocation lists and signing requests: what their Python  *)
(* builders accept (x509/base.py), and how certificate.rs, crl.rs and      *)
(* csr.rs encode, sign, load and check them.  A builder is [kind, set,     *)
(* list]: the fields that may be set once, and the revoked certificates or *)
(* attributes.  A document is [kind, tbs, alg, sig].  Extensions are the   *)
(* subject of module Extensions.                                           *)
(***************************************************************************)
EXTENDS Asn1Values, SignatureAlgorithms

CONSTANT
  SerialBits            \* 160

ASSUME DocumentBuildersAssumption == SerialBits \in Nat

-----------------------------------------------------------------------------
(* The Python builders                                                     *)

Required ==
  [certificate |-> {"issuer_name", "subject_name", "public_key", "serial_number",
                    "not_valid_before", "not_valid_after"},
   crl |-> {"issuer_name", "last_update", "next_update"},
   request |-> {"subject_name"}]

EarliestUtcTime == 1950 * TicksPerYear * Microseconds

convert_to_naive_utc_time(dt) == IF dt.offset = Nil THEN dt.at ELSE dt.at - dt.offset

serial_number(n) == n > 0 /\ BitLength(n) < SerialBits

public_key(key) == key.type \in KeyType \cup {"X25519", "X448"}

\* A later date, or none, in the other field of the pair
InOrder(first, second) == Nil \notin {first, second} => first <= second

DateAccepted(set, f, t) ==
  /\ t >= EarliestUtcTime
  /\ CASE f = "not_valid_before" -> InOrder(t, set.not_valid_after)
       [] f = "not_valid_after" -> InOrder(set.not_valid_before, t)
       [] f = "last_update" -> InOrder(t, set.next_update)
       [] f = "next_update" -> InOrder(set.last_update, t)

Dates == {"not_valid_before", "not_valid_after", "last_update", "next_update"}
Stored(f, v) == IF f \in Dates THEN convert_to_naive_utc_time(v) ELSE v

\* The setters: FALSE is a ValueError or a TypeError
Accepts(b, f, v) ==
  /\ b.set[f] = Nil
  /\ CASE f = "serial_number" -> serial_number(v)
       [] f = "public_key" -> public_key(v)
       [] f \in Dates -> DateAccepted(b.set, f, Stored(f, v))
       [] OTHER -> TRUE

\* RevokedCertificateBuilder, of [serial, date]
RevokedAccepted(e) == serial_number(e.serial) /\ convert_to_naive_utc_time(e.date) >= EarliestUtcTime
RevokedCertificate(e) == [serial |-> e.serial, date |-> convert_to_naive_utc_time(e.date)]

\* The getters of an entry of a list that was loaded, of encoded [serial, date]:
\* nothing bounds its number and its date
LoadedRevokedCertificate(e) ==
  [serial |-> big_byte_slice_to_py_int(e.serial), date |-> datetime_to_py(as_datetime(e.date)).at]

\* An attribute is [oid, value, utf8, tag]
reject_duplicate_attribute(b, a) == \A i \in DOMAIN b.list : b.list[i].oid # a.oid

\* The checks of the arguments of sign()
PaddingAccepted(key, padding) == padding # Nil => padding.name \in {"PSS", "PKCS1v15"} /\ key.type = "Rsa"

-----------------------------------------------------------------------------
(* Encoding and signing                                                    *)

Signed(kind, alg, tbs, key, hash, padding) ==
  IF alg.error # "ok" THEN Err(alg.error)
  ELSE IF tbs.error # "ok" THEN tbs
  ELSE LET sig == sign_data(key, hash, padding, tbs.v)
       IN  IF sig.error # "ok" THEN Err(sig.error)
           ELSE Ok([kind |-> kind, tbs |-> tbs.v, alg |-> alg, sig |-> sig])

Naive(t) == [at |-> t, offset |-> Nil]

create_x509_certificate(b, key, hash, padding) ==
  LET alg == compute_signature_algorithm(key, hash, padding)
      tbs == Fields([version |-> Ok(2), alg |-> Ok(alg), spki |-> Ok(b.set.public_key),
                     serial |-> EncodeUint(b.set.serial_number),
                     issuer |-> Ok(b.set.issuer_name), subject |-> Ok(b.set.subject_name),
                     not_before |-> time_from_py(Naive(b.set.not_valid_before)),
                     not_after |-> time_from_py(Naive(b.set.not_valid_after))],
                    << "serial", "not_before", "not_after" >>)
  IN  Signed("certificate", alg, tbs, key, hash, padding)

EncodeRevoked(e) ==
  Fields([serial |-> EncodeUint(e.serial), date |-> time_from_py([at |-> e.date, offset |-> 0])],
         << "serial", "date" >>)

create_x509_crl(b, key, hash, padding) ==
  LET alg == compute_signature_algorithm(key, hash, padding)
      tbs == Fields([version |-> Ok(1), alg |-> Ok(alg), issuer |-> Ok(b.set.issuer_name),
                     revoked |-> IF b.list = << >> THEN Ok(Nil) ELSE Each(b.list, EncodeRevoked),
                     last_update |-> time_from_py(Naive(b.set.last_update)),
                     next_update |-> time_from_py(Naive(b.set.next_update))],
                    << "revoked", "last_update", "next_update" >>)
  IN  Signed("crl", alg, tbs, key, hash, padding)

\* Without a tag, a value must be UTF-8
EncodeAttribute(a) ==
  IF a.tag = Nil /\ ~a.utf8 THEN Err("ValueError")
  ELSE Ok([oid |-> a.oid, value |-> a.value, tag |-> IF a.tag = Nil THEN "UTF8String" ELSE a.tag])

\* The attributes are a SET OF: their order is not kept
create_x509_csr(b, key, hash, padding) ==
  LET alg == compute_signature_algorithm(key, hash, padding)
      attributes == Each(b.list, EncodeAttribute)
      tbs == Fields([version |-> Ok(0), subject |-> Ok(b.set.subject_name), spki |-> Ok(key),
                     attributes |-> IF attributes.error # "ok" THEN attributes
                                    ELSE Ok({attributes.v[i] : i \in DOMAIN attributes.v})],
                    << "attributes" >>)
  IN  Signed("request", alg, tbs, key, hash, padding)

-----------------------------------------------------------------------------
(* Loading and checking                                                    *)

cert_version(v) == v \in {0, 2}

\* An absent version of a revocation list counts as the right one
VersionAccepted(d) ==
  CASE d.kind = "certificate" -> cert_version(d.tbs.version)
    [] d.kind = "crl" -> d.tbs.version \in {Nil, 1}
    [] d.kind = "request" -> d.tbs.version = 0

verify_directly_issued_by_AnyName(d, issuer) ==   \* mutant
  IF d.tbs.alg # d.alg THEN "ValueError"
  ELSE verify_signature_with_signature_algorithm(issuer.key, d.alg, d.sig, d.tbs)

\* "ok" or the exception that the caller sees
verify_directly_issued_by(d, issuer) ==
  IF d.tbs.alg # d.alg THEN "ValueError"
  ELSE IF d.tbs.issuer # issuer.subject THEN "ValueError"
  ELSE verify_signature_with_signature_algorithm(issuer.key, d.alg, d.sig, d.tbs)

\* Every error of the verification is an invalid signature, except a key of
\* another kind
is_crl_signature_valid(d, key) ==
  IF d.tbs.alg # d.alg THEN "False"
  ELSE IF identify_key_type(key) = "TypeError" THEN "TypeError"
  ELSE IF verify_signature_with_signature_algorithm(key, d.alg, d.sig, d.tbs) = "ok" THEN "True" ELSE "False"

is_csr_signature_valid(d) ==
  verify_signature_with_signature_algorithm(d.tbs.spki, d.alg, d.sig, d.tbs) = "ok"

-----------------------------------------------------------------------------
(* A revocation list as a sequence                                         *)

Entries(d) == IF d.tbs.revoked = Nil THEN << >> ELSE d.tbs.revoked

\* PySlice::indices
SliceBound(i, n, absent) ==
  IF i = Nil THEN absent
  ELSE IF i < 0 THEN IF i + n < 0 THEN 0 ELSE i + n
  ELSE IF i > n THEN n ELSE i

\* entries is what is cached.  The step must fit a usize; zero is refused before
getitem_slice(entries, start, stop, step) ==
  LET n == Len(entries)
      from == SliceBound(start, n, 0)
      to == SliceBound(stop, n, n)
  IN  IF step = 0 THEN Err("ValueError")
      ELSE IF step < 0 THEN Err("panic")
      ELSE IF from >= to THEN Ok(<< >>)
      ELSE Ok([k \in 1 .. (to - from + step - 1) \div step |-> entries[from + (k - 1) * step + 1]])

getitem_index_Unchecked(entries, idx) ==   \* mutant
  LET n == Len(entries)
      i == IF idx < 0 THEN idx + n ELSE idx
  IN  IF i > n \/ i < 0 THEN Err("IndexError") ELSE IF i = n THEN Err("panic") ELSE Ok(entries[i + 1])

getitem_index(entries, idx) ==
  LET n == Len(entries)
      i == IF idx < 0 THEN idx + n ELSE idx
  IN  IF i >= n \/ i < 0 THEN Err("IndexError") ELSE Ok(entries[i + 1])

\* The bytes of the integers are compared
get_revoked_certificate_by_serial_number(d, serial) ==
  LET bytes == py_uint_to_big_endian_bytes(serial)
      found == {i \in DOMAIN Entries(d) : Entries(d)[i].serial = bytes.v}
  IN  IF bytes.error # "ok" THEN bytes
      ELSE IF found = {} THEN Ok(Nil)
      ELSE Ok(Entries(d)[CHOOSE i \in found : \A j \in found : i <= j])
=============================================================================
