----------------------------- MODULE Asn1Values -----------------------------
(***************************************************************************)
(* The values that X.509 documents are made of, as Python objects and as   *)
(* ASN.1: integers, times, bit strings, names, general names, revocation   *)
(* reasons and distribution points (src/asn1.rs, x509/common.rs,           *)
(* x509/certificate.rs, x509/crl.rs, x509/extensions.rs, extensions.py).   *)
(* A conversion that may fail returns [error, v].                          *)
(***************************************************************************)
EXTENDS ByteNumbers, FiniteSets

CONSTANTS
  TicksPerYear,         \* an ASN.1 time is a number of ticks (seconds)
  Microseconds,         \* in a tick: 10^6; a datetime counts them
  AddressBits           \* the lengths of IPv4 and IPv6 addresses: {32, 128}

ASSUME Asn1ValuesAssumption ==
  /\ TicksPerYear \in Nat \ {0} /\ Microseconds \in Nat \ {0}
  /\ AddressBits \subseteq Nat \ {0}

Ok(v) == [error |-> "ok", v |-> v]
Err(e) == [error |-> e, v |-> Nil]

\* A conversion of every element: the first that fails ends it
Each(s, Op(_)) ==
  LET r == [i \in DOMAIN s |-> Op(s[i])]
      bad == {i \in DOMAIN s : r[i].error # "ok"}
  IN  IF bad = {} THEN Ok([i \in DOMAIN s |-> r[i].v])
      ELSE r[CHOOSE i \in bad : \A j \in bad : i <= j]

Optional(v, Op(_)) == IF v = Nil THEN Ok(Nil) ELSE Op(v)

\* A record whose fields were converted one by one, in the order of `order`
Fields(r, order) ==
  LET bad == {i \in DOMAIN order : r[order[i]].error # "ok"}
  IN  IF bad = {} THEN Ok([f \in DOMAIN r |-> r[f].v])
      ELSE r[order[CHOOSE i \in bad : \A j \in bad : i <= j]]

-----------------------------------------------------------------------------
(* Integers                                                                *)

py_uint_to_big_endian_bytes(v) ==
  IF v < 0 THEN Err("ValueError") ELSE Ok(ToBytes(v, SignedLength(v)))

\* int.from_bytes(signed=True)
big_byte_slice_to_py_int(s) ==
  IF s[1] >= Byte \div 2 THEN FromBytes(s) - Two[ByteBits * Len(s)] ELSE FromBytes(s)

\* BigUint::new(..).unwrap()
EncodeUint(v) ==
  LET bytes == py_uint_to_big_endian_bytes(v)
  IN  IF bytes.error # "ok" \/ IsBigUint(bytes.v) THEN bytes ELSE Err("panic")

-----------------------------------------------------------------------------
(* Times                                                                   *)

YearOf(t) == t \div TicksPerYear
Century == 100 * TicksPerYear

\* asn1::DateTime has no field for what is less than a tick: it is dropped
WholeTicks(at) == at \div Microseconds

\* A datetime is [at, offset], naive when offset is Nil
py_to_datetime_Local(dt) == WholeTicks(dt.at)   \* mutant
py_to_datetime(dt) == WholeTicks(IF dt.offset = Nil THEN dt.at ELSE dt.at - dt.offset)

datetime_to_py(t) == [at |-> t * Microseconds, offset |-> Nil]

time_from_datetime_LateCutoff(t) ==   \* mutant
  IF YearOf(t) > 2050 THEN Ok([form |-> "GeneralizedTime", t |-> t])
  ELSE Ok([form |-> "UtcTime", t |-> t % Century])

\* A UtcTime has two digits for the year and stands for 1950 to 2049
time_from_datetime(t) ==
  IF YearOf(t) >= 2050 THEN Ok([form |-> "GeneralizedTime", t |-> t])
  ELSE IF YearOf(t) < 1950 THEN Err("panic")
  ELSE Ok([form |-> "UtcTime", t |-> t % Century])

time_from_py(dt) == time_from_datetime(py_to_datetime(dt))

as_datetime(time) ==
  IF time.form = "GeneralizedTime" THEN time.t
  ELSE time.t + (IF YearOf(time.t) >= 50 THEN 19 ELSE 20) * Century

-----------------------------------------------------------------------------
(* Bit strings: the positions of the set bits, counted from the most        *)
(* significant one of the first byte                                        *)

BitString(set, bytes, unused) == [set |-> set, bytes |-> bytes, unused |-> unused]

\* BitString::new: no more than seven unused bits, and these clear
WellFormed(b) ==
  /\ b.unused < 8 /\ (b.bytes = 0 => b.unused = 0)
  /\ \A n \in b.set : n < 8 * b.bytes - b.unused

has_bit_set(b, n) == n < 8 * b.bytes /\ n \in b.set

\* u8::trailing_zeros of byte i of the bits in set
TrailingZeros(set, i) ==
  LET here == {n \in set : n \div 8 = i}
  IN  IF here = {} THEN 8 ELSE 7 - ((CHOOSE n \in here : \A k \in here : k <= n) % 8)

-----------------------------------------------------------------------------
(* Names: sequences of sets of attributes [oid, type, value]                *)

CodingOf(type) ==
  CASE type = "BitString" -> "bytes"
    [] type = "BMPString" -> "utf_16_be"
    [] type = "UniversalString" -> "utf_32_be"
    [] OTHER -> "utf8"

encode_name_entry(a) ==
  [oid |-> a.oid, tag |-> a.type, coding |-> CodingOf(a.type), value |-> a.value]

\* The RDN is written as a SET OF
encode_name(name) == [i \in DOMAIN name |-> {encode_name_entry(a) : a \in name[i]}]

\* A value is decoded by its tag; bytes in another coding are no text, except
\* where any bytes are accepted
parse_name_attribute(a) ==
  IF a.tag = "LongForm" THEN Err("ValueError")
  ELSE IF a.tag = "Unknown" THEN Err("KeyError")
  ELSE IF CodingOf(a.tag) # a.coding THEN Err("ValueError")
  ELSE Ok([oid |-> a.oid, type |-> a.tag, value |-> a.value])

\* RelativeDistinguishedName refuses an empty set
parse_rdn(rdn) ==
  LET bad == {a \in rdn : parse_name_attribute(a).error # "ok"}
  IN  IF bad # {} THEN parse_name_attribute(CHOOSE a \in bad : TRUE)
      ELSE IF rdn = {} THEN Err("ValueError")
      ELSE Ok({parse_name_attribute(a).v : a \in rdn})

parse_name(name) == Each(name, parse_rdn)

-----------------------------------------------------------------------------
(* General names: [type, v].  The value of an IPAddress is [addr, prefix],  *)
(* bits and the length of the network's prefix, Nil for a single address.   *)

Netmask(width, prefix) == [i \in 1 .. width |-> IF i <= prefix THEN 1 ELSE 0]

\* IPAddress._packed
Packed(ip) == IF ip.prefix = Nil THEN ip.addr ELSE ip.addr \o Netmask(Len(ip.addr), ip.prefix)

encode_general_name(gn) ==
  CASE gn.type = "DirectoryName" -> Ok([type |-> gn.type, v |-> encode_name(gn.v)])
    [] gn.type = "IPAddress" -> Ok([type |-> gn.type, v |-> Packed(gn.v)])
    [] gn.type = "OtherName" /\ ~gn.v.der -> Err("ValueError")
    [] gn.type \in {"DNSName", "RFC822Name", "URI", "RegisteredID", "OtherName"} -> Ok(gn)
    [] OTHER -> Err("ValueError")

encode_general_names(gns) == Each(gns, encode_general_name)

LeadingOnes(bits) ==
  CHOOSE n \in 0 .. Len(bits) :
    /\ \A i \in 1 .. n : bits[i] = 1
    /\ n < Len(bits) => bits[n + 1] = 0

\* leading_ones + trailing_zeros is the width; ipv6_netmask is the same
ipv4_netmask(mask) ==
  LET zeros == Cardinality({i \in DOMAIN mask : \A j \in i .. Len(mask) : mask[j] = 0})
  IN  IF LeadingOnes(mask) + zeros # Len(mask) THEN Err("ValueError") ELSE Ok(LeadingOnes(mask))

\* ip_network refuses a base with bits beyond the prefix
create_ip_network(data) ==
  LET width == Len(data) \div 2
      prefix == ipv4_netmask(SubSeq(data, width + 1, Len(data)))
  IN  IF ~(\E w \in AddressBits : Len(data) = 2 * w) THEN Err("ValueError")
      ELSE IF prefix.error # "ok" THEN prefix
      ELSE IF \E i \in prefix.v + 1 .. width : data[i] = 1 THEN Err("ValueError")
      ELSE Ok([type |-> "IPAddress", v |-> [addr |-> SubSeq(data, 1, width), prefix |-> prefix.v]])

parse_general_name(gn) ==
  CASE gn.type = "DirectoryName" ->
         LET name == parse_name(gn.v)
         IN  IF name.error # "ok" THEN name ELSE Ok([type |-> gn.type, v |-> name.v])
    [] gn.type = "IPAddress" ->
         IF Len(gn.v) \in AddressBits
         THEN Ok([type |-> gn.type, v |-> [addr |-> gn.v, prefix |-> Nil]])
         ELSE create_ip_network(gn.v)
    [] gn.type \in {"X400Address", "EDIPartyName"} -> Err("UnsupportedGeneralNameType")
    [] OTHER -> Ok(gn)

parse_general_names(gns) == Each(gns, parse_general_name)

-----------------------------------------------------------------------------
(* Revocation reasons                                                      *)

\* The bits of a distribution point's reasons, and the codes of an entry's reason
CRLREASONFLAGS ==
  [key_compromise |-> 1, ca_compromise |-> 2, affiliation_changed |-> 3, superseded |-> 4,
   cessation_of_operation |-> 5, certificate_hold |-> 6, privilege_withdrawn |-> 7, aa_compromise |-> 8]
CRL_ENTRY_REASON_ENUM_TO_CODE ==
  [unspecified |-> 0, key_compromise |-> 1, ca_compromise |-> 2, affiliation_changed |-> 3,
   superseded |-> 4, cessation_of_operation |-> 5, certificate_hold |-> 6, remove_from_crl |-> 8,
   privilege_withdrawn |-> 9, aa_compromise |-> 10]

parse_crl_reason_flags_ByBit(code) ==   \* mutant
  IF \E r \in DOMAIN CRLREASONFLAGS : CRLREASONFLAGS[r] = code
  THEN Ok(CHOOSE r \in DOMAIN CRLREASONFLAGS : CRLREASONFLAGS[r] = code) ELSE Ok("unspecified")

parse_crl_reason_flags(code) ==
  LET table == << "key_compromise", "ca_compromise", "affiliation_changed", "superseded",
                  "cessation_of_operation", "certificate_hold", Nil, "remove_from_crl",
                  "privilege_withdrawn", "aa_compromise" >>
  IN  IF code = 0 THEN Ok("unspecified")
      ELSE IF code \in DOMAIN table \ {7} THEN Ok(table[code]) ELSE Err("ValueError")

encode_distribution_point_reasons(reasons) ==
  LET set == {CRLREASONFLAGS[r] : r \in reasons}
      last == IF \A n \in set : n < 8 THEN 0 ELSE 1
      b == BitString(set, last + 1, TrailingZeros(set, last))
  IN  IF WellFormed(b) THEN Ok(b) ELSE Err("panic")

parse_distribution_point_reasons(b) ==
  Ok({r \in DOMAIN CRLREASONFLAGS : has_bit_set(b, CRLREASONFLAGS[r])})

-----------------------------------------------------------------------------
(* Distribution points: [full_name, relative_name, reasons, crl_issuer]     *)

Missing(s) == s = Nil \/ s = << >>
NoName == [form |-> "None", names |-> << >>]

FullName(gns) ==
  LET r == encode_general_names(gns)
  IN  IF r.error = "ok" THEN Ok([form |-> "FullName", names |-> r.v]) ELSE r
RelativeName(rdn) == Ok([form |-> "NameRelativeToCRLIssuer", names |-> << {encode_name_entry(a) : a \in rdn} >>])

PointName(dp) ==
  IF dp.full_name # Nil THEN FullName(dp.full_name)
  ELSE IF dp.relative_name # Nil THEN RelativeName(dp.relative_name)
  ELSE Ok(NoName)

encode_distribution_point(dp) ==
  Fields([crl_issuer |-> Optional(dp.crl_issuer, encode_general_names),
          distribution_point |-> PointName(dp),
          reasons |-> Optional(dp.reasons, encode_distribution_point_reasons)],
         << "crl_issuer", "distribution_point", "reasons" >>)

encode_distribution_points(dps) == Each(dps, encode_distribution_point)

\* The pair (full_name, relative_name)
parse_distribution_point_name(name) ==
  CASE name.form = "None" -> Ok([full_name |-> Nil, relative_name |-> Nil])
    [] name.form = "FullName" ->
         Fields([full_name |-> parse_general_names(name.names), relative_name |-> Ok(Nil)], << "full_name" >>)
    [] OTHER ->
         Fields([full_name |-> Ok(Nil), relative_name |-> parse_rdn(name.names[1])], << "relative_name" >>)

\* DistributionPoint refuses a point without a name and an issuer
DistributionPoint(name, reasons, crl_issuer) ==
  IF /\ Missing(name.full_name) /\ name.relative_name = Nil /\ Missing(crl_issuer)
  THEN Err("ValueError")
  ELSE Ok([full_name |-> name.full_name, relative_name |-> name.relative_name,
           reasons |-> reasons, crl_issuer |-> crl_issuer])

parse_distribution_point(dp) ==
  LET parts == Fields([name |-> parse_distribution_point_name(dp.distribution_point),
                       reasons |-> Optional(dp.reasons, parse_distribution_point_reasons),
                       crl_issuer |-> Optional(dp.crl_issuer, parse_general_names)],
                      << "name", "reasons", "crl_issuer" >>)
  IN  IF parts.error # "ok" THEN parts
      ELSE DistributionPoint(parts.v.name, parts.v.reasons, parts.v.crl_issuer)

parse_distribution_points(dps) == Each(dps, parse_distribution_point)

\* [full_name, relative_name, reasons, only (a set), indirect_crl]
encode_issuing_distribution_point(idp) ==
  Fields([reasons |-> IF idp.reasons \in {Nil, {}} THEN Ok(Nil)
                      ELSE encode_distribution_point_reasons(idp.reasons),
          distribution_point |->
            IF ~Missing(idp.full_name) THEN FullName(idp.full_name)
            ELSE IF idp.relative_name # Nil THEN RelativeName(idp.relative_name) ELSE Ok(NoName),
          only |-> Ok(idp.only), indirect_crl |-> Ok(idp.indirect_crl)],
         << "reasons", "distribution_point" >>)

IssuingDistributionPoint(idp) ==
  IF \/ Cardinality(idp.only) > 1
     \/ /\ idp.only = {} /\ ~idp.indirect_crl /\ Missing(idp.full_name) /\ idp.relative_name = Nil
        /\ idp.reasons \in {Nil, {}}
  THEN Err("ValueError") ELSE Ok(idp)

ParseIssuingDistributionPoint(idp) ==
  LET parts == Fields([name |-> parse_distribution_point_name(idp.distribution_point),
                       reasons |-> Optional(idp.reasons, parse_distribution_point_reasons)],
                      << "name", "reasons" >>)
  IN  IF parts.error # "ok" THEN parts
      ELSE IssuingDistributionPoint(
             [full_name |-> parts.v.name.full_name, relative_name |-> parts.v.name.relative_name,
              reasons |-> parts.v.reasons, only |-> idp.only, indirect_crl |-> idp.indirect_crl])
=============================================================================
