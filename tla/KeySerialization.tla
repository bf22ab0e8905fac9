-------------------------- MODULE KeySerialization --------------------------
(***************************************************************************)
(* Writing keys (utils.rs) and reading them back (keys.rs and the key      *)
(* parsing crate).  A document is what its bytes mean to a reader:         *)
(* [encoding, container, delimiter, kind, key, flaw, private, encrypted,   *)
(*  password].  A key object is [class, kind, key, private, flaw].         *)
(***************************************************************************)
EXTENDS Naturals, FiniteSets

CONSTANTS
  MaxPassword,          \* 1023
  CallbackBuffer,       \* the buffer that OpenSSL gives to the password callback
  Fips,
  Boringssl,            \* built with BoringSSL, which lacks Curve448 and DH keys
  None

\* The longest password that is written with fits the callback's buffer
ASSUME KeySerializationAssumption ==
  /\ MaxPassword \in Nat \ {0} /\ CallbackBuffer \in Nat /\ MaxPassword <= CallbackBuffer
  /\ Fips \in BOOLEAN /\ Boringssl \in BOOLEAN

Empty == [id |-> "", len |-> 0]

Encodings == {"PEM", "DER", "OpenSSH", "Raw", "X962", "SMIME"}
PrivateFormats == {"PKCS8", "TraditionalOpenSSL", "Raw", "OpenSSH", "PKCS12"}
PublicFormats == {"SubjectPublicKeyInfo", "PKCS1", "OpenSSH", "Raw", "CompressedPoint",
                  "UncompressedPoint"}

Curve448 == {"ED448", "X448"}

\* The Python class of a key of an OpenSSL kind, None when there is none
ClassOf(kind) ==
  IF kind \in {"RSA", "RSA_PSS"} THEN "RSA"
  ELSE IF kind = "DH" \/ (kind = "DHX" /\ ~Boringssl) THEN "DH"
  ELSE IF kind \in {"EC", "DSA", "ED25519", "X25519"} \/ (kind \in Curve448 /\ ~Boringssl) THEN kind
  ELSE None

\* What each class passes to pkey_private_bytes and pkey_public_bytes
RsaClass == [openssh_allowed |-> TRUE, raw_allowed |-> FALSE]
DsaClass == [openssh_allowed |-> TRUE, raw_allowed |-> FALSE]
EcClass == [openssh_allowed |-> TRUE, raw_allowed |-> FALSE]
DhClass == [openssh_allowed |-> TRUE, raw_allowed |-> FALSE]
Ed25519Class == [openssh_allowed |-> TRUE, raw_allowed |-> TRUE]
Ed448Class == [openssh_allowed |-> TRUE, raw_allowed |-> TRUE]
X25519Class == [openssh_allowed |-> FALSE, raw_allowed |-> TRUE]
X448Class == [openssh_allowed |-> FALSE, raw_allowed |-> TRUE]

Classes ==
  [RSA |-> RsaClass, DSA |-> DsaClass, EC |-> EcClass, DH |-> DhClass, ED25519 |-> Ed25519Class,
   ED448 |-> Ed448Class, X25519 |-> X25519Class, X448 |-> X448Class]

OpensshAllowed(class) == Classes[class].openssh_allowed
RawAllowed(class) == Classes[class].raw_allowed

\* What the OpenSSH format knows
SshKinds == {"RSA", "DSA", "EC", "ED25519"}

-----------------------------------------------------------------------------
(* Writing                                                                 *)

Fail(e) == [error |-> e, doc |-> None]
Write(d) == [error |-> "ok", doc |-> d]

Document(o, encoding, container, delimiter, password) ==
  [encoding |-> encoding, container |-> container, delimiter |-> delimiter, kind |-> o.kind,
   key |-> o.key, flaw |-> o.flaw, private |-> o.private, encrypted |-> password # Empty,
   password |-> password]

\* BestAvailableEncryption and the builders refuse an empty password; a builder
\* is for one format
IsEncryption(enc) == enc.alg = "NoEncryption" \/ enc.password.len > 0

EncryptionFits(enc, format) ==
  enc.alg \in {"NoEncryption", "BestAvailable"} \/ (enc.alg = "Builder" /\ enc.format = format)

PasswordOf_BestOnly(enc) ==   \* mutant
  IF enc.alg = "BestAvailable" THEN enc.password ELSE Empty

PasswordOf(enc) == IF enc.alg = "NoEncryption" THEN Empty ELSE enc.password

TooLong_Never(password) ==   \* mutant
  FALSE

TooLong(password) == password.len > MaxPassword

\* The traditional format: an encrypted one is a PEM feature and not for FIPS
Traditional(o, encoding, password) ==
  /\ o.class \in {"RSA", "DSA", "EC"}
  /\ encoding \in {"PEM", "DER"}
  /\ password # Empty => encoding = "PEM" /\ ~Fips

PrivateContainer(o, encoding, format, password) ==
  IF format = "PKCS8" THEN encoding \in {"PEM", "DER"}
  ELSE IF format = "TraditionalOpenSSL" THEN Traditional(o, encoding, password)
  ELSE format = "OpenSSH" /\ OpensshAllowed(o.class) /\ encoding = "PEM" /\ o.class \in SshKinds

pkey_private_bytes(o, encoding, format, enc) ==
  IF encoding \notin Encodings \/ format \notin PrivateFormats \/ enc.alg = "other"
  THEN Fail("TypeError")
  ELSE IF RawAllowed(o.class) /\ "Raw" \in {encoding, format}
  THEN IF encoding = "Raw" /\ format = "Raw" /\ enc.alg = "NoEncryption"
       THEN Write(Document(o, "Raw", "Raw", None, Empty)) ELSE Fail("ValueError")
  ELSE IF ~EncryptionFits(enc, format) \/ TooLong(PasswordOf(enc)) THEN Fail("ValueError")
  ELSE IF PrivateContainer(o, encoding, format, PasswordOf(enc))
  THEN Write(Document(o, encoding, format, None, PasswordOf(enc)))
  ELSE Fail("ValueError")

PrivateBytes(o, encoding, format, enc) ==
  IF o.class = "DH" /\ format # "PKCS8" THEN Fail("ValueError")
  ELSE pkey_private_bytes(o, encoding, format, enc)

PublicContainer(o, encoding, format) ==
  \/ format = "SubjectPublicKeyInfo" /\ encoding \in {"PEM", "DER"}
  \/ o.class = "EC" /\ encoding = "X962" /\ format \in {"CompressedPoint", "UncompressedPoint"}
  \/ o.class = "RSA" /\ format = "PKCS1" /\ encoding \in {"PEM", "DER"}
  \/ /\ OpensshAllowed(o.class) /\ o.class \in SshKinds
     /\ format = "OpenSSH" /\ encoding = "OpenSSH"

\* Of PEM
Delimiter(format) == IF format = "PKCS1" THEN "RSA PUBLIC KEY" ELSE "PUBLIC KEY"

pkey_public_bytes(o, encoding, format) ==
  IF encoding \notin Encodings \/ format \notin PublicFormats THEN Fail("TypeError")
  ELSE IF RawAllowed(o.class) /\ "Raw" \in {encoding, format}
  THEN IF encoding = "Raw" /\ format = "Raw"
       THEN Write(Document(o, "Raw", "Raw", None, Empty)) ELSE Fail("ValueError")
  ELSE IF PublicContainer(o, encoding, format)
  THEN Write(Document(o, encoding, format, Delimiter(format), Empty))
  ELSE Fail("ValueError")

PublicBytes(o, encoding, format) ==
  IF o.class = "DH" /\ format # "SubjectPublicKeyInfo" THEN Fail("ValueError")
  ELSE pkey_public_bytes(o, encoding, format)

-----------------------------------------------------------------------------
(* OpenSSL's readers, and the password callback                            *)

\* What the callback reports, and the password that OpenSSL gets from it
password_callback(password) ==
  IF password = None THEN << "Used", Empty >>
  ELSE IF password.len <= CallbackBuffer THEN << "Used", password >>
  ELSE << "BufferTooSmall", Empty >>

IsPrivateKeyInfo(d) == d.private /\ d.container \in {"PKCS8", "TraditionalOpenSSL"}

Status(d, password) == IF d.encrypted THEN password_callback(password)[1] ELSE "Unused"
Deciphers(d, password) == d.encrypted => password_callback(password)[2] = d.password

handle_key_load_result(ok, status, password) ==
  IF ok /\ << status, password = None >> \in {<< "Unused", TRUE >>, << "Used", FALSE >>} THEN "ok"
  ELSE IF ok /\ status = "Unused" THEN "TypeError"
  ELSE IF status = "Used" /\ password \in {None, Empty} THEN "TypeError"
  ELSE "ValueError"

-----------------------------------------------------------------------------
(* Key objects from OpenSSL's keys                                         *)

Object(kind, d) ==
  [class |-> ClassOf(kind), kind |-> kind, key |-> d.key, private |-> d.private, flaw |-> d.flaw]

Loaded(o) == [error |-> "ok", obj |-> o]
NotLoaded(e) == [error |-> e, obj |-> None]

\* py_curve_from_curve and check_key_infinity
EcLoadable(d) == d.flaw \notin {"explicit", "curve", "infinity"}

\* Constraints of RSA-PSS keys are stripped
private_key_from_pkey(d, unsafe_skip_rsa_key_validation) ==
  IF ClassOf(d.kind) = None THEN NotLoaded("UnsupportedAlgorithm")
  ELSE IF ClassOf(d.kind) = "RSA"
  THEN IF ~unsafe_skip_rsa_key_validation /\ d.flaw = "rsa" THEN NotLoaded("ValueError")
       ELSE Loaded(Object("RSA", d))
  ELSE IF d.kind = "EC" /\ ~EcLoadable(d)
  THEN NotLoaded(IF d.flaw = "curve" THEN "UnsupportedAlgorithm" ELSE "ValueError")
  ELSE Loaded(Object(d.kind, d))

load_der_private_key_bytes(d, password, skip) ==
  LET der == IsPrivateKeyInfo(d) /\ d.encoding = "DER"
      result == handle_key_load_result(der /\ Deciphers(d, password),
                                       IF der THEN Status(d, password) ELSE "Unused", password)
  IN  IF der /\ ~d.encrypted
      THEN IF password # None THEN NotLoaded("TypeError") ELSE private_key_from_pkey(d, skip)
      ELSE IF result = "ok" THEN private_key_from_pkey(d, skip) ELSE NotLoaded(result)

load_pem_private_key(d, password, skip) ==
  LET pem == IsPrivateKeyInfo(d) /\ d.encoding = "PEM"
      result == handle_key_load_result(pem /\ Deciphers(d, password),
                                       IF pem THEN Status(d, password) ELSE "Unused", password)
  IN  IF result = "ok" THEN private_key_from_pkey(d, skip) ELSE NotLoaded(result)

\* ssh.py: an empty password counts as none
load_ssh_private_key(d, password, skip) ==
  LET given == password \notin {None, Empty}
  IN  IF d.container # "OpenSSH" \/ ~d.private THEN NotLoaded("ValueError")
      ELSE IF d.encrypted /= given THEN NotLoaded("TypeError")
      ELSE IF d.encrypted /\ password # d.password THEN NotLoaded("ValueError")
      ELSE private_key_from_pkey(d, skip)

\* from_private_bytes of the class
FromRawPrivate(d) ==
  IF d.container = "Raw" /\ d.private THEN Loaded(Object(d.kind, d)) ELSE NotLoaded("ValueError")

-----------------------------------------------------------------------------
(* Public keys                                                             *)

\* ec_params_to_group knows the named curves
ec_params_to_group(d) ==
  IF d.flaw = "explicit" THEN "ValueError" ELSE IF d.flaw = "curve" THEN "UnsupportedAlgorithm" ELSE "ok"

\* spki::parse_public_key: the kind of key it makes, or an error
parse_public_key(d) ==
  IF d.private \/ d.container # "SubjectPublicKeyInfo" THEN NotLoaded("ValueError")
  ELSE IF d.kind = "EC" /\ ec_params_to_group(d) # "ok" THEN NotLoaded(ec_params_to_group(d))
  ELSE IF ClassOf(d.kind) = None \/ (ClassOf(d.kind) = "DH" /\ Boringssl)
  THEN NotLoaded("UnsupportedAlgorithm")
  ELSE Loaded(Object(IF d.kind = "RSA_PSS" THEN "RSA" ELSE d.kind, d))

parse_pkcs1_public_key(d) ==
  IF ~d.private /\ d.container = "PKCS1" THEN Loaded(Object("RSA", d)) ELSE NotLoaded("ValueError")

public_key_from_pkey(r) ==
  IF r.error = "ok" /\ r.obj.kind = "EC" /\ r.obj.flaw = "infinity" THEN NotLoaded("ValueError") ELSE r

load_der_public_key_bytes(d) ==
  IF d.encoding # "DER" THEN NotLoaded("ValueError")
  ELSE IF parse_public_key(d).error # "ok" /\ parse_pkcs1_public_key(d).error = "ok"
  THEN public_key_from_pkey(parse_pkcs1_public_key(d))
  ELSE public_key_from_pkey(parse_public_key(d))

load_pem_public_key(d) ==
  IF d.encoding # "PEM" \/ d.private THEN NotLoaded("ValueError")
  ELSE IF d.delimiter = "RSA PUBLIC KEY"
  THEN IF parse_pkcs1_public_key(d).error = "ok" THEN public_key_from_pkey(parse_pkcs1_public_key(d))
       ELSE IF parse_public_key(d).error # "ok" THEN NotLoaded("ValueError")
       ELSE IF parse_public_key(d).obj.kind # "RSA" THEN NotLoaded("ValueError")
       ELSE public_key_from_pkey(parse_public_key(d))
  ELSE IF d.delimiter = "PUBLIC KEY" THEN public_key_from_pkey(parse_public_key(d))
  ELSE NotLoaded("ValueError")

\* load_ssh_public_key, from_encoded_point, from_public_bytes of the class
LoadOtherPublic(d) ==
  IF ~d.private /\ d.container \in {"OpenSSH", "Raw", "CompressedPoint", "UncompressedPoint"}
  THEN Loaded(Object(d.kind, d)) ELSE NotLoaded("ValueError")
=============================================================================
