--------------------------- MODULE SigningProofs ---------------------------
(***************************************************************************)
(* Proofs about modules Keys and Documents: keys are read back with the    *)
(* password they were written with and no other, verification and          *)
(* decryption accept what signing and encryption made and nothing else,    *)
(* and so do the checks of signed documents; a document reads back as the  *)
(* builder's inputs, and the views of a revocation list agree.             *)
(***************************************************************************)
EXTENDS Keys, Documents, TLAPS, FiniteSetTheorems, WellFoundedInduction

-----------------------------------------------------------------------------
(* What key objects and documents look like                                *)

\* A key object that a program generated, or its public half
Fresh(o) ==
  /\ o = [class |-> o.kind, kind |-> o.kind, key |-> o.key, private |-> o.private, flaw |-> None]
  /\ o.private \in BOOLEAN /\ o.kind \in DOMAIN Classes /\ ClassOf(o.kind) = o.kind
  /\ Boringssl => o.kind # "DH"

\* The documents that loaders get: what is wrong with one fits its kind, and
\* nothing is wrong with those in a format that has no check
Legible(d) ==
  /\ d.private \in BOOLEAN /\ d.encrypted \in BOOLEAN
  /\ d.password # None /\ (~d.encrypted => d.password = Empty)
  /\ d.container = "PKCS1" => d.kind = "RSA"
  /\ d.flaw \in {"explicit", "curve", "infinity"} => d.kind = "EC"
  /\ d.flaw = "rsa" => d.kind \in {"RSA", "RSA_PSS"}
  /\ \/ d.container \in {"Raw", "CompressedPoint", "UncompressedPoint"}
     \/ d.container = "OpenSSH" /\ ~d.private
     => d.flaw = None /\ d.kind # "RSA_PSS"

\* d is what the key object o was written as, with the argument enc
WrittenPrivate(o, enc, d) ==
  /\ enc \in Encryptions /\ IsEncryption(enc) /\ o.private
  /\ \E encoding, format : /\ PrivateBytes(o, encoding, format, enc).error = "ok"
                           /\ PrivateBytes(o, encoding, format, enc).doc = d

WrittenPublic(o, d) ==
  /\ ~o.private
  /\ \E encoding, format : /\ PublicBytes(o, encoding, format).error = "ok"
                           /\ PublicBytes(o, encoding, format).doc = d

Written(o, enc, d) == WrittenPrivate(o, enc, d) \/ (enc = None /\ WrittenPublic(o, d))

LEMMA GeneratedFresh == \A o \in Generated : Fresh(o)
<1> SUFFICES ASSUME NEW o \in Generated PROVE Fresh(o)
  OBVIOUS
<1>1. o.private = TRUE
  BY GeneratedAssumption
<1>2. QED
  BY <1>1, GeneratedAssumption DEF Fresh

\* public_key() changes one field
LEMMA WithPrivate ==
  ASSUME NEW o, NEW half,
         o = [class |-> o.kind, kind |-> o.kind, key |-> o.key, private |-> o.private, flaw |-> None]
  PROVE  [o EXCEPT !.private = half]
           = [class |-> o.kind, kind |-> o.kind, key |-> o.key, private |-> half, flaw |-> None]
OBVIOUS

LEMMA PublicHalf ==
  ASSUME NEW o, Fresh(o)
  PROVE  /\ Fresh([o EXCEPT !.private = FALSE])
         /\ [o EXCEPT !.private = FALSE].kind = o.kind
<1> DEFINE p == [o EXCEPT !.private = FALSE]
<1>1. p = [class |-> o.kind, kind |-> o.kind, key |-> o.key, private |-> FALSE, flaw |-> None]
  <2>1. o = [class |-> o.kind, kind |-> o.kind, key |-> o.key, private |-> o.private, flaw |-> None]
    BY DEF Fresh
  <2>2. QED
    BY <2>1, WithPrivate, Zenon
<1>2. p.kind = o.kind /\ p.key = o.key /\ p.private = FALSE
  BY <1>1
<1> HIDE DEF p
<1>3. Fresh(p)
  <2>1. /\ o.kind \in DOMAIN Classes /\ ClassOf(o.kind) = o.kind
        /\ Boringssl => o.kind # "DH"
    BY DEF Fresh
  <2>2. /\ p = [class |-> p.kind, kind |-> p.kind, key |-> p.key, private |-> p.private, flaw |-> None]
        /\ p.private \in BOOLEAN
    BY <1>1, <1>2
  <2>3. QED
    BY <1>2, <2>1, <2>2 DEF Fresh
<1>4. QED
  BY <1>2, <1>3 DEF p

LEMMA ForeignLegible == \A d \in Foreign : Legible(d)
BY ForeignAssumption DEF Legible

LEMMA KindsOfClasses ==
  /\ DOMAIN Classes = {"RSA", "DSA", "EC", "DH", "ED25519", "ED448", "X25519", "X448"}
  /\ \A c \in DOMAIN Classes : RawAllowed(c) <=> c \in {"ED25519", "ED448", "X25519", "X448"}
BY DEF Classes, RawAllowed, RsaClass, DsaClass, EcClass, DhClass, Ed25519Class, Ed448Class,
       X25519Class, X448Class

LEMMA PasswordKept ==
  ASSUME NEW enc \in Encryptions, IsEncryption(enc)
  PROVE  /\ PasswordOf(enc) # None
         /\ enc.alg # "NoEncryption" => PasswordOf(enc) = enc.password /\ PasswordOf(enc) # Empty
         /\ enc.alg = "NoEncryption" => PasswordOf(enc) = Empty
         /\ PasswordOf(enc).len \in Nat
<1>1. Empty.len = 0 /\ Empty # None /\ enc.password # None /\ enc.password.len \in Nat
  BY NoneAssumption DEF Empty
<1>2. enc.alg # "NoEncryption" => enc.password.len > 0
  BY DEF IsEncryption
<1>3. enc.alg # "NoEncryption" => enc.password # Empty
  BY <1>1, <1>2
<1>4. QED
  BY <1>1, <1>3 DEF PasswordOf

\* What private_bytes makes, in every format
LEMMA PrivateDocument ==
  ASSUME NEW o, Fresh(o), NEW enc \in Encryptions, IsEncryption(enc), NEW encoding, NEW format,
         PrivateBytes(o, encoding, format, enc).error = "ok"
  PROVE  /\ PrivateBytes(o, encoding, format, enc).doc = Document(o, encoding, format, None, PasswordOf(enc))
         /\ \/ /\ o.kind \in {"ED25519", "ED448", "X25519", "X448"} /\ enc.alg = "NoEncryption"
               /\ encoding = "Raw" /\ format = "Raw"
            \/ ~TooLong(PasswordOf(enc)) /\ PrivateContainer(o, encoding, format, PasswordOf(enc))
<1>1. o.class = o.kind /\ o.kind \in DOMAIN Classes
  BY DEF Fresh
<1>2. enc.alg = "NoEncryption" => PasswordOf(enc) = Empty
  BY PasswordKept
<1>3. RawAllowed(o.class) <=> o.kind \in {"ED25519", "ED448", "X25519", "X448"}
  BY <1>1, KindsOfClasses
<1>4. \A e : Fail(e).error = e
  BY DEF Fail
<1>5. \A d : Write(d).doc = d
  BY DEF Write
<1>6. PrivateBytes(o, encoding, format, enc) = pkey_private_bytes(o, encoding, format, enc)
  BY <1>4 DEF PrivateBytes
<1>7. pkey_private_bytes(o, encoding, format, enc).error = "ok"
  BY <1>6
<1>8. QED
  BY <1>2, <1>3, <1>4, <1>5, <1>6, <1>7 DEF pkey_private_bytes

\* The forms of a public key
PublicForm(o, encoding, format) ==
  \/ /\ o.kind \in {"ED25519", "ED448", "X25519", "X448"} /\ encoding = "Raw" /\ format = "Raw"
  \/ PublicContainer(o, encoding, format)

\* What public_bytes makes
LEMMA PublicDocument ==
  ASSUME NEW o, Fresh(o), NEW encoding, NEW format, PublicBytes(o, encoding, format).error = "ok"
  PROVE  /\ \E delimiter :
              /\ PublicBytes(o, encoding, format).doc = Document(o, encoding, format, delimiter, Empty)
              /\ PublicContainer(o, encoding, format) => delimiter = Delimiter(format)
         /\ PublicForm(o, encoding, format)
<1>1. o.class = o.kind /\ o.kind \in DOMAIN Classes
  BY DEF Fresh
<1>2. RawAllowed(o.class) <=> o.kind \in {"ED25519", "ED448", "X25519", "X448"}
  BY <1>1, KindsOfClasses
<1>3. \A e : Fail(e).error = e
  BY DEF Fail
<1>4. \A d : Write(d).doc = d
  BY DEF Write
<1>5. PublicBytes(o, encoding, format) = pkey_public_bytes(o, encoding, format)
  BY <1>3 DEF PublicBytes
<1>6. pkey_public_bytes(o, encoding, format).error = "ok"
  BY <1>5
<1>7. CASE RawAllowed(o.class) /\ "Raw" \in {encoding, format}
  <2>1. /\ encoding = "Raw" /\ format = "Raw"
        /\ pkey_public_bytes(o, encoding, format) = Write(Document(o, "Raw", "Raw", None, Empty))
    BY <1>3, <1>6, <1>7 DEF pkey_public_bytes
  <2>2. ~PublicContainer(o, encoding, format)
    BY <2>1 DEF PublicContainer
  <2>3. QED
    BY <1>2, <1>4, <1>5, <1>7, <2>1, <2>2 DEF PublicForm
<1>8. CASE ~(RawAllowed(o.class) /\ "Raw" \in {encoding, format})
  <2>1. /\ PublicContainer(o, encoding, format)
        /\ pkey_public_bytes(o, encoding, format) = Write(Document(o, encoding, format, Delimiter(format), Empty))
    BY <1>3, <1>6, <1>8 DEF pkey_public_bytes
  <2>2. PublicBytes(o, encoding, format).doc = Document(o, encoding, format, Delimiter(format), Empty)
    BY <1>4, <1>5, <2>1
  <2>3. QED
    BY <2>1, <2>2 DEF PublicForm
<1>9. QED
  BY <1>7, <1>8

LEMMA WrittenLegible ==
  ASSUME NEW o, Fresh(o), NEW enc, NEW d, Written(o, enc, d)
  PROVE  Legible(d)
<1>1. o.class = o.kind /\ o.kind \in DOMAIN Classes /\ o.flaw = None /\ o.private \in BOOLEAN
  BY DEF Fresh
<1>2. None \notin {"explicit", "curve", "infinity", "rsa"}
  BY NoneAssumption
<1>3. ASSUME WrittenPrivate(o, enc, d) PROVE Legible(d)
  <2>1. PICK encoding, format : /\ PrivateBytes(o, encoding, format, enc).error = "ok"
                                /\ PrivateBytes(o, encoding, format, enc).doc = d
    BY <1>3 DEF WrittenPrivate
  <2>2. enc \in Encryptions /\ IsEncryption(enc) /\ o.private
    BY <1>3 DEF WrittenPrivate
  <2>3. /\ d = Document(o, encoding, format, None, PasswordOf(enc))
        /\ format = "Raw" \/ PrivateContainer(o, encoding, format, PasswordOf(enc))
    BY <2>1, <2>2, PrivateDocument
  <2>4. PasswordOf(enc) # None
    BY <2>2, PasswordKept
  <2>5. format \notin {"PKCS1", "CompressedPoint", "UncompressedPoint"}
    BY <2>3 DEF PrivateContainer
  <2>6. QED
    BY <1>1, <1>2, <2>2, <2>3, <2>4, <2>5, KindsOfClasses DEF Legible, Document
<1>4. ASSUME WrittenPublic(o, d) PROVE Legible(d)
  <2>1. PICK encoding, format : /\ PublicBytes(o, encoding, format).error = "ok"
                                /\ PublicBytes(o, encoding, format).doc = d
    BY <1>4 DEF WrittenPublic
  <2>2. PICK delimiter : d = Document(o, encoding, format, delimiter, Empty)
    BY <2>1, PublicDocument
  <2>3. PublicForm(o, encoding, format)
    BY <2>1, PublicDocument
  <2>4. format = "PKCS1" => o.kind = "RSA"
    BY <1>1, <2>3 DEF PublicForm, PublicContainer
  <2>5. d.encrypted <=> FALSE
    BY <2>2 DEF Document
  <2>6. /\ d.private = o.private /\ d.password = Empty
        /\ d.container = format /\ d.kind = o.kind /\ d.flaw = None
    BY <1>1, <2>2 DEF Document
  <2>7. d.encrypted \in BOOLEAN
    BY <2>2 DEF Document
  <2>8. None # Empty /\ o.kind # "RSA_PSS"
    BY <1>1, KindsOfClasses, NoneAssumption
  <2>9. QED
    BY <1>1, <1>2, <2>4, <2>6, <2>7, <2>8 DEF Legible
<1>5. QED
  BY <1>3, <1>4 DEF Written

-----------------------------------------------------------------------------
(* Loading                                                                 *)

\* An object is the key of its document, and nothing is wrong with it
SoundObject(o, d, skip) ==
  /\ o.key = d.key /\ o.class = ClassOf(d.kind) /\ o.kind # "RSA_PSS"
  /\ o.private = d.private
  /\ d.flaw \notin {"explicit", "curve", "infinity"}
  /\ d.flaw = "rsa" => ~d.private \/ skip

LEMMA ObjectFields ==
  ASSUME NEW kind, NEW d
  PROVE  /\ Object(kind, d).class = ClassOf(kind) /\ Object(kind, d).kind = kind
         /\ Object(kind, d).key = d.key /\ Object(kind, d).private = d.private
         /\ Object(kind, d).flaw = d.flaw
BY DEF Object

LEMMA LoadedFields ==
  /\ \A o : Loaded(o).error = "ok" /\ Loaded(o).obj = o
  /\ \A e : NotLoaded(e).error = e /\ NotLoaded(e).obj = None
BY DEF Loaded, NotLoaded

LEMMA ClassOfRsa == ClassOf("RSA") = "RSA" /\ ClassOf("RSA_PSS") = "RSA"
BY DEF ClassOf

LEMMA PkeySound ==
  ASSUME NEW d, Legible(d), NEW skip, private_key_from_pkey(d, skip).error = "ok"
  PROVE  SoundObject(private_key_from_pkey(d, skip).obj, d, skip)
<1>1. CASE ClassOf(d.kind) = "RSA"
  <2>1. /\ private_key_from_pkey(d, skip) = Loaded(Object("RSA", d)) /\ (skip \/ d.flaw # "rsa")
    BY <1>1, LoadedFields, ClassOfRsa DEF private_key_from_pkey
  <2>2. d.kind # "EC"
    BY <1>1 DEF ClassOf
  <2>3. QED
    BY <1>1, <2>1, <2>2, LoadedFields, ObjectFields, ClassOfRsa DEF SoundObject, Legible
<1>2. CASE ClassOf(d.kind) # "RSA"
  <2>1. /\ private_key_from_pkey(d, skip) = Loaded(Object(d.kind, d))
        /\ d.kind = "EC" => EcLoadable(d)
    BY <1>2, LoadedFields DEF private_key_from_pkey
  <2>2. d.kind \notin {"RSA", "RSA_PSS"}
    BY <1>2, ClassOfRsa
  <2>3. QED
    BY <2>1, <2>2, LoadedFields, ObjectFields DEF SoundObject, Legible, EcLoadable
<1>3. QED
  BY <1>1, <1>2

LEMMA HandleResult ==
  ASSUME NEW ok, NEW status, NEW password, handle_key_load_result(ok, status, password) = "ok"
  PROVE  ok /\ \/ status = "Unused" /\ password = None
               \/ status = "Used" /\ password # None
BY DEF handle_key_load_result

\* A loader that accepts a password used it for the document
LEMMA PasswordUsed ==
  ASSUME NEW d, NEW password, NEW ok, Legible(d),
         handle_key_load_result(ok /\ Deciphers(d, password), Status(d, password), password) = "ok"
  PROVE  /\ ok
         /\ IF d.encrypted THEN password = d.password ELSE password = None
<1>1. /\ ok /\ Deciphers(d, password)
      /\ \/ Status(d, password) = "Unused" /\ password = None
         \/ Status(d, password) = "Used" /\ password # None
  BY HandleResult
<1>2. CASE d.encrypted
  <2>1. password_callback(password)[1] # "Unused" /\ Status(d, password) = password_callback(password)[1]
    BY <1>2 DEF password_callback, Status
  <2>2. password # None /\ password_callback(password)[1] = "Used" /\ password_callback(password)[2] = d.password
    BY <1>1, <1>2, <2>1 DEF Deciphers
  <2>3. password_callback(password)[2] = password
    BY <2>2 DEF password_callback
  <2>4. QED
    BY <1>1, <1>2, <2>2, <2>3
<1>3. CASE ~d.encrypted
  BY <1>1, <1>3 DEF Status
<1>4. QED
  BY <1>2, <1>3

\* What a successful load of a private key says about the document and the password
LoadedPrivate(r, d, password, skip) ==
  /\ r.error = "ok" => SoundObject(r.obj, d, skip) /\ d.private
  /\ r.error = "ok" => \/ d.container = "Raw" /\ password = None
                       \/ d.encrypted /\ password = d.password
                       \/ ~d.encrypted /\ password \in {None, Empty}

LEMMA DerPrivate ==
  ASSUME NEW d, Legible(d), NEW password, NEW skip
  PROVE  LoadedPrivate(load_der_private_key_bytes(d, password, skip), d, password, skip)
<1> DEFINE r == load_der_private_key_bytes(d, password, skip)
           der == IsPrivateKeyInfo(d) /\ d.encoding = "DER"
           result == handle_key_load_result(der /\ Deciphers(d, password),
                                            IF der THEN Status(d, password) ELSE "Unused", password)
<1>1. r = IF der /\ ~d.encrypted
          THEN IF password # None THEN NotLoaded("TypeError") ELSE private_key_from_pkey(d, skip)
          ELSE IF result = "ok" THEN private_key_from_pkey(d, skip) ELSE NotLoaded(result)
  BY DEF load_der_private_key_bytes
<1>2. result = "ok" => der /\ IF d.encrypted THEN password = d.password ELSE password = None
  <2> SUFFICES ASSUME result = "ok"
               PROVE  der /\ IF d.encrypted THEN password = d.password ELSE password = None
    OBVIOUS
  <2>1. der
    BY HandleResult
  <2>2. QED
    BY <2>1, PasswordUsed
<1>3. der => d.private
  BY DEF IsPrivateKeyInfo
<1> HIDE DEF r, der, result
<1>4. ASSUME r.error = "ok"
      PROVE  /\ r = private_key_from_pkey(d, skip) /\ der
             /\ IF d.encrypted THEN password = d.password ELSE password = None
  BY <1>1, <1>2, <1>4, LoadedFields
<1>5. QED
  BY <1>3, <1>4, PkeySound DEF LoadedPrivate, r

LEMMA PemPrivate ==
  ASSUME NEW d, Legible(d), NEW password, NEW skip
  PROVE  LoadedPrivate(load_pem_private_key(d, password, skip), d, password, skip)
<1> DEFINE r == load_pem_private_key(d, password, skip)
           pem == IsPrivateKeyInfo(d) /\ d.encoding = "PEM"
           result == handle_key_load_result(pem /\ Deciphers(d, password),
                                            IF pem THEN Status(d, password) ELSE "Unused", password)
<1>1. r = IF result = "ok" THEN private_key_from_pkey(d, skip) ELSE NotLoaded(result)
  BY DEF load_pem_private_key
<1>2. result = "ok" => pem /\ IF d.encrypted THEN password = d.password ELSE password = None
  <2> SUFFICES ASSUME result = "ok"
               PROVE  pem /\ IF d.encrypted THEN password = d.password ELSE password = None
    OBVIOUS
  <2>1. pem
    BY HandleResult
  <2>2. QED
    BY <2>1, PasswordUsed
<1>3. pem => d.private
  BY DEF IsPrivateKeyInfo
<1> HIDE DEF r, pem, result
<1>4. ASSUME r.error = "ok"
      PROVE  /\ r = private_key_from_pkey(d, skip) /\ pem
             /\ IF d.encrypted THEN password = d.password ELSE password = None
  BY <1>1, <1>2, <1>4, LoadedFields
<1>5. QED
  BY <1>3, <1>4, PkeySound DEF LoadedPrivate, r

LEMMA SshPrivate ==
  ASSUME NEW d, Legible(d), NEW password, NEW skip
  PROVE  LoadedPrivate(load_ssh_private_key(d, password, skip), d, password, skip)
<1> DEFINE r == load_ssh_private_key(d, password, skip)
           given == password \notin {None, Empty}
<1>1. r = IF d.container # "OpenSSH" \/ ~d.private THEN NotLoaded("ValueError")
          ELSE IF d.encrypted /= given THEN NotLoaded("TypeError")
          ELSE IF d.encrypted /\ password # d.password THEN NotLoaded("ValueError")
          ELSE private_key_from_pkey(d, skip)
  BY DEF load_ssh_private_key
<1>2. d.encrypted \in BOOLEAN /\ given \in BOOLEAN
  BY DEF Legible
<1>3. ~given => password \in {None, Empty}
  OBVIOUS
<1> HIDE DEF r, given
<1>4. ASSUME r.error = "ok"
      PROVE  /\ r = private_key_from_pkey(d, skip) /\ d.private
             /\ d.encrypted => password = d.password
             /\ ~d.encrypted => ~given
  <2>1. ~(d.container # "OpenSSH" \/ ~d.private)
    BY <1>1, <1>4, LoadedFields
  <2>2. d.encrypted = given
    BY <1>1, <1>4, <2>1, LoadedFields
  <2>3. ~(d.encrypted /\ password # d.password)
    BY <1>1, <1>4, <2>1, <2>2, LoadedFields
  <2>4. QED
    BY <1>1, <1>2, <2>1, <2>2, <2>3
<1>5. QED
  BY <1>3, <1>4, PkeySound DEF LoadedPrivate, r

LEMMA RawPrivate ==
  ASSUME NEW d, Legible(d), NEW skip
  PROVE  LoadedPrivate(FromRawPrivate(d), d, None, skip)
<1>1. ASSUME FromRawPrivate(d).error = "ok"
      PROVE  /\ FromRawPrivate(d) = Loaded(Object(d.kind, d)) /\ d.container = "Raw" /\ d.private
  BY <1>1, LoadedFields DEF FromRawPrivate
<1>2. ASSUME d.container = "Raw"
      PROVE  SoundObject(Object(d.kind, d), d, skip)
  <2>1. d.flaw = None /\ d.kind # "RSA_PSS" /\ None \notin {"explicit", "curve", "infinity", "rsa"}
    BY <1>2, NoneAssumption DEF Legible
  <2>2. QED
    BY <2>1, ObjectFields DEF SoundObject
<1>3. QED
  BY <1>1, <1>2, LoadedFields DEF LoadedPrivate

-----------------------------------------------------------------------------
(* Loading public keys                                                     *)

LoadedPublic(r, d) == r.error = "ok" => SoundObject(r.obj, d, FALSE) /\ ~d.private

\* Once public_key_from_pkey has refused the point at infinity
LEMMA SpkiSound ==
  ASSUME NEW d, Legible(d)
  PROVE  LoadedPublic(public_key_from_pkey(parse_public_key(d)), d)
<1> DEFINE r == parse_public_key(d)
           k == IF d.kind = "RSA_PSS" THEN "RSA" ELSE d.kind
<1> SUFFICES ASSUME public_key_from_pkey(r).error = "ok"
             PROVE  SoundObject(public_key_from_pkey(r).obj, d, FALSE) /\ ~d.private
  BY DEF LoadedPublic
<1>1. public_key_from_pkey(r) = r /\ r.error = "ok" /\ ~(r.obj.kind = "EC" /\ r.obj.flaw = "infinity")
  BY LoadedFields DEF public_key_from_pkey
<1>2. /\ ~d.private /\ r = Loaded(Object(k, d))
      /\ d.kind = "EC" => ec_params_to_group(d) = "ok"
  BY <1>1, LoadedFields DEF parse_public_key
<1>3. r.obj = Object(k, d) /\ r.obj.kind = k /\ r.obj.flaw = d.flaw
  BY <1>2, LoadedFields, ObjectFields
<1>4. d.flaw \notin {"explicit", "curve", "infinity"}
  <2>1. CASE d.kind = "EC"
    BY <1>1, <1>2, <1>3, <2>1 DEF ec_params_to_group
  <2>2. CASE d.kind # "EC"
    BY <2>2 DEF Legible
  <2>3. QED
    BY <2>1, <2>2
<1>5. k # "RSA_PSS" /\ ClassOf(k) = ClassOf(d.kind)
  BY ClassOfRsa
<1> HIDE DEF k
<1>6. QED
  BY <1>1, <1>2, <1>3, <1>4, <1>5, ObjectFields DEF SoundObject

LEMMA Pkcs1Sound ==
  ASSUME NEW d, Legible(d)
  PROVE  LoadedPublic(public_key_from_pkey(parse_pkcs1_public_key(d)), d)
<1> DEFINE r == parse_pkcs1_public_key(d)
<1> SUFFICES ASSUME public_key_from_pkey(r).error = "ok"
             PROVE  SoundObject(public_key_from_pkey(r).obj, d, FALSE) /\ ~d.private
  BY DEF LoadedPublic
<1>1. public_key_from_pkey(r) = r /\ r.error = "ok"
  BY LoadedFields DEF public_key_from_pkey
<1>2. ~d.private /\ r = Loaded(Object("RSA", d)) /\ d.kind = "RSA"
  BY <1>1, LoadedFields DEF parse_pkcs1_public_key, Legible
<1>3. d.flaw \notin {"explicit", "curve", "infinity"}
  BY <1>2 DEF Legible
<1>4. QED
  BY <1>1, <1>2, <1>3, LoadedFields, ObjectFields DEF SoundObject

LEMMA DerPublic ==
  ASSUME NEW d, Legible(d)
  PROVE  LoadedPublic(load_der_public_key_bytes(d), d)
<1>1. NotLoaded("ValueError").error # "ok"
  BY LoadedFields
<1>2. QED
  BY <1>1, SpkiSound, Pkcs1Sound DEF load_der_public_key_bytes, LoadedPublic

LEMMA PemPublic ==
  ASSUME NEW d, Legible(d)
  PROVE  LoadedPublic(load_pem_public_key(d), d)
<1>1. NotLoaded("ValueError").error # "ok"
  BY LoadedFields
<1>2. QED
  BY <1>1, SpkiSound, Pkcs1Sound DEF load_pem_public_key, LoadedPublic

LEMMA OtherPublic ==
  ASSUME NEW d, Legible(d)
  PROVE  LoadedPublic(LoadOtherPublic(d), d)
<1> SUFFICES ASSUME LoadOtherPublic(d).error = "ok"
             PROVE  SoundObject(LoadOtherPublic(d).obj, d, FALSE) /\ ~d.private
  BY DEF LoadedPublic
<1>1. /\ LoadOtherPublic(d) = Loaded(Object(d.kind, d)) /\ ~d.private
      /\ d.container \in {"OpenSSH", "Raw", "CompressedPoint", "UncompressedPoint"}
  BY LoadedFields DEF LoadOtherPublic
<1>2. d.flaw = None /\ d.kind # "RSA_PSS" /\ None \notin {"explicit", "curve", "infinity", "rsa"}
  BY <1>1, NoneAssumption DEF Legible
<1>3. QED
  BY <1>1, <1>2, LoadedFields, ObjectFields DEF SoundObject

-----------------------------------------------------------------------------
(* Reading back what was written                                           *)

Expected(o, d) == [o EXCEPT !.private = d.private]

LEMMA ExpectedObject ==
  ASSUME NEW o, Fresh(o), NEW d, d.kind = o.kind, d.key = o.key, d.flaw = None
  PROVE  Object(o.kind, d) = Expected(o, d)
<1>1. /\ o = [class |-> o.kind, kind |-> o.kind, key |-> o.key, private |-> o.private, flaw |-> None]
      /\ ClassOf(o.kind) = o.kind
  BY DEF Fresh
<1>2. Expected(o, d) = [class |-> o.kind, kind |-> o.kind, key |-> o.key, private |-> d.private, flaw |-> None]
  BY <1>1, WithPrivate DEF Expected
<1>3. QED
  BY <1>1, <1>2 DEF Object

LEMMA PkeyOfWritten ==
  ASSUME NEW o, Fresh(o), NEW d, d.kind = o.kind, d.key = o.key, d.flaw = None
  PROVE  private_key_from_pkey(d, TRUE) = Loaded(Expected(o, d))
<1>1. ClassOf(o.kind) = o.kind /\ o.kind # None
  BY NoneAssumption DEF Fresh
<1>2. EcLoadable(d)
  BY NoneAssumption DEF EcLoadable
<1>3. private_key_from_pkey(d, TRUE) = Loaded(Object(o.kind, d))
  BY <1>1, <1>2 DEF private_key_from_pkey
<1>4. QED
  BY <1>3, ExpectedObject

\* The password that a document was written with is the one to read it with
LEMMA RightPassword ==
  ASSUME NEW d, NEW password, d.encrypted \in BOOLEAN,
         IF d.encrypted THEN password = d.password /\ password # None /\ password.len <= CallbackBuffer
         ELSE password = None
  PROVE  handle_key_load_result(Deciphers(d, password), Status(d, password), password) = "ok"
<1>1. CASE d.encrypted
  <2>1. password_callback(password) = << "Used", password >>
    BY <1>1 DEF password_callback
  <2>2. Deciphers(d, password) /\ Status(d, password) = "Used"
    BY <1>1, <2>1 DEF Deciphers, Status
  <2>3. QED
    BY <1>1, <2>2 DEF handle_key_load_result
<1>2. CASE ~d.encrypted
  <2>1. Deciphers(d, password) /\ Status(d, password) = "Unused"
    BY <1>2 DEF Deciphers, Status
  <2>2. QED
    BY <1>2, <2>1 DEF handle_key_load_result
<1>3. QED
  BY <1>1, <1>2

\* One of the loaders gives back the key o that was written
ReadsPrivate(o, d, by) ==
  \E r \in {load_der_private_key_bytes(d, by, TRUE), load_pem_private_key(d, by, TRUE),
            load_ssh_private_key(d, by, TRUE), FromRawPrivate(d)} :
    r.error = "ok" /\ r.obj = Expected(o, d)

ReadsPublic(o, d) ==
  \E r \in {load_der_public_key_bytes(d), load_pem_public_key(d), LoadOtherPublic(d)} :
    r.error = "ok" /\ r.obj = Expected(o, d)

LEMMA PrivateRoundTrip ==
  ASSUME NEW o, Fresh(o), NEW enc, NEW d, WrittenPrivate(o, enc, d), NEW by,
         by = IF enc.alg # "NoEncryption" THEN enc.password ELSE None
  PROVE  d.private /\ ReadsPrivate(o, d, by)
<1> USE DEF ReadsPrivate
<1>1. PICK encoding, format : /\ PrivateBytes(o, encoding, format, enc).error = "ok"
                              /\ PrivateBytes(o, encoding, format, enc).doc = d
  BY DEF WrittenPrivate
<1>2. enc \in Encryptions /\ IsEncryption(enc) /\ o.private
  BY DEF WrittenPrivate
<1> DEFINE P == PasswordOf(enc)
<1>3. d = Document(o, encoding, format, None, P)
  BY <1>1, <1>2, PrivateDocument
<1>4. \/ o.kind \in {"ED25519", "ED448", "X25519", "X448"} /\ format = "Raw"
      \/ ~TooLong(P) /\ PrivateContainer(o, encoding, format, P)
  BY <1>1, <1>2, PrivateDocument
<1>5. /\ P # None /\ P.len \in Nat
      /\ enc.alg # "NoEncryption" => P = enc.password /\ P # Empty
      /\ enc.alg = "NoEncryption" => P = Empty
  BY <1>2, PasswordKept
<1>6. o.class = o.kind /\ o.flaw = None /\ o.private \in BOOLEAN
  BY DEF Fresh
<1> HIDE DEF P
<1>7. /\ d.kind = o.kind /\ d.key = o.key /\ d.flaw = None /\ d.password = P
      /\ d.container = format /\ d.encoding = encoding
  BY <1>3, <1>6 DEF Document
<1>8. d.private = o.private /\ d.private
  BY <1>2, <1>3 DEF Document
<1>9. d.encrypted \in BOOLEAN /\ (d.encrypted <=> P # Empty)
  BY <1>3 DEF Document
<1>10. IF d.encrypted THEN by = d.password /\ by # None ELSE by = None
  BY <1>5, <1>7, <1>9
<1>11. private_key_from_pkey(d, TRUE) = Loaded(Expected(o, d))
  BY <1>7, PkeyOfWritten
<1>12. CASE format = "Raw"
  <2>1. FromRawPrivate(d) = Loaded(Object(d.kind, d))
    BY <1>7, <1>8, <1>12 DEF FromRawPrivate
  <2>2. Object(o.kind, d) = Expected(o, d)
    BY <1>7, ExpectedObject
  <2>3. FromRawPrivate(d) = Loaded(Expected(o, d))
    BY <1>7, <2>1, <2>2
  <2>4. QED
    BY <1>8, <2>3, LoadedFields
<1>13. CASE ~TooLong(P) /\ PrivateContainer(o, encoding, format, P)
  <2>1. d.encrypted => by.len <= CallbackBuffer
    <3>1. P.len <= MaxPassword
      BY <1>5, <1>13, KeySerializationAssumption DEF TooLong
    <3>2. P.len <= CallbackBuffer
      BY <1>5, <3>1, KeySerializationAssumption
    <3>3. QED
      BY <1>7, <1>10, <3>2
  <2>2. handle_key_load_result(Deciphers(d, by), Status(d, by), by) = "ok"
    BY <1>9, <1>10, <2>1, RightPassword
  <2>3. CASE format = "OpenSSH"
    <3>1. d.encrypted => by \notin {None, Empty}
      BY <1>7, <1>9, <1>10
    <3>2. load_ssh_private_key(d, by, TRUE) = private_key_from_pkey(d, TRUE)
      <4> DEFINE given == by \notin {None, Empty}
      <4>1. given \in BOOLEAN /\ d.encrypted = given
        BY <1>9, <1>10, <3>1
      <4>2. ~(d.encrypted /\ by # d.password)
        BY <1>10
      <4>3. QED
        BY <1>7, <1>8, <2>3, <4>1, <4>2 DEF load_ssh_private_key
    <3>3. QED
      BY <1>8, <1>11, <3>2, LoadedFields
  <2>4. CASE format # "OpenSSH"
    <3>1. IsPrivateKeyInfo(d) /\ d.encoding \in {"PEM", "DER"}
      BY <1>7, <1>8, <1>13, <2>4 DEF PrivateContainer, Traditional, IsPrivateKeyInfo
    <3>2. CASE d.encoding = "PEM"
      <4>1. load_pem_private_key(d, by, TRUE) = private_key_from_pkey(d, TRUE)
        <5> DEFINE pem == IsPrivateKeyInfo(d) /\ d.encoding = "PEM"
        <5>1. pem /\ Status(d, by) = IF pem THEN Status(d, by) ELSE "Unused"
          BY <3>1, <3>2
        <5>2. (pem /\ Deciphers(d, by)) = Deciphers(d, by)
          BY <5>1 DEF Deciphers
        <5>3. QED
          BY <2>2, <5>1, <5>2 DEF load_pem_private_key
      <4>2. QED
        BY <1>8, <1>11, <4>1, LoadedFields
    <3>3. CASE d.encoding = "DER"
      <4>1. load_der_private_key_bytes(d, by, TRUE) = private_key_from_pkey(d, TRUE)
        <5> DEFINE der == IsPrivateKeyInfo(d) /\ d.encoding = "DER"
        <5>1. der /\ Status(d, by) = IF der THEN Status(d, by) ELSE "Unused"
          BY <3>1, <3>3
        <5>2. (der /\ Deciphers(d, by)) = Deciphers(d, by)
          BY <5>1 DEF Deciphers
        <5>3. QED
          BY <1>9, <1>10, <2>2, <5>1, <5>2 DEF load_der_private_key_bytes
      <4>2. QED
        BY <1>8, <1>11, <4>1, LoadedFields
    <3>4. QED
      BY <3>1, <3>2, <3>3
  <2>5. QED
    BY <2>3, <2>4
<1>14. QED
  BY <1>4, <1>12, <1>13

LEMMA PublicRoundTrip ==
  ASSUME NEW o, Fresh(o), NEW d, WrittenPublic(o, d)
  PROVE  ~d.private /\ ReadsPublic(o, d)
<1> USE DEF ReadsPublic
<1>1. PICK encoding, format : /\ PublicBytes(o, encoding, format).error = "ok"
                              /\ PublicBytes(o, encoding, format).doc = d
  BY DEF WrittenPublic
<1>2. PICK delimiter : /\ d = Document(o, encoding, format, delimiter, Empty)
                       /\ PublicContainer(o, encoding, format) => delimiter = Delimiter(format)
  BY <1>1, PublicDocument
<1>3. PublicForm(o, encoding, format)
  BY <1>1, PublicDocument
<1>4. o.class = o.kind /\ o.flaw = None /\ ClassOf(o.kind) = o.kind /\ o.kind \in DOMAIN Classes /\ ~o.private
  BY DEF Fresh, WrittenPublic
<1>5. /\ d.kind = o.kind /\ d.key = o.key /\ d.flaw = None /\ d.delimiter = delimiter
      /\ d.container = format /\ d.encoding = encoding
  BY <1>2, <1>4 DEF Document
<1>6. ~d.private
  BY <1>2, <1>4 DEF Document
<1> DEFINE L == Loaded(Expected(o, d))
<1>7. Loaded(Object(o.kind, d)) = L
  BY <1>5, ExpectedObject
<1>8. public_key_from_pkey(L) = L /\ L.error = "ok" /\ L.obj = Expected(o, d) /\ L.obj.kind = o.kind
  <2>1. L.error = "ok" /\ L.obj = Expected(o, d)
    BY LoadedFields
  <2>2. L.obj = Object(o.kind, d)
    BY <1>7, LoadedFields
  <2>3. L.obj.kind = o.kind /\ L.obj.flaw = None
    BY <1>5, <2>2, ObjectFields
  <2>4. None # "infinity"
    BY NoneAssumption
  <2>5. QED
    BY <2>1, <2>3, <2>4 DEF public_key_from_pkey
<1>9. CASE format \in {"Raw", "CompressedPoint", "UncompressedPoint", "OpenSSH"}
  <2>1. LoadOtherPublic(d) = L
    BY <1>5, <1>6, <1>7, <1>9 DEF LoadOtherPublic
  <2>2. QED
    BY <1>6, <1>8, <2>1
<1>10. CASE format = "SubjectPublicKeyInfo" /\ encoding \in {"PEM", "DER"}
  <2>1. d.kind # "RSA_PSS" /\ ClassOf(d.kind) # None
    BY <1>4, <1>5, KindsOfClasses, NoneAssumption
  <2>2. ec_params_to_group(d) = "ok"
    BY <1>5, NoneAssumption DEF ec_params_to_group
  <2>3. ~(ClassOf(d.kind) = "DH" /\ Boringssl)
    BY <1>4, <1>5 DEF Fresh
  <2>4. parse_public_key(d) = L
    BY <1>5, <1>6, <1>7, <1>10, <2>1, <2>2, <2>3 DEF parse_public_key
  <2> HIDE DEF L
  <2>5. CASE encoding = "DER"
    <3>1. load_der_public_key_bytes(d) = L
      BY <1>5, <1>8, <2>4, <2>5 DEF load_der_public_key_bytes
    <3>2. QED
      BY <1>6, <1>8, <3>1
  <2>6. CASE encoding = "PEM"
    <3>1. d.delimiter = "PUBLIC KEY"
      BY <1>2, <1>5, <1>10 DEF PublicContainer, Delimiter
    <3>2. load_pem_public_key(d) = L
      BY <1>5, <1>6, <1>8, <2>4, <2>6, <3>1 DEF load_pem_public_key
    <3>3. QED
      BY <1>6, <1>8, <3>2
  <2>7. QED
    BY <1>10, <2>5, <2>6
<1>11. CASE o.kind = "RSA" /\ format = "PKCS1" /\ encoding \in {"PEM", "DER"}
  <2>1. parse_pkcs1_public_key(d) = L
    BY <1>5, <1>6, <1>7, <1>11 DEF parse_pkcs1_public_key
  <2>2. parse_public_key(d).error # "ok"
    BY <1>5, <1>11, LoadedFields DEF parse_public_key
  <2> HIDE DEF L
  <2>3. CASE encoding = "DER"
    <3>1. load_der_public_key_bytes(d) = L
      BY <1>5, <1>8, <2>1, <2>2, <2>3 DEF load_der_public_key_bytes
    <3>2. QED
      BY <1>6, <1>8, <3>1
  <2>4. CASE encoding = "PEM"
    <3>1. d.delimiter = "RSA PUBLIC KEY"
      BY <1>2, <1>4, <1>5, <1>11 DEF PublicContainer, Delimiter
    <3>2. load_pem_public_key(d) = L
      BY <1>5, <1>6, <1>8, <2>1, <2>4, <3>1 DEF load_pem_public_key
    <3>3. QED
      BY <1>6, <1>8, <3>2
  <2>5. QED
    BY <1>11, <2>3, <2>4
<1>12. QED
  BY <1>3, <1>4, <1>9, <1>10, <1>11 DEF PublicForm, PublicContainer

-----------------------------------------------------------------------------
(* The inductive invariant of Keys                                         *)

\* What an object of a class signs, and how it verifies
SignedBy(o, a, value) ==
  \/ o.kind = "RSA" /\ a.padding # Nil /\ value = RsaSign(o.key, a.data, a.padding, a.algorithm)
  \/ /\ o.kind \in {"DSA", "EC"} /\ a.padding = Nil /\ a.algorithm # Nil
     /\ value.error = "ok" => value = DsaSign(o.key, a.data, a.algorithm)
  \/ /\ o.kind \in {"ED25519", "ED448"} /\ a.padding = Nil /\ a.algorithm = Nil
     /\ value = EdSign(o.key, a.data)

VerifiedBy(o, a, value, out) ==
  \/ o.kind = "RSA" /\ a.padding # Nil /\ out = RsaVerify(o.key, value, a.data, a.padding, a.algorithm)
  \/ /\ o.kind \in {"DSA", "EC"} /\ a.padding = Nil /\ a.algorithm # Nil
     /\ out = DsaVerify(o.key, value, a.data, a.algorithm)
  \/ /\ o.kind \in {"ED25519", "ED448"} /\ a.padding = Nil /\ a.algorithm = Nil
     /\ out = EdVerify(o.key, value, a.data)

\* Before anything is made, the object at hand is a generated one; it stays one
\* while a signature or a ciphertext is around, and of the kind that made it
ObjInv ==
  /\ made = NoneMade => obj = None \/ Fresh(obj)
  /\ made.what \in {"signature", "ciphertext"} => Fresh(obj) /\ Fresh(made.by) /\ obj.kind = made.by.kind

\* What was made is what its maker makes of the arguments
MadeInv ==
  /\ made.what = "foreign" => made.value \in Foreign
  /\ made.what = "document" => Fresh(made.by) /\ Written(made.by, made.arg, made.value)
  /\ made.what = "signature" => made.arg \in SigningArgs /\ SignedBy(made.by, made.arg, made.value)
  /\ made.what = "ciphertext" =>
       /\ made.arg \in EncryptionArgs /\ made.by.kind = "RSA"
       /\ made.value = RsaEncrypt(made.by.key, made.arg.plaintext, made.arg.padding)

\* The last consumption was of what is there, with the object that is there
LastInv ==
  /\ last.op \in {"private", "public"} =>
       /\ made.what \in {"document", "foreign"}
       /\ last.op = "private" =>
            LoadedPrivate([error |-> last.out, obj |-> obj], made.value, last.arg[1], last.arg[2])
       /\ last.op = "public" => LoadedPublic([error |-> last.out, obj |-> obj], made.value)
  /\ last.op = "verify" =>
       /\ made.what = "signature" /\ made.value.error = "ok" /\ last.arg \in SigningArgs
       /\ VerifiedBy(obj, last.arg, made.value, last.out)
  /\ last.op = "decrypt" =>
       /\ made.what = "ciphertext" /\ made.value.error = "ok" /\ last.arg \in EncryptionArgs
       /\ last.out \in RsaDecrypt(obj.key, made.value, last.arg.padding)

KeysInv == ObjInv /\ MadeInv /\ LastInv

LEMMA KeysInvInit == Init => KeysInv
BY NoneAssumption DEF Init, KeysInv, ObjInv, MadeInv, LastInv, NoneMade, NoneLast

\* Only the consumers set last to anything but NoneLast
LEMMA NothingLast == NoneLast.op = "nothing" /\ NoneMade.what = "nothing"
BY DEF NoneLast, NoneMade

LEMMA GenerateKeeps ==
  ASSUME KeysInv, NEW o \in Generated, Generate(o)
  PROVE  KeysInv'
<1>1. Fresh(o)
  BY GeneratedFresh
<1>2. ObjInv'
  BY <1>1, NothingLast DEF KeysInv, ObjInv, Generate
<1>3. MadeInv'
  BY DEF KeysInv, MadeInv, Generate
<1>4. LastInv'
  BY NothingLast DEF LastInv, Generate
<1>5. QED
  BY <1>2, <1>3, <1>4 DEF KeysInv

LEMMA ReceiveKeeps ==
  ASSUME KeysInv, NEW d \in Foreign, Receive(d)
  PROVE  KeysInv'
<1>1. made'.what = "foreign" /\ made'.value = d
  BY DEF Receive
<1>2. ObjInv'
  BY <1>1, NothingLast DEF ObjInv
<1>3. MadeInv'
  BY <1>1 DEF MadeInv
<1>4. LastInv'
  BY NothingLast DEF KeysInv, LastInv, Receive
<1>5. QED
  BY <1>2, <1>3, <1>4 DEF KeysInv

LEMMA PublicKeyKeeps ==
  ASSUME KeysInv, PublicKey
  PROVE  KeysInv'
<1>1. Fresh(obj) => Fresh(obj') /\ obj'.kind = obj.kind
  BY PublicHalf, Zenon DEF PublicKey
<1>2. ObjInv'
  BY <1>1 DEF KeysInv, ObjInv, PublicKey
<1>3. MadeInv'
  BY DEF KeysInv, MadeInv, PublicKey
<1>4. LastInv'
  BY NothingLast DEF LastInv, PublicKey
<1>5. QED
  BY <1>2, <1>3, <1>4 DEF KeysInv

\* Whatever is made first is made by a generated key
LEMMA ProduceKeeps ==
  ASSUME KeysInv, NEW what, NEW value, NEW arg, obj # None, made = NoneMade, Produce(what, value, arg),
         what \in {"document", "error", "signature", "ciphertext"},
         what = "document" => Written(obj, arg, value),
         what = "signature" => arg \in SigningArgs /\ SignedBy(obj, arg, value),
         what = "ciphertext" => /\ arg \in EncryptionArgs /\ obj.kind = "RSA"
                                /\ value = RsaEncrypt(obj.key, arg.plaintext, arg.padding)
  PROVE  KeysInv'
<1>1. Fresh(obj)
  BY DEF KeysInv, ObjInv
<1>2. /\ made'.what = what /\ made'.value = value /\ made'.by = obj /\ made'.arg = arg
      /\ obj' = obj /\ last' = NoneLast
  BY DEF Produce
<1>3. ObjInv'
  BY <1>1, <1>2, NothingLast DEF ObjInv
<1>4. MadeInv'
  BY <1>1, <1>2 DEF MadeInv
<1>5. LastInv'
  BY <1>2, NothingLast DEF LastInv
<1>6. QED
  BY <1>3, <1>4, <1>5 DEF KeysInv

LEMMA WritePrivateKeeps ==
  ASSUME KeysInv, NEW encoding, NEW format, NEW enc \in Encryptions, WritePrivate(encoding, format, enc)
  PROVE  KeysInv'
<1> DEFINE r == PrivateBytes(obj, encoding, format, enc)
<1>1. obj # None /\ obj.private /\ made = NoneMade /\ IsEncryption(enc)
  BY DEF WritePrivate
<1>2. CASE r.error = "ok"
  <2>1. Produce("document", r.doc, enc)
    BY <1>2 DEF WritePrivate
  <2>2. Written(obj, enc, r.doc)
    BY <1>1, <1>2 DEF Written, WrittenPrivate
  <2>3. QED
    BY <1>1, <2>1, <2>2, ProduceKeeps
<1>3. CASE r.error # "ok"
  <2>1. Produce("error", r.error, None)
    BY <1>3 DEF WritePrivate
  <2>2. QED
    BY <1>1, <2>1, ProduceKeeps
<1>4. QED
  BY <1>2, <1>3

LEMMA WritePublicKeeps ==
  ASSUME KeysInv, NEW encoding, NEW format, WritePublic(encoding, format)
  PROVE  KeysInv'
<1> DEFINE r == PublicBytes(obj, encoding, format)
<1>1. obj # None /\ ~obj.private /\ made = NoneMade
  BY DEF WritePublic
<1>2. CASE r.error = "ok"
  <2>1. Produce("document", r.doc, None)
    BY <1>2 DEF WritePublic
  <2>2. Written(obj, None, r.doc)
    BY <1>1, <1>2 DEF Written, WrittenPublic
  <2>3. QED
    BY <1>1, <2>1, <2>2, ProduceKeeps
<1>3. CASE r.error # "ok"
  <2>1. Produce("error", r.error, None)
    BY <1>3 DEF WritePublic
  <2>2. QED
    BY <1>1, <2>1, ProduceKeeps
<1>4. QED
  BY <1>2, <1>3

-----------------------------------------------------------------------------
LEMMA MadeLegible ==
  ASSUME KeysInv, made.what \in {"document", "foreign"}
  PROVE  Legible(made.value)
<1>1. CASE made.what = "document"
  BY <1>1, WrittenLegible DEF KeysInv, MadeInv
<1>2. CASE made.what = "foreign"
  BY <1>2, ForeignLegible DEF KeysInv, MadeInv
<1>3. QED
  BY <1>1, <1>2

LEMMA ResultFields ==
  ASSUME NEW error, NEW object
  PROVE  [error |-> error, obj |-> object].error = error /\ [error |-> error, obj |-> object].obj = object
OBVIOUS

LEMMA ReadPrivateKeeps ==
  ASSUME KeysInv, NEW r, NEW password, NEW skip, Read("private", << password, skip >>, r),
         LoadedPrivate(r, made.value, password, skip)
  PROVE  KeysInv'
<1>1. /\ made.what \in {"document", "foreign"} /\ made' = made /\ obj' = r.obj
      /\ last'.op = "private" /\ last'.out = r.error
      /\ last'.arg[1] = password /\ last'.arg[2] = skip
  BY DEF Read
<1>2. ObjInv' /\ MadeInv'
  BY <1>1, NothingLast DEF KeysInv, ObjInv, MadeInv
<1>3. LoadedPrivate([error |-> r.error, obj |-> r.obj], made.value, password, skip)
  BY ResultFields DEF LoadedPrivate
<1>4. LastInv'
  BY <1>1, <1>3 DEF LastInv
<1>5. QED
  BY <1>2, <1>4 DEF KeysInv

LEMMA ReadPublicKeeps ==
  ASSUME KeysInv, NEW r, Read("public", None, r), LoadedPublic(r, made.value)
  PROVE  KeysInv'
<1>1. /\ made.what \in {"document", "foreign"} /\ made' = made /\ obj' = r.obj
      /\ last'.op = "public" /\ last'.out = r.error
  BY DEF Read
<1>2. ObjInv' /\ MadeInv'
  BY <1>1, NothingLast DEF KeysInv, ObjInv, MadeInv
<1>3. LoadedPublic([error |-> r.error, obj |-> r.obj], made.value)
  BY ResultFields DEF LoadedPublic
<1>4. LastInv'
  BY <1>1, <1>3 DEF LastInv
<1>5. QED
  BY <1>2, <1>4 DEF KeysInv

LEMMA LoadKeeps ==
  ASSUME KeysInv,
         \/ \E password \in Passwords, skip \in BOOLEAN :
              \/ LoadDerPrivate(password, skip)
              \/ LoadPemPrivate(password, skip)
              \/ LoadSshPrivate(password, skip)
         \/ LoadRawPrivate \/ LoadDerPublic \/ LoadPemPublic \/ LoadOther
  PROVE  KeysInv'
<1>1. made.what \in {"document", "foreign"}
  BY DEF LoadDerPrivate, LoadPemPrivate, LoadSshPrivate, LoadRawPrivate, LoadDerPublic, LoadPemPublic,
         LoadOther
<1>2. Legible(made.value)
  BY <1>1, MadeLegible
<1>3. ASSUME NEW password, NEW skip, LoadDerPrivate(password, skip) PROVE KeysInv'
  BY <1>2, <1>3, DerPrivate, ReadPrivateKeeps DEF LoadDerPrivate
<1>4. ASSUME NEW password, NEW skip, LoadPemPrivate(password, skip) PROVE KeysInv'
  BY <1>2, <1>4, PemPrivate, ReadPrivateKeeps DEF LoadPemPrivate
<1>5. ASSUME NEW password, NEW skip, LoadSshPrivate(password, skip) PROVE KeysInv'
  BY <1>2, <1>5, SshPrivate, ReadPrivateKeeps DEF LoadSshPrivate
<1>6. ASSUME LoadRawPrivate PROVE KeysInv'
  BY <1>2, <1>6, RawPrivate, ReadPrivateKeeps DEF LoadRawPrivate
<1>7. ASSUME LoadDerPublic PROVE KeysInv'
  BY <1>2, <1>7, DerPublic, ReadPublicKeeps DEF LoadDerPublic
<1>8. ASSUME LoadPemPublic PROVE KeysInv'
  BY <1>2, <1>8, PemPublic, ReadPublicKeeps DEF LoadPemPublic
<1>9. ASSUME LoadOther PROVE KeysInv'
  BY <1>2, <1>9, OtherPublic, ReadPublicKeeps DEF LoadOther
<1>10. QED
  BY <1>3, <1>4, <1>5, <1>6, <1>7, <1>8, <1>9

-----------------------------------------------------------------------------
\* ECDSA is DSA once its signature algorithm is accepted
LEMMA EcIsDsa ==
  /\ \A key, data, alg, algorithm : EcSign(key, data, alg, algorithm).error = "ok" =>
       EcSign(key, data, alg, algorithm) = DsaSign(key, data, algorithm)
  /\ \A key, sig, data, algorithm :
       EcVerify(key, sig, data, "ECDSA", algorithm) = DsaVerify(key, sig, data, algorithm)
BY DEF EcSign, EcVerify, DsaSign, DsaVerify, Failed

LEMMA SignKeeps ==
  ASSUME KeysInv, NEW a \in SigningArgs, Sign(a)
  PROVE  KeysInv'
<1>1. obj # None /\ made = NoneMade
  BY DEF Sign
<1>2. obj.class = obj.kind
  BY <1>1 DEF KeysInv, ObjInv, Fresh
<1>3. PICK value : SignedBy(obj, a, value) /\ Produce("signature", value, a)
  <2>1. CASE /\ obj.class = "RSA" /\ a.padding # Nil
             /\ Produce("signature", RsaSign(obj.key, a.data, a.padding, a.algorithm), a)
    BY <1>2, <2>1 DEF SignedBy
  <2>2. CASE /\ obj.class = "DSA" /\ a.padding = Nil /\ a.algorithm # Nil
             /\ Produce("signature", DsaSign(obj.key, a.data, a.algorithm), a)
    BY <1>2, <2>2 DEF SignedBy
  <2>3. CASE /\ obj.class = "EC" /\ a.padding = Nil /\ a.algorithm # Nil
             /\ \E alg \in {"ECDSA", "other"} : Produce("signature", EcSign(obj.key, a.data, alg, a.algorithm), a)
    BY <1>2, <2>3, EcIsDsa DEF SignedBy
  <2>4. CASE /\ obj.class \in {"ED25519", "ED448"} /\ a.padding = Nil /\ a.algorithm = Nil
             /\ Produce("signature", EdSign(obj.key, a.data), a)
    BY <1>2, <2>4 DEF SignedBy
  <2>5. QED
    BY <2>1, <2>2, <2>3, <2>4 DEF Sign
<1>4. QED
  BY <1>1, <1>3, ProduceKeeps

LEMMA VerifyKeeps ==
  ASSUME KeysInv, NEW a \in SigningArgs, Verify(a)
  PROVE  KeysInv'
<1>1. /\ made.what = "signature" /\ made.value.error = "ok" /\ obj' = obj /\ made' = made
  BY DEF Verify
<1>2. obj.class = obj.kind
  BY <1>1 DEF KeysInv, ObjInv, Fresh
<1>3. PICK out : last' = [op |-> "verify", arg |-> a, out |-> out] /\ VerifiedBy(obj, a, made.value, out)
  BY <1>2, EcIsDsa DEF Verify, VerifiedBy
<1>4. last'.op = "verify" /\ last'.arg = a /\ last'.out = out
  BY <1>3
<1>5. ObjInv' /\ MadeInv'
  BY <1>1 DEF KeysInv, ObjInv, MadeInv
<1>6. LastInv'
  BY <1>1, <1>3, <1>4 DEF LastInv
<1>7. QED
  BY <1>5, <1>6 DEF KeysInv

LEMMA EncryptKeeps ==
  ASSUME KeysInv, NEW a \in EncryptionArgs, Encrypt(a)
  PROVE  KeysInv'
<1>1. obj # None /\ made = NoneMade /\ obj.class = "RSA"
  BY DEF Encrypt
<1>2. obj.kind = "RSA"
  BY <1>1 DEF KeysInv, ObjInv, Fresh
<1>3. QED
  BY <1>1, <1>2, ProduceKeeps DEF Encrypt

LEMMA DecryptKeeps ==
  ASSUME KeysInv, NEW a \in EncryptionArgs, Decrypt(a)
  PROVE  KeysInv'
<1>1. /\ made.what = "ciphertext" /\ made.value.error = "ok" /\ obj' = obj /\ made' = made
      /\ last'.op = "decrypt" /\ last'.arg = a /\ last'.out \in RsaDecrypt(obj.key, made.value, a.padding)
  BY DEF Decrypt
<1>2. ObjInv' /\ MadeInv'
  BY <1>1 DEF KeysInv, ObjInv, MadeInv
<1>3. LastInv'
  BY <1>1 DEF LastInv
<1>4. QED
  BY <1>2, <1>3 DEF KeysInv

\* The rest sets last to an operation of another name, or leaves it
LEMMA OtherKeeps ==
  ASSUME KeysInv, obj' = obj, made' = made, last' = last \/ last'.op \in {"recover", "numbers"}
  PROVE  KeysInv'
<1>1. ObjInv' /\ MadeInv'
  BY DEF KeysInv, ObjInv, MadeInv
<1>2. LastInv'
  BY DEF KeysInv, LastInv
<1>3. QED
  BY <1>1, <1>2 DEF KeysInv

LEMMA KeysInvNext == KeysInv /\ [Next]_vars => KeysInv'
<1> SUFFICES ASSUME KeysInv, [Next]_vars PROVE KeysInv'
  OBVIOUS
<1>1. CASE \E o \in Generated : Generate(o)
  BY <1>1, GenerateKeeps
<1>2. CASE \E d \in Foreign : Receive(d)
  BY <1>2, ReceiveKeeps
<1>3. CASE PublicKey
  BY <1>3, PublicKeyKeeps
<1>4. CASE \E encoding \in Encodings \cup {"other"}, format \in PrivateFormats \cup {"other"},
              enc \in Encryptions : WritePrivate(encoding, format, enc)
  BY <1>4, WritePrivateKeeps
<1>5. CASE \E encoding \in Encodings \cup {"other"}, format \in PublicFormats \cup {"other"} :
              WritePublic(encoding, format)
  BY <1>5, WritePublicKeeps
<1>6. CASE \/ \E password \in Passwords, skip \in BOOLEAN :
                \/ LoadDerPrivate(password, skip)
                \/ LoadPemPrivate(password, skip)
                \/ LoadSshPrivate(password, skip)
           \/ LoadRawPrivate \/ LoadDerPublic \/ LoadPemPublic \/ LoadOther
  BY <1>6, LoadKeeps
<1>7. CASE \E a \in SigningArgs : Sign(a)
  BY <1>7, SignKeeps
<1>8. CASE \E a \in SigningArgs : Verify(a)
  BY <1>8, VerifyKeeps
<1>9. CASE \E a \in RecoverArgs : Recover(a)
  BY <1>9, OtherKeeps DEF Recover
<1>10. CASE \E a \in EncryptionArgs : Encrypt(a)
  BY <1>10, EncryptKeeps
<1>11. CASE \E a \in EncryptionArgs : Decrypt(a)
  BY <1>11, DecryptKeeps
<1>12. CASE \E r \in Numbers : \E skip \in IF r.alg = "RSA" THEN BOOLEAN ELSE {FALSE} : FromNumbers(r, skip)
  BY <1>12, OtherKeeps DEF FromNumbers
<1>13. CASE \E i \in 1 .. 2 : Exchange(i)
  BY <1>13, OtherKeeps DEF Exchange
<1>14. CASE UNCHANGED vars
  BY <1>14, OtherKeeps DEF vars
<1>15. QED
  BY <1>1, <1>2, <1>3, <1>4, <1>5, <1>6, <1>7, <1>8, <1>9, <1>10, <1>11, <1>12, <1>13, <1>14 DEF Next

\* The invariant that the properties of Keys follow from: what is at hand was
\* generated or loaded, what was made is what its maker makes
THEOREM KeysInvariant == Spec => []KeysInv
<1>1. QED
  BY KeysInvInit, KeysInvNext, PTL DEF Spec

-----------------------------------------------------------------------------
(* Reading and writing                                                     *)

\* Who reads an encrypted document gave the password that it was written with
LEMMA EncryptedDocument ==
  ASSUME NEW o, Fresh(o), NEW enc, NEW d, Written(o, enc, d), enc # None, enc.alg # "NoEncryption",
         NEW r, NEW password, NEW skip, LoadedPrivate(r, d, password, skip), r.error = "ok"
  PROVE  password = enc.password
<1>1. WrittenPrivate(o, enc, d)
  BY DEF Written
<1>2. PICK encoding, format : /\ PrivateBytes(o, encoding, format, enc).error = "ok"
                              /\ PrivateBytes(o, encoding, format, enc).doc = d
  BY <1>1 DEF WrittenPrivate
<1>3. enc \in Encryptions /\ IsEncryption(enc)
  BY <1>1 DEF WrittenPrivate
<1> DEFINE P == PasswordOf(enc)
<1>4. d = Document(o, encoding, format, None, P)
  BY <1>2, <1>3, PrivateDocument
<1>5. format = "Raw" => P = Empty
  BY <1>2, <1>3, PrivateDocument DEF PrivateContainer
<1>6. P = enc.password /\ P # Empty
  BY <1>3, PasswordKept
<1> HIDE DEF P
<1>7. d.password = P /\ d.container = format
  BY <1>4 DEF Document
<1>8. d.encrypted <=> P # Empty
  BY <1>4 DEF Document
<1>9. QED
  BY <1>5, <1>6, <1>7, <1>8 DEF LoadedPrivate

LEMMA OnlyWithPassword == KeysInv => ReadableOnlyWithPassword
<1> SUFFICES ASSUME KeysInv, made.what = "document", last.op = "private", last.out = "ok",
                    made.arg # None, made.arg.alg # "NoEncryption"
             PROVE  last.arg[1] = made.arg.password
  BY DEF ReadableOnlyWithPassword
<1>1. Fresh(made.by) /\ Written(made.by, made.arg, made.value)
  BY DEF KeysInv, MadeInv
<1>2. LoadedPrivate([error |-> last.out, obj |-> obj], made.value, last.arg[1], last.arg[2])
  BY DEF KeysInv, LastInv
<1>3. [error |-> last.out, obj |-> obj].error = "ok"
  BY ResultFields
<1>4. QED
  BY <1>1, <1>2, <1>3, EncryptedDocument

LEMMA LoadersSound == KeysInv => LoadsOnlySound
<1> SUFFICES ASSUME KeysInv, last.op \in {"private", "public"}, last.out = "ok"
             PROVE  /\ obj.key = made.value.key /\ obj.class = ClassOf(made.value.kind) /\ obj.kind # "RSA_PSS"
                    /\ obj.private <=> last.op = "private"
                    /\ made.value.flaw \notin {"explicit", "curve", "infinity"}
                    /\ made.value.flaw = "rsa" => ~obj.private \/ last.arg[2]
                    /\ obj.private => last.arg[1] \in {None, made.value.password}
                    /\ obj.private /\ ~made.value.encrypted => last.arg[1] \in {None, Empty}
  BY DEF LoadsOnlySound
<1>1. made.what \in {"document", "foreign"}
  BY DEF KeysInv, LastInv
<1>2. Legible(made.value)
  BY <1>1, MadeLegible
<1>3. /\ [error |-> last.out, obj |-> obj].error = "ok"
      /\ [error |-> last.out, obj |-> obj].obj = obj
  BY ResultFields
<1>4. CASE last.op = "private"
  <2>1. LoadedPrivate([error |-> last.out, obj |-> obj], made.value, last.arg[1], last.arg[2])
    BY <1>4 DEF KeysInv, LastInv
  <2>2. SoundObject(obj, made.value, last.arg[2]) /\ made.value.private
    BY <1>3, <2>1 DEF LoadedPrivate
  <2>3. /\ last.arg[1] \in {None, made.value.password}
        /\ ~made.value.encrypted => last.arg[1] \in {None, Empty}
    BY <1>2, <1>3, <2>1 DEF LoadedPrivate, Legible
  <2>4. obj.private = made.value.private
    BY <2>2 DEF SoundObject
  <2>5. QED
    BY <1>4, <2>2, <2>3, <2>4 DEF SoundObject
<1>5. CASE last.op = "public"
  <2>1. LoadedPublic([error |-> last.out, obj |-> obj], made.value)
    BY <1>5 DEF KeysInv, LastInv
  <2>2. SoundObject(obj, made.value, FALSE) /\ ~made.value.private
    BY <1>3, <2>1 DEF LoadedPublic
  <2>3. obj.private = made.value.private
    BY <2>2 DEF SoundObject
  <2>4. QED
    BY <1>5, <2>2, <2>3 DEF SoundObject
<1>6. QED
  BY <1>4, <1>5

LEMMA ReadersRoundTrip == KeysInv => RoundTrips
<1> DEFINE d == made.value
           enc == made.arg
           by == IF enc # None /\ enc.alg # "NoEncryption" THEN enc.password ELSE None
<1>1. ASSUME KeysInv, made.what = "document"
      PROVE  IF d.private THEN ReadsPrivate(made.by, d, by) ELSE ReadsPublic(made.by, d)
  <2>1. Fresh(made.by) /\ Written(made.by, enc, d)
    BY <1>1 DEF KeysInv, MadeInv
  <2>2. CASE WrittenPrivate(made.by, enc, d)
    <3>1. enc # None
      BY <2>2, NoneAssumption DEF WrittenPrivate
    <3>2. by = IF enc.alg # "NoEncryption" THEN enc.password ELSE None
      BY <3>1
    <3> HIDE DEF d, enc, by
    <3>3. d.private /\ ReadsPrivate(made.by, d, by)
      BY <2>1, <2>2, <3>2, PrivateRoundTrip
    <3>4. QED
      BY <3>3
  <2>3. CASE WrittenPublic(made.by, d)
    <3>1. ~d.private /\ ReadsPublic(made.by, d)
      BY <2>1, <2>3, PublicRoundTrip
    <3>2. QED
      BY <3>1
  <2>4. QED
    BY <2>1, <2>2, <2>3 DEF Written
<1>2. QED
  BY <1>1 DEF RoundTrips, ReadsPrivate, ReadsPublic, Expected

-----------------------------------------------------------------------------
(* Signing and verifying                                                   *)

\* The arguments that setup_signature_ctx accepts, and the context it makes
LEMMA SignatureContext ==
  ASSUME NEW padding, NEW hash, NEW signing, setup_signature_ctx(padding, hash, signing).error = "ok"
  PROVE  /\ padding.name \in {"PKCS1v15", "PSS"} /\ (padding.salt = AutoLength /\ signing => padding.name # "PSS")
         /\ setup_signature_ctx(padding, hash, signing).padding = padding.name
         /\ setup_signature_ctx(padding, hash, signing).hash = hash
         /\ setup_signature_ctx(padding, hash, signing).mgf
              = IF padding.name = "PSS" THEN padding.mgf ELSE Nil
         /\ padding.name = "PSS" => setup_signature_ctx(padding, hash, signing).salt = padding.salt
<1>1. \A e : Failed(e).error = e
  BY DEF Failed
<1>2. \A p, h, s, m : /\ Settings(p, h, s, m).error = "ok" /\ Settings(p, h, s, m).padding = p
                      /\ Settings(p, h, s, m).hash = h /\ Settings(p, h, s, m).salt = s
                      /\ Settings(p, h, s, m).mgf = m
  BY DEF Settings
<1>3. CASE padding.name = "PKCS1v15"
  BY <1>2, <1>3 DEF setup_signature_ctx
<1>4. CASE padding.name # "PKCS1v15"
  <2>1. /\ padding.name = "PSS" /\ ~(padding.salt = AutoLength /\ signing)
        /\ setup_signature_ctx(padding, hash, signing) = Settings("PSS", hash, padding.salt, padding.mgf)
    BY <1>1, <1>4 DEF setup_signature_ctx
  <2>2. QED
    BY <1>2, <2>1
<1>5. QED
  BY <1>3, <1>4

\* The two uses of setup_signature_ctx
Signing(padding, hash) == setup_signature_ctx(padding, hash, TRUE)
Verifying(padding, hash) == setup_signature_ctx(padding, hash, FALSE)

LEMMA ContextsByUse ==
  ASSUME NEW padding, NEW hash
  PROVE  /\ Signing(padding, hash).error = "ok" =>
              /\ padding.name \in {"PKCS1v15", "PSS"}
              /\ Signing(padding, hash).padding = padding.name
              /\ Signing(padding, hash).hash = hash
              /\ Signing(padding, hash).mgf = IF padding.name = "PSS" THEN padding.mgf ELSE Nil
              /\ padding.name = "PSS" => Signing(padding, hash).salt = padding.salt
         /\ Verifying(padding, hash).error = "ok" =>
              /\ padding.name \in {"PKCS1v15", "PSS"}
              /\ Verifying(padding, hash).padding = padding.name
              /\ Verifying(padding, hash).hash = hash
              /\ Verifying(padding, hash).mgf = IF padding.name = "PSS" THEN padding.mgf ELSE Nil
              /\ padding.name = "PSS" => Verifying(padding, hash).salt = padding.salt
<1>1. \A signing : setup_signature_ctx(padding, hash, signing).error = "ok" =>
        /\ padding.name \in {"PKCS1v15", "PSS"}
        /\ setup_signature_ctx(padding, hash, signing).padding = padding.name
        /\ setup_signature_ctx(padding, hash, signing).hash = hash
        /\ setup_signature_ctx(padding, hash, signing).mgf
             = IF padding.name = "PSS" THEN padding.mgf ELSE Nil
        /\ padding.name = "PSS" => setup_signature_ctx(padding, hash, signing).salt = padding.salt
  BY SignatureContext
<1>2. QED
  BY <1>1, Zenon DEF Signing, Verifying

\* What is accepted for signing is accepted for verifying, with the salt length
\* left open too
LEMMA ContextForVerifying ==
  ASSUME NEW p, NEW q, NEW hash, Signing(p, hash).error = "ok",
         q.name = p.name, q.mgf = p.mgf
  PROVE  Verifying(q, hash).error = "ok"
<1>1. \A e : Failed(e).error = e
  BY DEF Failed
<1>2. \A n, h, s, m : Settings(n, h, s, m).error = "ok"
  BY DEF Settings
<1>3. CASE p.name = "PKCS1v15"
  BY <1>2, <1>3 DEF setup_signature_ctx, Signing, Verifying
<1>4. CASE p.name # "PKCS1v15"
  <2>1. /\ p.name = "PSS" /\ p.mgf # Nil /\ hash # Nil /\ ~DigestTooLarge(hash)
    BY <1>1, <1>4 DEF setup_signature_ctx, Signing, Verifying
  <2>2. Verifying(q, hash) = Settings("PSS", hash, q.salt, q.mgf)
    BY <2>1 DEF setup_signature_ctx, Signing, Verifying
  <2>3. QED
    BY <1>2, <2>2
<1>5. QED
  BY <1>3, <1>4

LEMMA SignatureFields ==
  ASSUME NEW key, NEW ctx, NEW digest
  PROVE  /\ Signature(key, ctx, digest).error = "ok" /\ Signature(key, ctx, digest).key = key
         /\ Signature(key, ctx, digest).padding = ctx.padding /\ Signature(key, ctx, digest).hash = ctx.hash
         /\ Signature(key, ctx, digest).digest = digest /\ Signature(key, ctx, digest).mgf = ctx.mgf
         /\ Signature(key, ctx, digest).salt = IF ctx.padding = "PSS" THEN SaltLength(ctx) ELSE Nil
BY DEF Signature

\* The digest that a prehashed argument stands for
DigestOf(x) ==
  IF x.algorithm # Nil /\ ~x.algorithm.prehashed THEN Digest(x.algorithm.hash, x.data) ELSE x.data

LEMMA SameDigest ==
  ASSUME NEW a, NEW b, DigestOf(a) = DigestOf(b), a.algorithm = Nil <=> b.algorithm = Nil,
         a.algorithm # Nil => a.algorithm.hash = b.algorithm.hash,
         calculate_digest_and_algorithm(b.data, b.algorithm) # Nil
  PROVE  calculate_digest_and_algorithm(a.data, a.algorithm)
           = calculate_digest_and_algorithm(b.data, b.algorithm)
<1>1. \A hash, data : Digest(hash, data).hash = hash
  BY DEF Digest
<1>2. CASE a.algorithm = Nil
  <2>1. a.algorithm = b.algorithm /\ a.data = b.data
    BY <1>2 DEF DigestOf
  <2>2. QED
    BY <2>1
<1>3. CASE a.algorithm # Nil /\ ~a.algorithm.prehashed
  BY <1>1, <1>3 DEF DigestOf, calculate_digest_and_algorithm
<1>4. CASE a.algorithm # Nil /\ a.algorithm.prehashed
  BY <1>1, <1>4 DEF DigestOf, calculate_digest_and_algorithm
<1>5. QED
  BY <1>2, <1>3, <1>4

LEMMA RsaSignature ==
  ASSUME NEW key, NEW b, RsaSign(key, b.data, b.padding, b.algorithm).error = "ok"
  PROVE  LET digest == calculate_digest_and_algorithm(b.data, b.algorithm)
             ctx == Signing(b.padding, b.algorithm.hash)
         IN  /\ digest # Nil /\ ctx.error = "ok"
             /\ RsaSign(key, b.data, b.padding, b.algorithm) = Signature(key, ctx, digest)
<1>1. \A e : Failed(e).error = e
  BY DEF Failed
<1> DEFINE digest == calculate_digest_and_algorithm(b.data, b.algorithm)
           ctx == Signing(b.padding, b.algorithm.hash)
<1>2. RsaSign(key, b.data, b.padding, b.algorithm)
        = IF digest = Nil THEN Failed("ValueError")
          ELSE IF ctx.error # "ok" THEN ctx
          ELSE IF Fits(ctx, digest) THEN Signature(key, ctx, digest) ELSE Failed("ValueError")
  BY Zenon DEF RsaSign, Signing
<1> HIDE DEF digest, ctx
<1>3. digest # Nil /\ ctx.error = "ok" /\ RsaSign(key, b.data, b.padding, b.algorithm) = Signature(key, ctx, digest)
  BY <1>1, <1>2
<1>4. QED
  BY <1>3 DEF digest, ctx

LEMMA RsaVerifies ==
  ASSUME NEW key, NEW a, NEW b, RsaSign(key, b.data, b.padding, b.algorithm).error = "ok",
         DigestOf(a) = DigestOf(b), a.algorithm = Nil <=> b.algorithm = Nil,
         a.algorithm # Nil => a.algorithm.hash = b.algorithm.hash,
         a.padding.name = b.padding.name, a.padding.mgf = b.padding.mgf,
         a.padding.salt \in {b.padding.salt, AutoLength}
  PROVE  RsaVerify(key, RsaSign(key, b.data, b.padding, b.algorithm), a.data, a.padding, a.algorithm) = "ok"
<1> DEFINE digest == calculate_digest_and_algorithm(b.data, b.algorithm)
           ctx == Signing(b.padding, b.algorithm.hash)
           sig == RsaSign(key, b.data, b.padding, b.algorithm)
           ours == Verifying(a.padding, a.algorithm.hash)
<1>1. digest # Nil /\ ctx.error = "ok" /\ sig = Signature(key, ctx, digest)
  BY RsaSignature
<1>2. calculate_digest_and_algorithm(a.data, a.algorithm) = digest
  BY <1>1, SameDigest
<1>3. a.algorithm.hash = b.algorithm.hash
  OBVIOUS
<1>4. ours.error = "ok"
  BY <1>1, <1>3, ContextForVerifying
<1>5. /\ ctx.padding = b.padding.name /\ ctx.hash = b.algorithm.hash
      /\ ctx.mgf = IF b.padding.name = "PSS" THEN b.padding.mgf ELSE Nil
      /\ b.padding.name = "PSS" => ctx.salt = b.padding.salt
  BY <1>1, ContextsByUse
<1>6. /\ ours.padding = ctx.padding /\ ours.hash = ctx.hash /\ ours.mgf = ctx.mgf
      /\ ours.padding = "PSS" => ours.salt = a.padding.salt
  BY <1>3, <1>4, <1>5, ContextsByUse
<1>7. sig.error = "ok" /\ sig.key = key /\ sig.digest = digest
  BY <1>1, SignatureFields
<1>8. sig.padding = ctx.padding /\ sig.hash = ctx.hash /\ sig.mgf = ctx.mgf
  BY <1>1, SignatureFields
<1>9. ctx.padding = "PSS" => sig.salt = SaltLength(ctx)
  BY <1>1, SignatureFields
<1> HIDE DEF ctx, sig, ours
<1>10. ours.padding = "PSS" /\ ours.salt # AutoLength => sig.salt = SaltLength(ours)
  BY <1>5, <1>6, <1>9 DEF SaltLength
<1>11. OpensslVerifies(key, ours, digest, sig)
  BY <1>6, <1>7, <1>8, <1>10 DEF OpensslVerifies
<1>12. QED
  BY <1>1, <1>2, <1>4, <1>11, Zenon DEF RsaVerify, Verifying, ours, sig

\* The digest of data is of that data only
LEMMA DigestInjective ==
  ASSUME NEW a, NEW b, ~a.algorithm.prehashed, ~b.algorithm.prehashed,
         calculate_digest_and_algorithm(a.data, a.algorithm) = calculate_digest_and_algorithm(b.data, b.algorithm)
  PROVE  a.data = b.data
<1>1. \A hash, data : Digest(hash, data).of = data
  BY DEF Digest
<1>2. Digest(a.algorithm.hash, a.data) = Digest(b.algorithm.hash, b.data)
  BY DEF calculate_digest_and_algorithm
<1>3. QED
  BY <1>1, <1>2

LEMMA RsaVerifiesOnly ==
  ASSUME NEW key, NEW k, NEW a, NEW b, RsaSign(key, b.data, b.padding, b.algorithm).error = "ok",
         RsaVerify(k, RsaSign(key, b.data, b.padding, b.algorithm), a.data, a.padding, a.algorithm) = "ok",
         a.padding.name = "PKCS1v15" => a.padding.mgf = Nil,
         b.padding.name = "PKCS1v15" => b.padding.mgf = Nil
  PROVE  /\ k = key /\ a.padding.name = b.padding.name /\ a.padding.mgf = b.padding.mgf
         /\ a.algorithm.hash = b.algorithm.hash
         /\ ~a.algorithm.prehashed /\ ~b.algorithm.prehashed => a.data = b.data
<1> DEFINE digest == calculate_digest_and_algorithm(b.data, b.algorithm)
           ctx == Signing(b.padding, b.algorithm.hash)
           sig == RsaSign(key, b.data, b.padding, b.algorithm)
           theirs == calculate_digest_and_algorithm(a.data, a.algorithm)
           ours == Verifying(a.padding, a.algorithm.hash)
<1>1. digest # Nil /\ ctx.error = "ok" /\ sig = Signature(key, ctx, digest)
  BY RsaSignature
<1>2. RsaVerify(k, sig, a.data, a.padding, a.algorithm)
        = IF theirs = Nil THEN "ValueError"
          ELSE IF ours.error # "ok" THEN ours.error
          ELSE IF OpensslVerifies(k, ours, theirs, sig) THEN "ok" ELSE "InvalidSignature"
  BY Zenon DEF RsaVerify, Verifying
<1>3. /\ ctx.padding = b.padding.name /\ ctx.hash = b.algorithm.hash /\ ctx.mgf = b.padding.mgf
  BY <1>1, ContextsByUse
<1>4. /\ sig.key = key /\ sig.digest = digest
      /\ sig.padding = ctx.padding /\ sig.hash = ctx.hash /\ sig.mgf = ctx.mgf
  BY <1>1, SignatureFields
<1>5. ours.error = "ok" =>
        ours.padding = a.padding.name /\ ours.hash = a.algorithm.hash /\ ours.mgf = a.padding.mgf
  BY ContextsByUse
<1>6. RsaVerify(k, sig, a.data, a.padding, a.algorithm) = "ok"
  OBVIOUS
<1> HIDE DEF ctx, sig, ours, digest, theirs
<1>7. ours.error = "ok" /\ OpensslVerifies(k, ours, theirs, sig)
  BY <1>2, <1>6
<1>8. k = key /\ theirs = digest /\ ours.padding = ctx.padding /\ ours.hash = ctx.hash /\ ours.mgf = ctx.mgf
  BY <1>4, <1>7 DEF OpensslVerifies
<1>9. ~a.algorithm.prehashed /\ ~b.algorithm.prehashed => a.data = b.data
  BY <1>8, DigestInjective DEF theirs, digest
<1>10. QED
  BY <1>3, <1>5, <1>7, <1>8, <1>9

\* DSA and ECDSA
LEMMA DsaSignature ==
  ASSUME NEW key, NEW b, DsaSign(key, b.data, b.algorithm).error = "ok"
  PROVE  /\ calculate_digest_and_algorithm(b.data, b.algorithm) # Nil
         /\ DsaSign(key, b.data, b.algorithm)
              = Signature(key, Plain(Nil), calculate_digest_and_algorithm(b.data, b.algorithm))
<1>1. \A e : Failed(e).error = e
  BY DEF Failed
<1>2. QED
  BY <1>1 DEF DsaSign

LEMMA PlainVerifies ==
  ASSUME NEW key, NEW k, NEW digest, NEW theirs
  PROVE  OpensslVerifies(k, Plain(Nil), theirs, Signature(key, Plain(Nil), digest))
           <=> k = key /\ theirs = digest
BY SignatureFields DEF OpensslVerifies

LEMMA DsaAccepts ==
  ASSUME NEW key, NEW k, NEW a, NEW b, DsaSign(key, b.data, b.algorithm).error = "ok"
  PROVE  LET digest == calculate_digest_and_algorithm(b.data, b.algorithm)
             theirs == calculate_digest_and_algorithm(a.data, a.algorithm)
         IN  /\ digest # Nil
             /\ DsaVerify(k, DsaSign(key, b.data, b.algorithm), a.data, a.algorithm) = "ok"
                  <=> k = key /\ theirs = digest
<1> DEFINE digest == calculate_digest_and_algorithm(b.data, b.algorithm)
           theirs == calculate_digest_and_algorithm(a.data, a.algorithm)
           sig == DsaSign(key, b.data, b.algorithm)
<1>1. digest # Nil /\ sig = Signature(key, Plain(Nil), digest)
  BY DsaSignature
<1>2. DsaVerify(k, sig, a.data, a.algorithm) = "ok" <=> theirs # Nil /\ k = key /\ theirs = digest
  BY <1>1, PlainVerifies DEF DsaVerify
<1>3. QED
  BY <1>1, <1>2

LEMMA DsaVerifies ==
  ASSUME NEW key, NEW a, NEW b, DsaSign(key, b.data, b.algorithm).error = "ok",
         DigestOf(a) = DigestOf(b), a.algorithm = Nil <=> b.algorithm = Nil,
         a.algorithm # Nil => a.algorithm.hash = b.algorithm.hash
  PROVE  DsaVerify(key, DsaSign(key, b.data, b.algorithm), a.data, a.algorithm) = "ok"
<1>1. calculate_digest_and_algorithm(b.data, b.algorithm) # Nil
  BY DsaAccepts
<1>2. calculate_digest_and_algorithm(a.data, a.algorithm) = calculate_digest_and_algorithm(b.data, b.algorithm)
  BY <1>1, SameDigest
<1>3. QED
  BY <1>2, DsaAccepts

LEMMA DsaVerifiesOnly ==
  ASSUME NEW key, NEW k, NEW a, NEW b, DsaSign(key, b.data, b.algorithm).error = "ok",
         DsaVerify(k, DsaSign(key, b.data, b.algorithm), a.data, a.algorithm) = "ok"
  PROVE  k = key /\ (~a.algorithm.prehashed /\ ~b.algorithm.prehashed => a.data = b.data)
<1>1. /\ k = key
      /\ calculate_digest_and_algorithm(a.data, a.algorithm) = calculate_digest_and_algorithm(b.data, b.algorithm)
  BY DsaAccepts
<1>2. QED
  BY <1>1, DigestInjective

LEMMA EdVerifies ==
  ASSUME NEW key, NEW k, NEW a, NEW b
  PROVE  EdVerify(k, EdSign(key, b.data), a.data) = "ok" <=> k = key /\ a.data = b.data
BY PlainVerifies DEF EdVerify, EdSign

\* Signing and verifying are by the same class
LEMMA SignedAndVerified ==
  ASSUME KeysInv, last.op = "verify"
  PROVE  /\ last.arg \in SigningArgs /\ made.arg \in SigningArgs
         /\ \/ /\ obj.kind = "RSA" /\ last.arg.padding # Nil /\ made.arg.padding # Nil
               /\ RsaSign(made.by.key, made.arg.data, made.arg.padding, made.arg.algorithm).error = "ok"
               /\ last.out = RsaVerify(obj.key, RsaSign(made.by.key, made.arg.data, made.arg.padding, made.arg.algorithm),
                                       last.arg.data, last.arg.padding, last.arg.algorithm)
            \/ /\ obj.kind \in {"DSA", "EC"} /\ last.arg.padding = Nil
               /\ DsaSign(made.by.key, made.arg.data, made.arg.algorithm).error = "ok"
               /\ last.out = DsaVerify(obj.key, DsaSign(made.by.key, made.arg.data, made.arg.algorithm),
                                       last.arg.data, last.arg.algorithm)
            \/ /\ obj.kind \in {"ED25519", "ED448"} /\ last.arg.algorithm = Nil /\ made.arg.algorithm = Nil
               /\ last.out = EdVerify(obj.key, EdSign(made.by.key, made.arg.data), last.arg.data)
         /\ obj.class = obj.kind
<1>1. /\ made.what = "signature" /\ made.value.error = "ok" /\ last.arg \in SigningArgs
      /\ VerifiedBy(obj, last.arg, made.value, last.out)
  BY DEF KeysInv, LastInv
<1>2. made.arg \in SigningArgs /\ SignedBy(made.by, made.arg, made.value)
  BY <1>1 DEF KeysInv, MadeInv
<1>3. obj.kind = made.by.kind /\ obj.class = obj.kind
  BY <1>1 DEF KeysInv, ObjInv, Fresh
<1>4. CASE obj.kind = "RSA"
  BY <1>1, <1>2, <1>3, <1>4 DEF SignedBy, VerifiedBy
<1>5. CASE obj.kind \in {"DSA", "EC"}
  BY <1>1, <1>2, <1>3, <1>5 DEF SignedBy, VerifiedBy
<1>6. CASE obj.kind \in {"ED25519", "ED448"}
  BY <1>1, <1>2, <1>3, <1>6 DEF SignedBy, VerifiedBy
<1>7. QED
  BY <1>1, <1>2, <1>3, <1>4, <1>5, <1>6 DEF VerifiedBy

LEMMA WhatItSigns == KeysInv => VerifiesWhatItSigns
<1> SUFFICES ASSUME KeysInv, last.op = "verify", obj.key = made.by.key,
                    DigestOf(last.arg) = DigestOf(made.arg),
                    last.arg.algorithm = Nil <=> made.arg.algorithm = Nil,
                    last.arg.algorithm # Nil => last.arg.algorithm.hash = made.arg.algorithm.hash,
                    \/ last.arg.padding = made.arg.padding
                    \/ /\ last.arg.padding # Nil /\ made.arg.padding # Nil
                       /\ last.arg.padding = [made.arg.padding EXCEPT !.salt = AutoLength]
             PROVE  last.out = "ok"
  BY DEF VerifiesWhatItSigns, DigestOf
<1> DEFINE a == last.arg
           b == made.arg
<1>1. CASE obj.kind = "RSA"
  <2>1. b \in SigningArgs /\ b.padding # Nil
    BY <1>1, SignedAndVerified
  <2>2. b.padding = [name |-> b.padding.name, salt |-> b.padding.salt, mgf |-> b.padding.mgf]
    BY <2>1, SigningArgsAssumption
  <2>3. /\ a.padding.name = b.padding.name /\ a.padding.mgf = b.padding.mgf
        /\ a.padding.salt \in {b.padding.salt, AutoLength}
    BY <2>2
  <2>4. /\ RsaSign(made.by.key, b.data, b.padding, b.algorithm).error = "ok"
        /\ last.out = RsaVerify(obj.key, RsaSign(made.by.key, b.data, b.padding, b.algorithm),
                                a.data, a.padding, a.algorithm)
    BY <1>1, SignedAndVerified
  <2> HIDE DEF a, b
  <2>5. RsaVerify(made.by.key, RsaSign(made.by.key, b.data, b.padding, b.algorithm),
                  a.data, a.padding, a.algorithm) = "ok"
    BY <2>3, <2>4, RsaVerifies DEF a, b
  <2>6. QED
    BY <2>4, <2>5
<1>2. CASE obj.kind \in {"DSA", "EC"}
  BY <1>2, SignedAndVerified, DsaVerifies
<1>3. CASE obj.kind \in {"ED25519", "ED448"}
  BY <1>3, SignedAndVerified, EdVerifies DEF DigestOf
<1>4. QED
  BY <1>1, <1>2, <1>3, SignedAndVerified

LEMMA V15HasNoMgf ==
  ASSUME NEW a \in SigningArgs, a.padding # Nil, a.padding.name = "PKCS1v15"
  PROVE  a.padding.mgf = Nil
<1>1. a.padding = V15Padding
  BY SigningArgsAssumption
<1>2. V15Padding.mgf = Nil
  BY DEF V15Padding
<1>3. QED
  BY <1>1, <1>2

LEMMA NothingElse == KeysInv => VerifiesNothingElse
<1> SUFFICES ASSUME KeysInv, last.op = "verify", last.out = "ok"
             PROVE  /\ obj.key = made.by.key
                    /\ obj.class = "RSA" =>
                         /\ last.arg.padding.name = made.arg.padding.name
                         /\ last.arg.padding.mgf = made.arg.padding.mgf
                         /\ last.arg.algorithm.hash = made.arg.algorithm.hash
                    /\ last.arg.algorithm # Nil /\ ~last.arg.algorithm.prehashed /\ ~made.arg.algorithm.prehashed
                         => last.arg.data = made.arg.data
  BY DEF VerifiesNothingElse
<1>1. CASE obj.kind = "RSA"
  <2> DEFINE a == last.arg
             b == made.arg
  <2>1. a \in SigningArgs /\ b \in SigningArgs /\ a.padding # Nil /\ b.padding # Nil
    BY <1>1, SignedAndVerified
  <2>2. /\ a.padding.name = "PKCS1v15" => a.padding.mgf = Nil
        /\ b.padding.name = "PKCS1v15" => b.padding.mgf = Nil
    BY <2>1, V15HasNoMgf
  <2>3. /\ RsaSign(made.by.key, b.data, b.padding, b.algorithm).error = "ok"
        /\ RsaVerify(obj.key, RsaSign(made.by.key, b.data, b.padding, b.algorithm),
                     a.data, a.padding, a.algorithm) = "ok"
    BY <1>1, SignedAndVerified
  <2> HIDE DEF a, b
  <2>4. /\ obj.key = made.by.key /\ a.padding.name = b.padding.name /\ a.padding.mgf = b.padding.mgf
        /\ a.algorithm.hash = b.algorithm.hash
        /\ ~a.algorithm.prehashed /\ ~b.algorithm.prehashed => a.data = b.data
    BY <2>2, <2>3, RsaVerifiesOnly
  <2>5. QED
    BY <2>4 DEF a, b
<1>2. CASE obj.kind \in {"DSA", "EC"}
  <2> DEFINE a == last.arg
             b == made.arg
  <2>1. /\ DsaSign(made.by.key, b.data, b.algorithm).error = "ok" /\ obj.class # "RSA"
        /\ DsaVerify(obj.key, DsaSign(made.by.key, b.data, b.algorithm), a.data, a.algorithm) = "ok"
    BY <1>2, SignedAndVerified
  <2> HIDE DEF a, b
  <2>2. /\ obj.key = made.by.key
        /\ ~a.algorithm.prehashed /\ ~b.algorithm.prehashed => a.data = b.data
    BY <2>1, DsaVerifiesOnly
  <2>3. QED
    BY <2>1, <2>2 DEF a, b
<1>3. CASE obj.kind \in {"ED25519", "ED448"}
  BY <1>3, SignedAndVerified, EdVerifies
<1>4. QED
  BY <1>1, <1>2, <1>3, SignedAndVerified

-----------------------------------------------------------------------------
(* Encrypting and decrypting                                               *)

\* setup_encryption_ctx tells the paddings of its caller apart
LEMMA EncryptionContext ==
  ASSUME NEW a \in EncryptionArgs, NEW b \in EncryptionArgs,
         setup_encryption_ctx(a.padding).error = "ok",
         setup_encryption_ctx(a.padding) = setup_encryption_ctx(b.padding)
  PROVE  a.padding = b.padding
<1> DEFINE Label(p) == IF p.label = << >> THEN Nil ELSE p.label
<1>1. \A e : Failed(e).error = e
  BY DEF Failed
<1>2. \A p, h, s, m : /\ Settings(p, h, s, m).error = "ok" /\ Settings(p, h, s, m).padding = p
                      /\ Settings(p, h, s, m).hash = h /\ Settings(p, h, s, m).salt = s
                      /\ Settings(p, h, s, m).mgf = m
  BY DEF Settings
<1>3. ASSUME NEW p, setup_encryption_ctx(p).error = "ok"
      PROVE  \/ p.name = "PKCS1v15" /\ setup_encryption_ctx(p) = Settings("PKCS1v15", Nil, Nil, Nil)
             \/ p.name = "OAEP" /\ setup_encryption_ctx(p) = Settings("OAEP", p.hash, Label(p), p.mgf)
  BY <1>1, <1>3 DEF setup_encryption_ctx
<1>4. CASE a.padding.name = "PKCS1v15"
  <2>1. b.padding.name = "PKCS1v15"
    BY <1>2, <1>3, <1>4
  <2>2. QED
    BY <1>4, <2>1, EncryptionArgsAssumption
<1>5. CASE a.padding.name = "OAEP"
  <2>1. b.padding.name = "OAEP"
    BY <1>2, <1>3, <1>5
  <2>2. Settings("OAEP", a.padding.hash, Label(a.padding), a.padding.mgf)
          = Settings("OAEP", b.padding.hash, Label(b.padding), b.padding.mgf)
    BY <1>3, <1>5, <2>1
  <2>3. /\ a.padding.hash = b.padding.hash /\ a.padding.mgf = b.padding.mgf
        /\ Label(a.padding) = Label(b.padding)
    BY <1>2, <2>2
  <2>4. a.padding.label # Nil /\ b.padding.label # Nil
    BY <1>5, <2>1, EncryptionArgsAssumption
  <2>5. a.padding.label = b.padding.label
    BY <2>3, <2>4
  <2>6. /\ a.padding = [name |-> "OAEP", hash |-> a.padding.hash, mgf |-> a.padding.mgf, label |-> a.padding.label]
        /\ b.padding = [name |-> "OAEP", hash |-> b.padding.hash, mgf |-> b.padding.mgf, label |-> b.padding.label]
    BY <1>5, <2>1, EncryptionArgsAssumption
  <2>7. QED
    BY <2>3, <2>5, <2>6
<1>6. QED
  BY <1>3, <1>4, <1>5

LEMMA WhatItEncrypts == KeysInv => DecryptsWhatItEncrypts
<1> DEFINE same == obj.key = made.by.key /\ last.arg.padding = made.arg.padding
<1> SUFFICES ASSUME KeysInv, last.op = "decrypt"
             PROVE  /\ same => last.out = Decrypted(made.arg.plaintext)
                    /\ last.out.error = "ok" /\ ~same =>
                         last.arg.padding.name = "PKCS1v15" /\ last.out = Decrypted(Nil)
  BY Zenon DEF DecryptsWhatItEncrypts
<1> DEFINE ctx == setup_encryption_ctx(made.arg.padding)
           ours == setup_encryption_ctx(last.arg.padding)
           c == made.value
<1>1. /\ made.what = "ciphertext" /\ c.error = "ok" /\ last.arg \in EncryptionArgs
      /\ last.out \in RsaDecrypt(obj.key, c, last.arg.padding)
  BY DEF KeysInv, LastInv
<1>2. made.arg \in EncryptionArgs /\ c = RsaEncrypt(made.by.key, made.arg.plaintext, made.arg.padding)
  BY <1>1 DEF KeysInv, MadeInv
<1>3. \A e : Failed(e).error = e
  BY DEF Failed
<1>4. /\ ctx.error = "ok"
      /\ c = [error |-> "ok", key |-> made.by.key, ctx |-> ctx, plaintext |-> made.arg.plaintext, len |-> KeySize]
  BY <1>1, <1>2, <1>3 DEF RsaEncrypt
<1>5. c.key = made.by.key /\ c.ctx = ctx /\ c.plaintext = made.arg.plaintext /\ c.len = KeySize
  BY <1>4
<1>6. CASE same
  <2>1. ours = ctx
    BY <1>6
  <2>2. RsaDecrypt(obj.key, c, last.arg.padding) = {Decrypted(made.arg.plaintext)}
    BY <1>4, <1>5, <1>6, <2>1 DEF RsaDecrypt
  <2>3. QED
    BY <1>1, <1>6, <2>2
<1>7. CASE ~same /\ last.out.error = "ok"
  <2>1. ours.error = "ok"
    BY <1>1, <1>5, <1>7 DEF RsaDecrypt
  <2>2. ~(c.key = obj.key /\ c.ctx = ours)
    BY <1>1, <1>2, <1>4, <1>5, <1>7, <2>1, EncryptionContext
  <2>3. last.out \in IF ours.padding = "PKCS1v15" THEN {Failed("ValueError"), Decrypted(Nil)}
                     ELSE {Failed("ValueError")}
    BY <1>1, <1>5, <2>1, <2>2 DEF RsaDecrypt
  <2>4. ours.padding = "PKCS1v15" /\ last.out = Decrypted(Nil)
    BY <1>3, <1>7, <2>3
  <2>5. last.arg.padding.name = "PKCS1v15"
    BY <1>3, <2>1, <2>4 DEF setup_encryption_ctx, Settings
  <2>6. QED
    BY <1>7, <2>4, <2>5
<1>8. QED
  BY <1>6, <1>7

-----------------------------------------------------------------------------
(* The theorems about Keys                                                 *)

\* A private key that was written encrypted is read with its password only,
\* by whichever loader: for every key, format, password and build
THEOREM KeysReadableOnlyWithPassword == Spec => []ReadableOnlyWithPassword
<1>1. QED
  BY KeysInvariant, OnlyWithPassword, PTL

\* Some loader reads what pkey_private_bytes or pkey_public_bytes wrote, and no
\* loader returns a key that is not sound and the document's
THEOREM KeysLoadWhatWasWritten == Spec => []LoadsWhatWasWritten
<1>1. KeysInv => LoadsWhatWasWritten
  BY ReadersRoundTrip, LoadersSound DEF LoadsWhatWasWritten
<1>2. QED
  BY <1>1, KeysInvariant, PTL

\* verify accepts what sign made under the same arguments, and nothing else, for
\* every class of keys, padding, hash and salt length
THEOREM KeysVerifyExactlyTheSigned == Spec => []VerifiesExactlyTheSigned
<1>1. KeysInv => VerifiesExactlyTheSigned
  BY WhatItSigns, NothingElse DEF VerifiesExactlyTheSigned
<1>2. QED
  BY <1>1, KeysInvariant, PTL

\* decrypt undoes encrypt with the same key, padding, hash, mask generation and
\* label; otherwise it fails, or returns made-up bytes where PKCS1v15 was asked
\* for, whichever way OpenSSL rejects, and never the plaintext
THEOREM KeysDecryptWhatTheyEncrypt == Spec => []DecryptsWhatItEncrypts
<1>1. QED
  BY KeysInvariant, WhatItEncrypts, PTL

-----------------------------------------------------------------------------
(* Signed documents: from a key, a hash and a padding to an algorithm      *)
(* identifier, and back                                                    *)

\* What compute_signature_algorithm accepts and returns
PssChosen(key, hash, padding, alg) ==
  /\ key.type = "Rsa" /\ padding # Nil /\ padding.name = "PSS"
  /\ hash \in SigningHashes /\ padding.mgf \in SigningHashes \cup {Nil}
  /\ compute_pss_salt_length(hash, padding).error = "ok"
  /\ alg = AlgorithmIdentifier("RsaPss", hash, padding.mgf, compute_pss_salt_length(hash, padding).length)

EdwardsChosen(key, hash, padding, alg) ==
  key.type \in Edwards /\ hash = Nil /\ padding = Nil /\ alg = AlgorithmIdentifier(key.type, Nil, Nil, Nil)

HashedChosen(key, hash, padding, alg) ==
  /\ key.type \in Hashed /\ hash \in SigningHashes /\ ~(key.type = "Dsa" /\ hash \in Sha3)
  /\ padding = Nil \/ (key.type = "Rsa" /\ padding.name = "PKCS1v15")
  /\ alg = AlgorithmIdentifier(key.type, hash, Nil, Nil)

LEMMA ChosenAlgorithm ==
  ASSUME NEW key, NEW hash, NEW padding, PaddingAccepted(key, padding),
         compute_signature_algorithm(key, hash, padding).error = "ok"
  PROVE  \/ PssChosen(key, hash, padding, compute_signature_algorithm(key, hash, padding))
         \/ EdwardsChosen(key, hash, padding, compute_signature_algorithm(key, hash, padding))
         \/ HashedChosen(key, hash, padding, compute_signature_algorithm(key, hash, padding))
<1> DEFINE alg == compute_signature_algorithm(key, hash, padding)
           type == identify_key_type(key)
           known == identify_hash_type(hash)
<1>1. \A e : Failed(e).error = e
  BY DEF Failed
<1>2. \A h : identify_hash_type(h) = "ok" => h \in SigningHashes \cup {Nil}
  BY DEF identify_hash_type
<1>3. alg = IF type = "TypeError" THEN Failed(type)
            ELSE IF known # "ok" THEN Failed(known)
            ELSE IF padding # Nil /\ padding.name = "PSS" THEN PssAlgorithm(hash, padding)
            ELSE IF type \in Edwards
            THEN IF hash = Nil THEN AlgorithmIdentifier(type, Nil, Nil, Nil) ELSE Failed("ValueError")
            ELSE IF hash = Nil THEN Failed("TypeError")
            ELSE IF type = "Dsa" /\ hash \in Sha3 THEN Failed("UnsupportedAlgorithm")
            ELSE AlgorithmIdentifier(type, hash, Nil, Nil)
  BY DEF compute_signature_algorithm
<1>4. type # "TypeError" => type = key.type /\ type \in KeyType
  BY DEF identify_key_type
<1>5. alg.error = "ok"
  OBVIOUS
<1> HIDE DEF alg, type, known
<1>6. type # "TypeError" /\ type = key.type /\ type \in KeyType
  BY <1>1, <1>3, <1>4, <1>5
<1>7. known = "ok" /\ hash \in SigningHashes \cup {Nil}
  BY <1>1, <1>2, <1>3, <1>5, <1>6 DEF known
<1>8. CASE padding # Nil /\ padding.name = "PSS"
  <2> DEFINE salt == compute_pss_salt_length(hash, padding)
             mgf == identify_hash_type(padding.mgf)
  <2>1. alg = IF hash = Nil THEN Failed("TypeError")
              ELSE IF salt.error # "ok" THEN salt
              ELSE IF mgf # "ok" THEN Failed(mgf)
              ELSE AlgorithmIdentifier("RsaPss", hash, padding.mgf, salt.length)
    BY <1>3, <1>6, <1>7, <1>8 DEF PssAlgorithm
  <2> HIDE DEF salt, mgf
  <2>2. /\ hash # Nil /\ salt.error = "ok" /\ mgf = "ok"
        /\ alg = AlgorithmIdentifier("RsaPss", hash, padding.mgf, salt.length)
    BY <1>1, <1>5, <2>1
  <2>3. key.type = "Rsa"
    BY <1>8 DEF PaddingAccepted
  <2>4. PssChosen(key, hash, padding, alg)
    BY <1>2, <1>7, <1>8, <2>2, <2>3 DEF PssChosen, salt, mgf
  <2>5. QED
    BY <2>4 DEF alg
<1>9. CASE ~(padding # Nil /\ padding.name = "PSS") /\ type \in Edwards
  <2>1. hash = Nil /\ alg = AlgorithmIdentifier(type, Nil, Nil, Nil)
    BY <1>1, <1>3, <1>5, <1>6, <1>7, <1>9
  <2>2. padding = Nil
    BY <1>6, <1>9 DEF PaddingAccepted, Edwards
  <2>3. EdwardsChosen(key, hash, padding, alg)
    BY <1>6, <1>9, <2>1, <2>2 DEF EdwardsChosen
  <2>4. QED
    BY <2>3 DEF alg
<1>10. CASE ~(padding # Nil /\ padding.name = "PSS") /\ type \notin Edwards
  <2>1. /\ hash # Nil /\ ~(type = "Dsa" /\ hash \in Sha3)
        /\ alg = AlgorithmIdentifier(type, hash, Nil, Nil)
    BY <1>1, <1>3, <1>5, <1>6, <1>7, <1>10
  <2>2. padding = Nil \/ (key.type = "Rsa" /\ padding.name = "PKCS1v15")
    BY <1>10 DEF PaddingAccepted
  <2>3. HashedChosen(key, hash, padding, alg)
    BY <1>6, <1>7, <1>10, <2>1, <2>2 DEF HashedChosen, KeyType
  <2>4. QED
    BY <2>3 DEF alg
<1>11. QED
  BY <1>8, <1>9, <1>10

LEMMA IdentifierFields ==
  ASSUME NEW scheme, NEW hash, NEW mgf, NEW salt
  PROVE  /\ AlgorithmIdentifier(scheme, hash, mgf, salt).scheme = scheme
         /\ AlgorithmIdentifier(scheme, hash, mgf, salt).hash = hash
         /\ AlgorithmIdentifier(scheme, hash, mgf, salt).mgf = mgf
         /\ AlgorithmIdentifier(scheme, hash, mgf, salt).salt = salt
BY DEF AlgorithmIdentifier

\* RSA signatures of data that is not hashed before
LEMMA RsaAccepts ==
  ASSUME NEW key, NEW hash, NEW padding, NEW data, RsaSign(key, data, padding, Using(hash)).error = "ok",
         NEW k, NEW h, NEW p, NEW d
  PROVE  LET ctx == Signing(padding, hash)
             ours == Verifying(p, h)
             sig == RsaSign(key, data, padding, Using(hash))
         IN  /\ ctx.error = "ok" /\ sig = Signature(key, ctx, Digest(hash, data)) /\ Digest(hash, data) # Nil
             /\ RsaVerify(k, sig, d, p, Using(h)) = "ok" =>
                  ours.error = "ok" /\ OpensslVerifies(k, ours, Digest(h, d), sig)
             /\ ours.error = "ok" /\ Digest(h, d) # Nil /\ OpensslVerifies(k, ours, Digest(h, d), sig) =>
                  RsaVerify(k, sig, d, p, Using(h)) = "ok"
<1> DEFINE ctx == Signing(padding, hash)
           ours == Verifying(p, h)
           sig == RsaSign(key, data, padding, Using(hash))
           b == [data |-> data, padding |-> padding, algorithm |-> Using(hash)]
<1>1. \A x, y : /\ Using(x).hash = x
                /\ calculate_digest_and_algorithm(y, Using(x)) = Digest(x, y)
  <2>1. \A x : ~Using(x).prehashed
    BY DEF Using
  <2>2. \A x : Using(x).hash = x
    BY DEF Using
  <2>3. QED
    BY <2>1, <2>2 DEF calculate_digest_and_algorithm
<1>2. b.data = data /\ b.padding = padding /\ b.algorithm = Using(hash)
  OBVIOUS
<1>3. RsaVerify(k, sig, d, p, Using(h))
        = IF Digest(h, d) = Nil THEN "ValueError"
          ELSE IF ours.error # "ok" THEN ours.error
          ELSE IF OpensslVerifies(k, ours, Digest(h, d), sig) THEN "ok" ELSE "InvalidSignature"
  BY <1>1, Zenon DEF RsaVerify, Verifying
<1> HIDE DEF b, ours
<1>4. /\ Signing(b.padding, b.algorithm.hash).error = "ok"
      /\ calculate_digest_and_algorithm(b.data, b.algorithm) # Nil
      /\ RsaSign(key, b.data, b.padding, b.algorithm)
           = Signature(key, Signing(b.padding, b.algorithm.hash), calculate_digest_and_algorithm(b.data, b.algorithm))
  BY <1>2, RsaSignature
<1>5. ctx.error = "ok" /\ sig = Signature(key, ctx, Digest(hash, data)) /\ Digest(hash, data) # Nil
  BY <1>1, <1>2, <1>4
<1> HIDE DEF sig, ctx
<1>6. /\ RsaVerify(k, sig, d, p, Using(h)) = "ok" =>
           ours.error = "ok" /\ OpensslVerifies(k, ours, Digest(h, d), sig)
      /\ ours.error = "ok" /\ Digest(h, d) # Nil /\ OpensslVerifies(k, ours, Digest(h, d), sig) =>
           RsaVerify(k, sig, d, p, Using(h)) = "ok"
  BY <1>3
<1>7. QED
  BY <1>5, <1>6 DEF sig, ctx, ours

LEMMA DsaDigest ==
  ASSUME NEW key, NEW hash, NEW data, DsaSign(key, data, Using(hash)).error = "ok", NEW k, NEW h, NEW d
  PROVE  /\ DsaSign(key, data, Using(hash)).key = key
         /\ DsaVerify(k, DsaSign(key, data, Using(hash)), d, Using(h)) = "ok" =>
              k = key /\ d = data /\ h = hash
         /\ DsaVerify(key, DsaSign(key, data, Using(hash)), data, Using(hash)) = "ok"
<1>1. \A x, y : calculate_digest_and_algorithm(y, Using(x)) = Digest(x, y)
  <2>1. \A x : ~Using(x).prehashed
    BY DEF Using
  <2>2. \A x : Using(x).hash = x
    BY DEF Using
  <2>3. QED
    BY <2>1, <2>2 DEF calculate_digest_and_algorithm
<1>2. \A e : Failed(e).error = e
  BY DEF Failed
<1>3. Digest(hash, data) # Nil /\ DsaSign(key, data, Using(hash)) = Signature(key, Plain(Nil), Digest(hash, data))
  BY <1>1, <1>2 DEF DsaSign
<1>4. \A x, y : Digest(x, y).hash = x /\ Digest(x, y).of = y
  BY DEF Digest
<1> DEFINE sig == Signature(key, Plain(Nil), Digest(hash, data))
<1>5. ASSUME NEW x, NEW y, NEW z
      PROVE  /\ DsaVerify(x, sig, y, Using(z)) = "ok" => x = key /\ Digest(z, y) = Digest(hash, data)
             /\ x = key /\ Digest(z, y) = Digest(hash, data) => DsaVerify(x, sig, y, Using(z)) = "ok"
  BY <1>1, <1>3, PlainVerifies DEF DsaVerify
<1>6. sig.key = key
  BY SignatureFields
<1> HIDE DEF sig
<1>7. /\ DsaVerify(k, sig, d, Using(h)) = "ok" => k = key /\ d = data /\ h = hash
      /\ DsaVerify(key, sig, data, Using(hash)) = "ok"
  BY <1>4, <1>5
<1>8. QED
  BY <1>3, <1>6, <1>7 DEF sig

\* The calls that verify_signature_with_signature_algorithm makes
PssOf(a) == [name |-> "PSS", salt |-> a.salt, mgf |-> a.mgf]

VerifyCall(k, a, sig, d) ==
  \/ k.type \in Edwards /\ a.scheme = k.type /\ EdVerify(k, sig, d) = "ok"
  \/ k.type = "Ec" /\ a.scheme = "Ec" /\ EcVerify(k, sig, d, "ECDSA", Using(a.hash)) = "ok"
  \/ k.type = "Rsa" /\ a.scheme = "Rsa" /\ RsaVerify(k, sig, d, PKCS1v15, Using(a.hash)) = "ok"
  \/ k.type = "Rsa" /\ a.scheme = "RsaPss" /\ RsaVerify(k, sig, d, PssOf(a), Using(a.hash)) = "ok"
  \/ k.type = "Dsa" /\ a.scheme = "Dsa" /\ DsaVerify(k, sig, d, Using(a.hash)) = "ok"

LEMMA VerifyCalls ==
  ASSUME NEW k, NEW a, NEW sig, NEW d, verify_signature_with_signature_algorithm(k, a, sig, d) = "ok"
  PROVE  VerifyCall(k, a, sig, d)
<1> DEFINE type == identify_key_type(k)
           padding == identify_signature_algorithm_parameters(a)
           hash == identify_signature_hash_algorithm(a)
           call == CASE type \in Edwards -> EdVerify(k, sig, d)
                     [] type = "Ec" -> EcVerify(k, sig, d, padding.name, Using(padding.hash))
                     [] type = "Rsa" -> RsaVerify(k, sig, d, padding, Using(hash))
                     [] type = "Dsa" -> DsaVerify(k, sig, d, Using(hash))
<1>1. verify_signature_with_signature_algorithm(k, a, sig, d)
        = IF type = "TypeError" THEN type
          ELSE IF identify_key_type_for_algorithm_params(a) # type THEN "ValueError"
          ELSE IF padding.name \in Errors THEN padding.name
          ELSE IF hash \in Errors THEN hash
          ELSE call
  BY DEF verify_signature_with_signature_algorithm
<1>2. "ok" \notin Errors
  BY DEF Errors
<1> HIDE DEF call
<1>3. /\ type # "TypeError" /\ identify_key_type_for_algorithm_params(a) = type
      /\ padding.name \notin Errors /\ hash \notin Errors /\ call = "ok"
  <2> HIDE DEF type, padding, hash
  <2>1. QED
    BY <1>1, <1>2
<1>4. type = k.type /\ k.type \in KeyType
  BY <1>3 DEF identify_key_type
<1>5. /\ a.scheme \in KeyType \cup {"RsaPss"}
      /\ k.type = IF a.scheme = "RsaPss" THEN "Rsa" ELSE a.scheme
  <2>1. "ValueError" \notin KeyType
    BY DEF KeyType, Hashed, Edwards
  <2>2. QED
    BY <1>3, <1>4, <2>1 DEF identify_key_type_for_algorithm_params, KeyType
<1>6. hash = a.hash
  BY <1>3, <1>5 DEF identify_signature_hash_algorithm, SIG_OIDS_TO_HASH, hash_oid_py_hash, Errors
<1>7. CASE type \in Edwards
  <2>1. a.scheme = k.type
    BY <1>4, <1>5, <1>7 DEF Edwards
  <2>2. call = EdVerify(k, sig, d)
    BY <1>7 DEF call, Edwards
  <2>3. QED
    BY <1>3, <1>4, <1>7, <2>1, <2>2 DEF VerifyCall
<1>8. CASE type = "Ec"
  <2>1. a.scheme = "Ec"
    BY <1>4, <1>5, <1>8
  <2>2. padding.name = "ECDSA" /\ padding.hash = a.hash
    BY <2>1 DEF identify_signature_algorithm_parameters
  <2> HIDE DEF type, padding, hash
  <2>3. call = EcVerify(k, sig, d, padding.name, Using(padding.hash))
    BY <1>8 DEF call, Edwards
  <2>4. QED
    BY <1>3, <1>4, <1>8, <2>1, <2>2, <2>3 DEF VerifyCall
<1>9. CASE type = "Rsa"
  <2>1. call = RsaVerify(k, sig, d, padding, Using(hash))
    <3> HIDE DEF type, padding, hash
    <3>1. QED
      BY <1>9 DEF call, Edwards
  <2>2. CASE a.scheme = "Rsa"
    <3>1. padding = PKCS1v15
      BY <2>2 DEF identify_signature_algorithm_parameters
    <3> HIDE DEF type, padding, hash
    <3>2. QED
      BY <1>3, <1>4, <1>6, <1>9, <2>1, <2>2, <3>1 DEF VerifyCall
  <2>3. CASE a.scheme = "RsaPss"
    <3>1. padding = PssOf(a)
      BY <1>3, <2>3 DEF identify_signature_algorithm_parameters, Errors, PssOf
    <3> HIDE DEF type, padding, hash
    <3>2. QED
      BY <1>3, <1>4, <1>6, <1>9, <2>1, <2>3, <3>1 DEF VerifyCall
  <2>4. QED
    BY <1>4, <1>5, <1>9, <2>2, <2>3
<1>10. CASE type = "Dsa"
  <2>1. a.scheme = "Dsa"
    BY <1>4, <1>5, <1>10
  <2> HIDE DEF type, padding, hash
  <2>2. call = DsaVerify(k, sig, d, Using(hash))
    BY <1>10 DEF call, Edwards
  <2>3. QED
    BY <1>3, <1>4, <1>6, <1>10, <2>1, <2>2 DEF VerifyCall
<1>11. QED
  BY <1>4, <1>7, <1>8, <1>9, <1>10 DEF KeyType, Hashed

\* The salt length of an identifier is the one that OpenSSL uses
LEMMA SaltOfIdentifier ==
  ASSUME NEW hash \in SigningHashes, NEW padding, padding.name = "PSS",
         padding.salt \in {AutoLength, MaxLength, DigestLength} \/ padding.salt \in Nat,
         compute_pss_salt_length(hash, padding).error = "ok", Signing(padding, hash).error = "ok"
  PROVE  /\ compute_pss_salt_length(hash, padding).length = SaltLength(Signing(padding, hash))
         /\ compute_pss_salt_length(hash, padding).length \in Int
<1> DEFINE ctx == Signing(padding, hash)
           r == compute_pss_salt_length(hash, padding)
<1>1. ctx.hash = hash /\ ctx.salt = padding.salt
  BY ContextsByUse
<1>2. DigestSize[hash] \in Nat
  BY SignaturesAssumption, SignatureAlgorithmsAssumption
<1>3. EmLen \in Int
  BY SignaturesAssumption DEF EmLen
<1>4. \A e : Failed(e).error = e
  BY DEF Failed
<1>5. \A n : Salt(n).length = n
  BY DEF Salt
<1> HIDE DEF ctx
<1>6. CASE padding.salt = MaxLength
  <2>1. ~(EmLen < DigestSize[hash] + 2) /\ r = Salt(EmLen - DigestSize[hash] - 2)
    BY <1>4, <1>6 DEF compute_pss_salt_length
  <2>2. SaltLength(ctx) = EmLen - DigestSize[hash] - 2
    BY <1>1, <1>6, <2>1 DEF SaltLength
  <2>3. r.length = EmLen - DigestSize[hash] - 2
    BY <1>5, <2>1
  <2>4. QED
    BY <1>2, <1>3, <2>2, <2>3 DEF ctx
<1>7. CASE padding.salt # MaxLength /\ padding.salt = DigestLength
  <2>1. r = Salt(DigestSize[hash]) /\ SaltLength(ctx) = DigestSize[hash]
    BY <1>1, <1>7 DEF compute_pss_salt_length, SaltLength
  <2>2. QED
    BY <1>2, <1>5, <2>1 DEF ctx
<1>8. CASE padding.salt # MaxLength /\ padding.salt # DigestLength
  <2>1. padding.salt # AutoLength
    BY <1>4, <1>8 DEF compute_pss_salt_length
  <2>2. r = Salt(padding.salt) /\ SaltLength(ctx) = padding.salt
    BY <1>1, <1>8, <2>1 DEF compute_pss_salt_length, SaltLength
  <2>3. QED
    BY <1>5, <1>8, <2>1, <2>2 DEF ctx
<1>9. QED
  BY <1>6, <1>7, <1>8

\* A salt length that is a number is that number
LEMMA SaltOfNumber ==
  ASSUME NEW p, NEW h, p.name = "PSS", p.salt \in Int, Verifying(p, h).error = "ok"
  PROVE  Verifying(p, h).salt # AutoLength /\ SaltLength(Verifying(p, h)) = p.salt
<1>1. Verifying(p, h).salt = p.salt
  BY ContextsByUse
<1>2. p.salt \notin {AutoLength, MaxLength, DigestLength}
  BY SignatureAlgorithmsAssumption
<1>3. QED
  BY <1>1, <1>2 DEF SaltLength

\* What the builders' sign() is called with: the padding is one that
\* PaddingAccepted lets through, of a salt length that PSS accepts
SoundSigning(key, hash, padding, data) ==
  /\ PaddingAccepted(key, padding)
  /\ padding # Nil /\ padding.name = "PSS" =>
       padding.salt \in {AutoLength, MaxLength, DigestLength} \/ padding.salt \in Nat
  /\ compute_signature_algorithm(key, hash, padding).error = "ok"
  /\ sign_data(key, hash, padding, data).error = "ok"

RsaPaddingOf(padding) == IF padding = Nil THEN PKCS1v15 ELSE padding

LEMMA SignCalls ==
  ASSUME NEW key, NEW hash, NEW padding, NEW data, key.type \in KeyType
  PROVE  /\ key.type \in Edwards => sign_data(key, hash, padding, data) = EdSign(key, data)
         /\ key.type = "Ec" => sign_data(key, hash, padding, data) = EcSign(key, data, "ECDSA", Using(hash))
         /\ key.type = "Rsa" =>
              sign_data(key, hash, padding, data) = RsaSign(key, data, RsaPaddingOf(padding), Using(hash))
         /\ key.type = "Dsa" => sign_data(key, hash, padding, data) = DsaSign(key, data, Using(hash))
BY DEF sign_data, RsaPaddingOf, Edwards

\* An identifier that parses, or one that sign() made
Parsed(a) ==
  /\ a = AlgorithmIdentifier(a.scheme, a.hash, a.mgf, a.salt)
  /\ IF a.scheme = "RsaPss" THEN a.salt \in Int ELSE a.mgf = Nil /\ a.salt = Nil
  /\ a.scheme \in Edwards => a.hash = Nil

LEMMA DistinctSchemes ==
  /\ KeyType = {"Rsa", "Dsa", "Ec", "Ed25519", "Ed448"} /\ Edwards = {"Ed25519", "Ed448"}
  /\ Hashed = {"Rsa", "Dsa", "Ec"}
BY DEF KeyType, Hashed, Edwards

\* OpenSSL verifies with the key of the signature only
LEMMA VerifiesWithItsKey ==
  ASSUME NEW k, NEW a, NEW sig, NEW d, VerifyCall(k, a, sig, d)
  PROVE  k = sig.key
<1>1. ASSUME NEW p, NEW algorithm, RsaVerify(k, sig, d, p, algorithm) = "ok" PROVE k = sig.key
  <2> DEFINE ours == Verifying(p, algorithm.hash)
             theirs == calculate_digest_and_algorithm(d, algorithm)
  <2>1. RsaVerify(k, sig, d, p, algorithm)
          = IF theirs = Nil THEN "ValueError"
            ELSE IF ours.error # "ok" THEN ours.error
            ELSE IF OpensslVerifies(k, ours, theirs, sig) THEN "ok" ELSE "InvalidSignature"
    BY Zenon DEF RsaVerify, Verifying
  <2> HIDE DEF ours, theirs
  <2>2. QED
    BY <1>1, <2>1 DEF OpensslVerifies
<1>2. ASSUME NEW algorithm, DsaVerify(k, sig, d, algorithm) = "ok" PROVE k = sig.key
  BY <1>2 DEF DsaVerify, OpensslVerifies
<1>3. ASSUME EdVerify(k, sig, d) = "ok" PROVE k = sig.key
  BY <1>3 DEF EdVerify, OpensslVerifies
<1>4. QED
  BY <1>1, <1>2, <1>3, EcIsDsa DEF VerifyCall

LEMMA DsaSignsWithItsKey ==
  ASSUME NEW key, NEW data, NEW algorithm, DsaSign(key, data, algorithm).error = "ok"
  PROVE  DsaSign(key, data, algorithm).key = key
<1>1. \A e : Failed(e).error = e
  BY DEF Failed
<1>2. QED
  BY <1>1, SignatureFields DEF DsaSign

\* The key that sign_data signs with
LEMMA SignsWithItsKey ==
  ASSUME NEW key, NEW hash, NEW padding, NEW data, key.type \in KeyType,
         sign_data(key, hash, padding, data).error = "ok"
  PROVE  sign_data(key, hash, padding, data).key = key
<1> DEFINE sig == sign_data(key, hash, padding, data)
<1>1. CASE key.type \in Edwards
  BY <1>1, SignCalls, SignatureFields DEF EdSign
<1>2. CASE key.type = "Ec"
  BY <1>2, SignCalls, EcIsDsa, DsaSignsWithItsKey
<1>3. CASE key.type = "Rsa"
  <2>1. sig = RsaSign(key, data, RsaPaddingOf(padding), Using(hash))
    BY <1>3, SignCalls
  <2>2. sig = Signature(key, Signing(RsaPaddingOf(padding), hash), Digest(hash, data))
    BY <2>1, RsaAccepts
  <2>3. QED
    BY <2>2, SignatureFields
<1>4. CASE key.type = "Dsa"
  BY <1>4, SignCalls, DsaSignsWithItsKey
<1>5. QED
  BY <1>1, <1>2, <1>3, <1>4, DistinctSchemes

\* A signature verifies with the key that made it, on the data that it was made
\* of, under the identifier that was computed for it
LEMMA VerifiedData ==
  ASSUME NEW key, NEW hash, NEW padding, NEW data, SoundSigning(key, hash, padding, data),
         NEW k, NEW a, NEW d,
         verify_signature_with_signature_algorithm(k, a, sign_data(key, hash, padding, data), d) = "ok"
  PROVE  /\ k = key /\ d = data
         /\ Parsed(a) => a = compute_signature_algorithm(key, hash, padding)
<1> DEFINE sig == sign_data(key, hash, padding, data)
           alg == compute_signature_algorithm(key, hash, padding)
<1>1. /\ PaddingAccepted(key, padding) /\ alg.error = "ok" /\ sig.error = "ok"
      /\ padding # Nil /\ padding.name = "PSS" =>
           padding.salt \in {AutoLength, MaxLength, DigestLength} \/ padding.salt \in Nat
  BY DEF SoundSigning
<1>2. \/ PssChosen(key, hash, padding, alg) \/ EdwardsChosen(key, hash, padding, alg)
      \/ HashedChosen(key, hash, padding, alg)
  BY <1>1, ChosenAlgorithm
<1>3. key.type \in KeyType
  BY <1>2, DistinctSchemes DEF PssChosen, EdwardsChosen, HashedChosen
<1>4. VerifyCall(k, a, sig, d)
  BY VerifyCalls
<1>5. k = key
  BY <1>1, <1>3, <1>4, VerifiesWithItsKey, SignsWithItsKey
<1>6. /\ key.type \in Edwards => sig = EdSign(key, data)
      /\ key.type = "Ec" => sig = EcSign(key, data, "ECDSA", Using(hash))
      /\ key.type = "Rsa" => sig = RsaSign(key, data, RsaPaddingOf(padding), Using(hash))
      /\ key.type = "Dsa" => sig = DsaSign(key, data, Using(hash))
  BY <1>3, SignCalls
<1> HIDE DEF sig, alg
<1>7. CASE key.type \in Edwards
  <2>1. EdVerify(key, sig, d) = "ok" /\ a.scheme = key.type
    BY <1>4, <1>5, <1>7, DistinctSchemes DEF VerifyCall
  <2>2. d = data
    BY <1>6, <1>7, <2>1, PlainVerifies DEF EdVerify, EdSign
  <2>3. alg = AlgorithmIdentifier(key.type, Nil, Nil, Nil)
    BY <1>2, <1>7, DistinctSchemes DEF PssChosen, EdwardsChosen, HashedChosen
  <2>4. Parsed(a) => a = AlgorithmIdentifier(key.type, Nil, Nil, Nil)
    BY <1>7, <2>1, DistinctSchemes DEF Parsed
  <2>5. QED
    BY <1>5, <2>2, <2>3, <2>4 DEF alg
<1>8. CASE key.type \in {"Ec", "Dsa"}
  <2>1. DsaVerify(key, sig, d, Using(a.hash)) = "ok" /\ a.scheme = key.type
    BY <1>4, <1>5, <1>8, EcIsDsa, DistinctSchemes DEF VerifyCall
  <2>2. sig = DsaSign(key, data, Using(hash))
    BY <1>1, <1>6, <1>8, EcIsDsa DEF sig
  <2>3. d = data /\ a.hash = hash
    BY <1>1, <2>1, <2>2, DsaDigest DEF sig
  <2>4. alg = AlgorithmIdentifier(key.type, hash, Nil, Nil)
    BY <1>2, <1>8, DistinctSchemes DEF PssChosen, EdwardsChosen, HashedChosen
  <2>5. Parsed(a) => a = AlgorithmIdentifier(key.type, hash, Nil, Nil)
    BY <1>8, <2>1, <2>3, DistinctSchemes DEF Parsed
  <2>6. QED
    BY <1>5, <2>3, <2>4, <2>5 DEF alg
<1>9. CASE key.type = "Rsa"
  <2> DEFINE p == IF a.scheme = "Rsa" THEN PKCS1v15 ELSE PssOf(a)
             q == RsaPaddingOf(padding)
             ctx == Signing(q, hash)
             ours == Verifying(p, a.hash)
  <2>1. /\ a.scheme \in {"Rsa", "RsaPss"} /\ RsaVerify(key, sig, d, p, Using(a.hash)) = "ok"
    BY <1>4, <1>5, <1>9, DistinctSchemes DEF VerifyCall
  <2>2. sig = RsaSign(key, data, q, Using(hash))
    BY <1>6, <1>9
  <2>3. sig.error = "ok"
    BY <1>1 DEF sig
  <2> HIDE DEF p, q
  <2>4. /\ ctx.error = "ok" /\ sig = Signature(key, ctx, Digest(hash, data))
        /\ ours.error = "ok" /\ OpensslVerifies(key, ours, Digest(a.hash, d), sig)
    BY <2>1, <2>2, <2>3, RsaAccepts
  <2>5. /\ sig.digest = Digest(hash, data) /\ sig.padding = ctx.padding /\ sig.mgf = ctx.mgf
        /\ sig.salt = IF ctx.padding = "PSS" THEN SaltLength(ctx) ELSE Nil
    BY <2>4, SignatureFields
  <2>6. /\ Digest(hash, data) = Digest(a.hash, d) /\ ours.padding = ctx.padding /\ ours.mgf = ctx.mgf
        /\ ours.padding = "PSS" /\ ours.salt # AutoLength => SaltLength(ctx) = SaltLength(ours)
    BY <2>4, <2>5 DEF OpensslVerifies
  <2>7. a.hash = hash /\ d = data
    BY <2>6 DEF Digest
  <2>8. /\ ctx.padding = q.name /\ (q.name = "PSS" => ctx.mgf = q.mgf)
        /\ ours.padding = p.name /\ (p.name = "PSS" => ours.mgf = p.mgf)
    BY <2>4, ContextsByUse
  <2> HIDE DEF ctx, ours
  <2>9. CASE padding # Nil /\ padding.name = "PSS"
    <3>1. q = padding
      BY <2>9 DEF q, RsaPaddingOf
    <3>2. PssChosen(key, hash, padding, alg)
      BY <1>2, <1>9, <2>9, DistinctSchemes DEF EdwardsChosen, HashedChosen
    <3>3. p.name = "PSS" /\ ours.mgf = padding.mgf
      BY <2>6, <2>8, <2>9, <3>1
    <3>4. a.scheme = "RsaPss" /\ p = PssOf(a)
      BY <2>1, <3>3 DEF p, PKCS1v15
    <3>5. p.salt = a.salt /\ p.mgf = a.mgf
      BY <3>4 DEF PssOf
    <3>6. a.mgf = padding.mgf
      BY <2>8, <3>3, <3>5
    <3>7. ASSUME Parsed(a) PROVE a.salt = compute_pss_salt_length(hash, padding).length
      <4>1. a.salt \in Int
        BY <3>4, <3>7 DEF Parsed
      <4>2. ours.salt # AutoLength /\ SaltLength(ours) = a.salt
        BY <2>4, <3>3, <3>5, <4>1, SaltOfNumber DEF ours
      <4>3. SaltLength(ctx) = a.salt
        BY <2>6, <2>8, <3>3, <4>2
      <4>4. compute_pss_salt_length(hash, padding).length = SaltLength(Signing(padding, hash))
        BY <1>1, <2>4, <2>9, <3>1, <3>2, SaltOfIdentifier DEF PssChosen, ctx
      <4>5. QED
        BY <3>1, <4>3, <4>4 DEF ctx
    <3>8. ASSUME Parsed(a) PROVE a = alg
      <4>1. a = AlgorithmIdentifier("RsaPss", hash, padding.mgf, compute_pss_salt_length(hash, padding).length)
        BY <2>7, <3>4, <3>6, <3>7, <3>8 DEF Parsed
      <4>2. QED
        BY <3>2, <4>1 DEF PssChosen
    <3>9. QED
      BY <1>5, <2>7, <3>8 DEF alg
  <2>10. CASE ~(padding # Nil /\ padding.name = "PSS")
    <3>1. HashedChosen(key, hash, padding, alg)
      BY <1>2, <1>9, <2>10, DistinctSchemes DEF PssChosen, EdwardsChosen
    <3>2. q.name = "PKCS1v15"
      BY <3>1 DEF q, RsaPaddingOf, HashedChosen, PKCS1v15
    <3>3. a.scheme = "Rsa"
      BY <2>1, <2>6, <2>8, <3>2 DEF p, PssOf
    <3>4. Parsed(a) => a = AlgorithmIdentifier("Rsa", hash, Nil, Nil)
      BY <2>7, <3>3 DEF Parsed
    <3>5. alg = AlgorithmIdentifier("Rsa", hash, Nil, Nil)
      BY <1>9, <3>1 DEF HashedChosen
    <3>6. QED
      BY <1>5, <2>7, <3>4, <3>5 DEF alg
  <2>11. QED
    BY <2>9, <2>10
<1>10. QED
  BY <1>3, <1>7, <1>8, <1>9, DistinctSchemes

LEMMA RsaV15Verifies ==
  ASSUME NEW key, NEW hash, NEW q, q.name = "PKCS1v15", NEW data,
         RsaSign(key, data, q, Using(hash)).error = "ok"
  PROVE  RsaVerify(key, RsaSign(key, data, q, Using(hash)), data, PKCS1v15, Using(hash)) = "ok"
<1> DEFINE ctx == Signing(q, hash)
           ours == Verifying(PKCS1v15, hash)
           sig == RsaSign(key, data, q, Using(hash))
<1>1. ctx.error = "ok" /\ sig = Signature(key, ctx, Digest(hash, data)) /\ Digest(hash, data) # Nil
  BY RsaAccepts
<1>2. PKCS1v15.name = "PKCS1v15"
  BY DEF PKCS1v15
<1>3. ours.error = "ok"
  BY <1>2 DEF Verifying, setup_signature_ctx, Settings
<1>4. /\ ctx.padding = "PKCS1v15" /\ ctx.hash = hash /\ ctx.mgf = Nil
      /\ ours.padding = "PKCS1v15" /\ ours.hash = hash /\ ours.mgf = Nil
  BY <1>1, <1>2, <1>3, ContextsByUse
<1>5. /\ sig.error = "ok" /\ sig.key = key /\ sig.digest = Digest(hash, data)
      /\ sig.padding = ctx.padding /\ sig.hash = ctx.hash /\ sig.mgf = ctx.mgf
  BY <1>1, SignatureFields
<1> HIDE DEF ctx, ours, sig
<1>6. OpensslVerifies(key, ours, Digest(hash, data), sig)
  BY <1>4, <1>5 DEF OpensslVerifies
<1>7. QED
  BY <1>1, <1>3, <1>6, RsaAccepts DEF ours, sig

LEMMA RsaPssVerifies ==
  ASSUME NEW key, NEW hash, NEW q, q.name = "PSS", NEW data,
         RsaSign(key, data, q, Using(hash)).error = "ok",
         NEW p, p.name = "PSS", p.mgf = q.mgf, p.salt = SaltLength(Signing(q, hash)), p.salt \in Int
  PROVE  RsaVerify(key, RsaSign(key, data, q, Using(hash)), data, p, Using(hash)) = "ok"
<1> DEFINE ctx == Signing(q, hash)
           ours == Verifying(p, hash)
           sig == RsaSign(key, data, q, Using(hash))
<1>1. ctx.error = "ok" /\ sig = Signature(key, ctx, Digest(hash, data)) /\ Digest(hash, data) # Nil
  BY RsaAccepts
<1>2. ours.error = "ok"
  BY <1>1, ContextForVerifying
<1>3. /\ ctx.padding = "PSS" /\ ctx.hash = hash /\ ctx.mgf = q.mgf
      /\ ours.padding = "PSS" /\ ours.hash = hash /\ ours.mgf = q.mgf
  BY <1>1, <1>2, ContextsByUse
<1>4. SaltLength(ours) = p.salt
  BY <1>2, SaltOfNumber
<1>5. /\ sig.error = "ok" /\ sig.key = key /\ sig.digest = Digest(hash, data)
      /\ sig.padding = ctx.padding /\ sig.hash = ctx.hash /\ sig.mgf = ctx.mgf
  BY <1>1, SignatureFields
<1>6. sig.salt = SaltLength(ctx)
  BY <1>1, <1>3, SignatureFields
<1> HIDE DEF ctx, ours, sig
<1>7. OpensslVerifies(key, ours, Digest(hash, data), sig)
  BY <1>3, <1>4, <1>5, <1>6 DEF OpensslVerifies, ctx
<1>8. QED
  BY <1>1, <1>2, <1>7, RsaAccepts DEF ours, sig

\* The arguments that verify() gets from an identifier
LEMMA VerifyResult ==
  ASSUME NEW k, NEW a, NEW sig, NEW d, k.type \in KeyType,
         identify_key_type_for_algorithm_params(a) = k.type,
         identify_signature_algorithm_parameters(a).name \notin Errors,
         identify_signature_hash_algorithm(a) \notin Errors
  PROVE  LET padding == identify_signature_algorithm_parameters(a)
             hash == identify_signature_hash_algorithm(a)
             r == verify_signature_with_signature_algorithm(k, a, sig, d)
         IN  /\ k.type \in Edwards => r = EdVerify(k, sig, d)
             /\ k.type = "Ec" => r = EcVerify(k, sig, d, padding.name, Using(padding.hash))
             /\ k.type = "Rsa" => r = RsaVerify(k, sig, d, padding, Using(hash))
             /\ k.type = "Dsa" => r = DsaVerify(k, sig, d, Using(hash))
<1> DEFINE padding == identify_signature_algorithm_parameters(a)
           hash == identify_signature_hash_algorithm(a)
           r == verify_signature_with_signature_algorithm(k, a, sig, d)
<1>1. identify_key_type(k) = k.type /\ k.type # "TypeError"
  BY DistinctSchemes DEF identify_key_type
<1>2. r = CASE k.type \in Edwards -> EdVerify(k, sig, d)
            [] k.type = "Ec" -> EcVerify(k, sig, d, padding.name, Using(padding.hash))
            [] k.type = "Rsa" -> RsaVerify(k, sig, d, padding, Using(hash))
            [] k.type = "Dsa" -> DsaVerify(k, sig, d, Using(hash))
  BY <1>1 DEF verify_signature_with_signature_algorithm
<1> HIDE DEF padding, hash, r
<1>3. /\ k.type \in Edwards => r = EdVerify(k, sig, d)
      /\ k.type = "Ec" => r = EcVerify(k, sig, d, padding.name, Using(padding.hash))
      /\ k.type = "Rsa" => r = RsaVerify(k, sig, d, padding, Using(hash))
      /\ k.type = "Dsa" => r = DsaVerify(k, sig, d, Using(hash))
  BY <1>2, DistinctSchemes
<1>4. QED
  BY <1>3 DEF padding, hash, r

\* The way from the arguments of sign() to an identifier and back again
LEMMA SignedDataVerifies ==
  ASSUME NEW key, NEW hash, NEW padding, NEW data, SoundSigning(key, hash, padding, data)
  PROVE  LET alg == compute_signature_algorithm(key, hash, padding)
         IN  \/ verify_signature_with_signature_algorithm(key, alg, sign_data(key, hash, padding, data), data) = "ok"
             \/ key.type = "Dsa" /\ SIG_OIDS_TO_HASH(alg) = "UnsupportedAlgorithm"
<1> DEFINE sig == sign_data(key, hash, padding, data)
           alg == compute_signature_algorithm(key, hash, padding)
<1>1. /\ PaddingAccepted(key, padding) /\ alg.error = "ok" /\ sig.error = "ok"
      /\ padding # Nil /\ padding.name = "PSS" =>
           padding.salt \in {AutoLength, MaxLength, DigestLength} \/ padding.salt \in Nat
  BY DEF SoundSigning
<1>2. \/ PssChosen(key, hash, padding, alg) \/ EdwardsChosen(key, hash, padding, alg)
      \/ HashedChosen(key, hash, padding, alg)
  BY <1>1, ChosenAlgorithm
<1>3. key.type \in KeyType
  BY <1>2, DistinctSchemes DEF PssChosen, EdwardsChosen, HashedChosen
<1>4. /\ key.type \in Edwards => sig = EdSign(key, data)
      /\ key.type = "Ec" => sig = EcSign(key, data, "ECDSA", Using(hash))
      /\ key.type = "Rsa" => sig = RsaSign(key, data, RsaPaddingOf(padding), Using(hash))
      /\ key.type = "Dsa" => sig = DsaSign(key, data, Using(hash))
  BY <1>3, SignCalls
<1>5. /\ \A h \in SigningHashes : h \in DOMAIN DigestSize /\ h \notin Errors
      /\ Nil \notin Errors
  BY SignatureAlgorithmsAssumption
<1> HIDE DEF sig, alg
<1>6. CASE EdwardsChosen(key, hash, padding, alg)
  <2>1. key.type \in Edwards /\ alg.scheme = key.type /\ alg.hash = Nil
    BY <1>6, IdentifierFields DEF EdwardsChosen
  <2>2. identify_key_type_for_algorithm_params(alg) = key.type
    BY <2>1, DistinctSchemes DEF identify_key_type_for_algorithm_params
  <2>3. identify_signature_algorithm_parameters(alg).name \notin Errors
    BY <2>1, DistinctSchemes DEF identify_signature_algorithm_parameters, Errors
  <2>4. identify_signature_hash_algorithm(alg) \notin Errors
    BY <1>5, <2>1, DistinctSchemes DEF identify_signature_hash_algorithm, SIG_OIDS_TO_HASH
  <2>5. verify_signature_with_signature_algorithm(key, alg, sig, data) = EdVerify(key, sig, data)
    BY <1>3, <2>1, <2>2, <2>3, <2>4, VerifyResult
  <2>6. EdVerify(key, sig, data) = "ok"
    BY <1>4, <2>1, PlainVerifies DEF EdVerify, EdSign
  <2>7. QED
    BY <2>5, <2>6 DEF sig, alg
<1>7. CASE HashedChosen(key, hash, padding, alg) /\ SIG_OIDS_TO_HASH(alg) # "UnsupportedAlgorithm"
  <2>1. /\ key.type \in Hashed /\ alg.scheme = key.type /\ alg.hash = hash
        /\ hash \in SigningHashes /\ ~(key.type = "Dsa" /\ hash \in Sha3)
        /\ padding = Nil \/ (key.type = "Rsa" /\ padding.name = "PKCS1v15")
    BY <1>7, IdentifierFields DEF HashedChosen
  <2>2. identify_key_type_for_algorithm_params(alg) = key.type
    BY <2>1, DistinctSchemes DEF identify_key_type_for_algorithm_params
  <2>3. identify_signature_algorithm_parameters(alg).name \notin Errors
    BY <2>1, DistinctSchemes DEF identify_signature_algorithm_parameters, Errors, PKCS1v15
  <2>4. identify_signature_hash_algorithm(alg) = hash /\ hash \notin Errors
    BY <1>5, <1>7, <2>1, DistinctSchemes DEF identify_signature_hash_algorithm, SIG_OIDS_TO_HASH
  <2>5. CASE key.type = "Dsa"
    <3>1. verify_signature_with_signature_algorithm(key, alg, sig, data) = DsaVerify(key, sig, data, Using(hash))
      BY <1>3, <2>2, <2>3, <2>4, <2>5, VerifyResult
    <3>2. DsaVerify(key, sig, data, Using(hash)) = "ok"
      BY <1>1, <1>4, <2>5, DsaDigest DEF sig
    <3>3. QED
      BY <3>1, <3>2 DEF sig, alg
  <2>6. CASE key.type = "Ec"
    <3>1. /\ identify_signature_algorithm_parameters(alg).name = "ECDSA"
          /\ identify_signature_algorithm_parameters(alg).hash = hash
      BY <2>1, <2>6 DEF identify_signature_algorithm_parameters
    <3>2. verify_signature_with_signature_algorithm(key, alg, sig, data)
            = EcVerify(key, sig, data, "ECDSA", Using(hash))
      BY <1>3, <2>2, <2>3, <2>4, <2>6, <3>1, VerifyResult
    <3>3. sig = DsaSign(key, data, Using(hash)) /\ sig.error = "ok"
      BY <1>1, <1>4, <2>6, EcIsDsa DEF sig
    <3>4. DsaVerify(key, sig, data, Using(hash)) = "ok"
      BY <3>3, DsaDigest
    <3>5. QED
      BY <3>2, <3>4, EcIsDsa DEF sig, alg
  <2>7. CASE key.type = "Rsa"
    <3> DEFINE q == RsaPaddingOf(padding)
    <3>1. identify_signature_algorithm_parameters(alg) = PKCS1v15
      BY <2>1, <2>7 DEF identify_signature_algorithm_parameters
    <3>2. verify_signature_with_signature_algorithm(key, alg, sig, data)
            = RsaVerify(key, sig, data, PKCS1v15, Using(hash))
      BY <1>3, <2>2, <2>3, <2>4, <2>7, <3>1, VerifyResult
    <3>3. q.name = "PKCS1v15"
      BY <2>1 DEF RsaPaddingOf, PKCS1v15
    <3>4. sig = RsaSign(key, data, q, Using(hash)) /\ sig.error = "ok"
      BY <1>1, <1>4, <2>7 DEF sig
    <3> HIDE DEF q
    <3>5. RsaVerify(key, sig, data, PKCS1v15, Using(hash)) = "ok"
      BY <3>3, <3>4, RsaV15Verifies
    <3>6. QED
      BY <3>2, <3>5 DEF sig, alg
  <2>8. QED
    BY <2>1, <2>5, <2>6, <2>7, DistinctSchemes
<1>8. CASE PssChosen(key, hash, padding, alg)
  <2> DEFINE p == PssOf(alg)
  <2>1. /\ key.type = "Rsa" /\ padding # Nil /\ padding.name = "PSS" /\ hash \in SigningHashes
        /\ padding.mgf \in SigningHashes \cup {Nil} /\ compute_pss_salt_length(hash, padding).error = "ok"
        /\ alg.scheme = "RsaPss" /\ alg.hash = hash /\ alg.mgf = padding.mgf
        /\ alg.salt = compute_pss_salt_length(hash, padding).length
    BY <1>8, IdentifierFields DEF PssChosen
  <2>2. sig = RsaSign(key, data, padding, Using(hash)) /\ sig.error = "ok"
    BY <1>1, <1>4, <2>1 DEF sig, RsaPaddingOf
  <2>3. Signing(padding, hash).error = "ok"
    BY <2>2, RsaAccepts
  <2>4. padding.mgf # Nil
    BY <2>1, <2>3 DEF Signing, setup_signature_ctx, Failed
  <2>5. hash # Nil
    BY <2>1, <2>3 DEF Signing, setup_signature_ctx, Failed
  <2>6. identify_signature_algorithm_parameters(alg) = p
    BY <1>5, <2>1, <2>4, <2>5 DEF identify_signature_algorithm_parameters, hash_oid_py_hash, PssOf
  <2>7. p.name = "PSS" /\ p.mgf = padding.mgf /\ p.salt = alg.salt
    BY <2>1 DEF PssOf
  <2>8. identify_signature_hash_algorithm(alg) = hash /\ hash \notin Errors
    BY <1>5, <2>1, <2>5 DEF identify_signature_hash_algorithm, hash_oid_py_hash
  <2>9. identify_key_type_for_algorithm_params(alg) = key.type
    BY <2>1 DEF identify_key_type_for_algorithm_params
  <2>10. "PSS" \notin Errors
    BY DEF Errors
  <2> HIDE DEF p
  <2>11. verify_signature_with_signature_algorithm(key, alg, sig, data) = RsaVerify(key, sig, data, p, Using(hash))
    BY <1>3, <2>1, <2>6, <2>7, <2>8, <2>9, <2>10, VerifyResult
  <2>12. /\ alg.salt = SaltLength(Signing(padding, hash)) /\ alg.salt \in Int
    BY <1>1, <2>1, <2>3, SaltOfIdentifier
  <2>13. RsaVerify(key, sig, data, p, Using(hash)) = "ok"
    BY <2>1, <2>2, <2>7, <2>12, RsaPssVerifies
  <2>14. QED
    BY <2>11, <2>13 DEF sig, alg
<1>9. CASE HashedChosen(key, hash, padding, alg) /\ SIG_OIDS_TO_HASH(alg) = "UnsupportedAlgorithm"
  <2>1. key.type \in Hashed /\ alg.scheme = key.type /\ alg.hash = hash /\ hash \in SigningHashes
    BY <1>9, IdentifierFields DEF HashedChosen
  <2>2. hash # "UnsupportedAlgorithm"
    BY <1>5, <2>1 DEF Errors
  <2>3. key.type = "Dsa"
    BY <1>9, <2>1, <2>2, DistinctSchemes DEF SIG_OIDS_TO_HASH
  <2>4. QED
    BY <1>9, <2>3 DEF alg
<1>10. QED
  BY <1>2, <1>6, <1>7, <1>8, <1>9

-----------------------------------------------------------------------------
(* What the encoders return when they succeed                              *)

LEMMA LeastIndex ==
  ASSUME NEW T \in SUBSET Nat, T # {}
  PROVE  \E n \in T : \A k \in T : n <= k
<1>1. PICK n \in T : \A k \in T : ~(<< k, n >> \in OpToRel(<, Nat))
  BY NatLessThanWellFounded, WFMin, Zenon
<1>2. n \in Nat /\ \A k \in T : k \in Nat /\ ~(k < n)
  BY <1>1 DEF OpToRel
<1>3. QED
  BY <1>2

\* A record is encoded when each of its fields is
LEMMA FieldsOk ==
  ASSUME NEW r, NEW order, DOMAIN order \subseteq Nat, Fields(r, order).error = "ok"
  PROVE  /\ Fields(r, order).v = [f \in DOMAIN r |-> r[f].v]
         /\ \A i \in DOMAIN order : r[order[i]].error = "ok"
<1> DEFINE bad == {i \in DOMAIN order : r[order[i]].error # "ok"}
           first == CHOOSE i \in bad : \A j \in bad : i <= j
<1>1. Fields(r, order) = IF bad = {} THEN Ok([f \in DOMAIN r |-> r[f].v]) ELSE r[order[first]]
  BY DEF Fields
<1>2. CASE bad # {}
  <2>1. \E i \in bad : \A j \in bad : i <= j
    BY <1>2, LeastIndex
  <2>2. first \in bad
    BY <2>1
  <2>3. QED
    BY <1>1, <1>2, <2>2
<1>3. CASE bad = {}
  BY <1>1, <1>3 DEF Ok
<1>4. QED
  BY <1>2, <1>3

LEMMA SignedOk ==
  ASSUME NEW kind, NEW alg, NEW tbs, NEW key, NEW hash, NEW padding,
         Signed(kind, alg, tbs, key, hash, padding).error = "ok"
  PROVE  /\ alg.error = "ok" /\ tbs.error = "ok" /\ sign_data(key, hash, padding, tbs.v).error = "ok"
         /\ Signed(kind, alg, tbs, key, hash, padding).v
              = [kind |-> kind, tbs |-> tbs.v, alg |-> alg, sig |-> sign_data(key, hash, padding, tbs.v)]
BY DEF Signed, Ok, Err

\* The parts of a signed document
Signed4(kind, tbs, alg, sig) == [kind |-> kind, tbs |-> tbs, alg |-> alg, sig |-> sig]

\* A document d that create_x509_* made with the arguments s of sign()
MadeBy(d, s) ==
  /\ SoundSigning(s.key, s.hash, s.padding, d.tbs)
  /\ d.alg = compute_signature_algorithm(s.key, s.hash, s.padding)
  /\ d.sig = sign_data(s.key, s.hash, s.padding, d.tbs)
  /\ d = Signed4(d.kind, d.tbs, d.alg, d.sig)

\* sign() with arguments that the constructor of the padding lets through
SoundArguments(s) ==
  /\ PaddingAccepted(s.key, s.padding)
  /\ s.padding # Nil /\ s.padding.name = "PSS" =>
       s.padding.salt \in {AutoLength, MaxLength, DigestLength} \/ s.padding.salt \in Nat

LEMMA SignedDocument ==
  ASSUME NEW kind, NEW alg, NEW tbs, NEW s, SoundArguments(s),
         alg = compute_signature_algorithm(s.key, s.hash, s.padding),
         Signed(kind, alg, tbs, s.key, s.hash, s.padding).error = "ok"
  PROVE  LET d == Signed(kind, alg, tbs, s.key, s.hash, s.padding).v
         IN  MadeBy(d, s) /\ d.kind = kind /\ d.tbs = tbs.v /\ tbs.error = "ok"
<1> DEFINE d == Signed(kind, alg, tbs, s.key, s.hash, s.padding).v
           sig == sign_data(s.key, s.hash, s.padding, tbs.v)
<1>1. alg.error = "ok" /\ tbs.error = "ok" /\ sig.error = "ok" /\ d = Signed4(kind, tbs.v, alg, sig)
  BY SignedOk DEF Signed4
<1>2. SoundSigning(s.key, s.hash, s.padding, tbs.v)
  BY <1>1 DEF SoundArguments, SoundSigning
<1> HIDE DEF sig, d
<1>3. d.kind = kind /\ d.tbs = tbs.v /\ d.alg = alg /\ d.sig = sig
  BY <1>1 DEF Signed4
<1>4. MadeBy(d, s)
  BY <1>1, <1>2, <1>3 DEF MadeBy, sig
<1>5. QED
  BY <1>1, <1>3, <1>4 DEF d

\* What the builders encode that getters read
CertificateContents(b, tbs) ==
  /\ {"serial", "not_before", "not_after"} \subseteq DOMAIN tbs
  /\ tbs.serial = EncodeUint(b.set.serial_number).v
  /\ tbs.not_before = time_from_py(Naive(b.set.not_valid_before)).v
  /\ tbs.not_after = time_from_py(Naive(b.set.not_valid_after)).v

CrlContents(b, tbs) ==
  /\ {"revoked", "last_update", "next_update"} \subseteq DOMAIN tbs
  /\ b.list = << >> \/ Each(b.list, EncodeRevoked).error = "ok"
  /\ tbs.revoked = IF b.list = << >> THEN Nil ELSE Each(b.list, EncodeRevoked).v
  /\ tbs.last_update = time_from_py(Naive(b.set.last_update)).v
  /\ tbs.next_update = time_from_py(Naive(b.set.next_update)).v

RequestContents(b, tbs) ==
  /\ "attributes" \in DOMAIN tbs /\ Each(b.list, EncodeAttribute).error = "ok"
  /\ tbs.attributes = {Each(b.list, EncodeAttribute).v[i] : i \in DOMAIN Each(b.list, EncodeAttribute).v}

ResponseContents(b, tbs) ==
  /\ "responses" \in DOMAIN tbs /\ Each(<< b.set.response >>, EncodeSingle).error = "ok"
  /\ tbs.responses = Each(<< b.set.response >>, EncodeSingle).v

LEMMA CertificateMade ==
  ASSUME NEW b, NEW s, SoundArguments(s), NEW r, r = create_x509_certificate(b, s.key, s.hash, s.padding),
         r.error = "ok"
  PROVE  /\ MadeBy(r.v, s) /\ r.v.kind = "certificate"
         /\ r.v.tbs.alg = r.v.alg /\ r.v.tbs.issuer = b.set.issuer_name
         /\ CertificateContents(b, r.v.tbs)
<1> DEFINE alg == compute_signature_algorithm(s.key, s.hash, s.padding)
           f == [version |-> Ok(2), alg |-> Ok(alg), spki |-> Ok(b.set.public_key),
                 serial |-> EncodeUint(b.set.serial_number),
                 issuer |-> Ok(b.set.issuer_name), subject |-> Ok(b.set.subject_name),
                 not_before |-> time_from_py(Naive(b.set.not_valid_before)),
                 not_after |-> time_from_py(Naive(b.set.not_valid_after))]
           order == << "serial", "not_before", "not_after" >>
<1> DEFINE tbs == Fields(f, order)
<1>1. r = Signed("certificate", alg, tbs, s.key, s.hash, s.padding)
  BY DEF create_x509_certificate
<1>0. alg = compute_signature_algorithm(s.key, s.hash, s.padding)
  OBVIOUS
<1> HIDE DEF f, order, tbs, alg
<1>2. /\ MadeBy(r.v, s) /\ r.v.kind = "certificate"
      /\ r.v.tbs = tbs.v /\ tbs.error = "ok"
  BY <1>0, <1>1, SignedDocument
<1>3. DOMAIN order \subseteq Nat
  BY DEF order
<1>4. r.v.tbs = [x \in DOMAIN f |-> f[x].v]
  BY <1>2, <1>3, FieldsOk DEF tbs
<1>5. "alg" \in DOMAIN f /\ "issuer" \in DOMAIN f /\ f["alg"] = Ok(alg) /\ f["issuer"] = Ok(b.set.issuer_name)
  BY DEF f
<1>6. r.v.tbs.alg = alg /\ r.v.tbs.issuer = b.set.issuer_name
  BY <1>4, <1>5 DEF Ok
<1>7. /\ {"serial", "not_before", "not_after"} \subseteq DOMAIN f
      /\ f["serial"] = EncodeUint(b.set.serial_number)
      /\ f["not_before"] = time_from_py(Naive(b.set.not_valid_before))
      /\ f["not_after"] = time_from_py(Naive(b.set.not_valid_after))
  BY DEF f
<1>8. CertificateContents(b, r.v.tbs)
  BY <1>4, <1>7 DEF CertificateContents
<1>9. QED
  BY <1>0, <1>2, <1>6, <1>8 DEF MadeBy

LEMMA CrlMade ==
  ASSUME NEW b, NEW s, SoundArguments(s), NEW r, r = create_x509_crl(b, s.key, s.hash, s.padding),
         r.error = "ok"
  PROVE  /\ MadeBy(r.v, s) /\ r.v.kind = "crl" /\ r.v.tbs.alg = r.v.alg
         /\ CrlContents(b, r.v.tbs)
<1> DEFINE alg == compute_signature_algorithm(s.key, s.hash, s.padding)
           f == [version |-> Ok(1), alg |-> Ok(alg), issuer |-> Ok(b.set.issuer_name),
                 revoked |-> IF b.list = << >> THEN Ok(Nil) ELSE Each(b.list, EncodeRevoked),
                 last_update |-> time_from_py(Naive(b.set.last_update)),
                 next_update |-> time_from_py(Naive(b.set.next_update))]
           order == << "revoked", "last_update", "next_update" >>
<1> DEFINE tbs == Fields(f, order)
<1>1. r = Signed("crl", alg, tbs, s.key, s.hash, s.padding)
  BY DEF create_x509_crl
<1>0. alg = compute_signature_algorithm(s.key, s.hash, s.padding)
  OBVIOUS
<1> HIDE DEF f, order, tbs, alg
<1>2. /\ MadeBy(r.v, s) /\ r.v.kind = "crl"
      /\ r.v.tbs = tbs.v /\ tbs.error = "ok"
  BY <1>0, <1>1, SignedDocument
<1>3. DOMAIN order \subseteq Nat /\ 1 \in DOMAIN order /\ order[1] = "revoked"
  BY DEF order
<1>4. r.v.tbs = [x \in DOMAIN f |-> f[x].v] /\ f["revoked"].error = "ok"
  BY <1>2, <1>3, FieldsOk DEF tbs
<1>5. "alg" \in DOMAIN f /\ f["alg"] = Ok(alg)
  BY DEF f
<1>6. r.v.tbs.alg = alg
  BY <1>4, <1>5 DEF Ok
<1>7. /\ {"revoked", "last_update", "next_update"} \subseteq DOMAIN f
      /\ f["revoked"] = IF b.list = << >> THEN Ok(Nil) ELSE Each(b.list, EncodeRevoked)
      /\ f["last_update"] = time_from_py(Naive(b.set.last_update))
      /\ f["next_update"] = time_from_py(Naive(b.set.next_update))
  BY DEF f
<1>8. CrlContents(b, r.v.tbs)
  <2>1. f["revoked"].v = IF b.list = << >> THEN Nil ELSE Each(b.list, EncodeRevoked).v
    BY <1>7 DEF Ok
  <2>2. QED
    BY <1>4, <1>7, <2>1 DEF CrlContents
<1>9. QED
  BY <1>0, <1>2, <1>6, <1>8 DEF MadeBy

LEMMA RequestMade ==
  ASSUME NEW b, NEW s, SoundArguments(s), NEW r, r = create_x509_csr(b, s.key, s.hash, s.padding),
         r.error = "ok"
  PROVE  MadeBy(r.v, s) /\ r.v.kind = "request" /\ r.v.tbs.spki = s.key /\ RequestContents(b, r.v.tbs)
<1> DEFINE alg == compute_signature_algorithm(s.key, s.hash, s.padding)
           attributes == Each(b.list, EncodeAttribute)
           f == [version |-> Ok(0), subject |-> Ok(b.set.subject_name), spki |-> Ok(s.key),
                 attributes |-> IF attributes.error # "ok" THEN attributes
                                ELSE Ok({attributes.v[i] : i \in DOMAIN attributes.v})]
           order == << "attributes" >>
<1> DEFINE tbs == Fields(f, order)
<1>1. r = Signed("request", alg, tbs, s.key, s.hash, s.padding)
  BY DEF create_x509_csr
<1>0. alg = compute_signature_algorithm(s.key, s.hash, s.padding)
  OBVIOUS
<1> HIDE DEF f, order, tbs, alg, attributes
<1>2. /\ MadeBy(r.v, s) /\ r.v.kind = "request"
      /\ r.v.tbs = tbs.v /\ tbs.error = "ok"
  BY <1>0, <1>1, SignedDocument
<1>3. DOMAIN order \subseteq Nat
  BY DEF order
<1>4. r.v.tbs = [x \in DOMAIN f |-> f[x].v] /\ \A i \in DOMAIN order : f[order[i]].error = "ok"
  BY <1>2, <1>3, FieldsOk DEF tbs
<1>5. "spki" \in DOMAIN f /\ f["spki"] = Ok(s.key)
  BY DEF f
<1>6. r.v.tbs.spki = s.key
  BY <1>4, <1>5 DEF Ok
<1>7. /\ "attributes" \in DOMAIN f
      /\ f["attributes"] = IF attributes.error # "ok" THEN attributes
                           ELSE Ok({attributes.v[i] : i \in DOMAIN attributes.v})
  BY DEF f
<1>8. f["attributes"].error = "ok"
  BY <1>4 DEF order
<1>9. attributes.error = "ok" /\ r.v.tbs.attributes = {attributes.v[i] : i \in DOMAIN attributes.v}
  BY <1>4, <1>7, <1>8 DEF Ok
<1>10. RequestContents(b, r.v.tbs)
  BY <1>4, <1>7, <1>9 DEF RequestContents, attributes
<1>11. QED
  BY <1>2, <1>6, <1>10

LEMMA ResponseMade ==
  ASSUME NEW b, NEW s, NEW r, r = create_ocsp_response(b, s.key, s.hash), r.error = "ok"
  PROVE  \E d :
           /\ r.v = SignedResponse(b, d)
           /\ SoundSigning(s.key, s.hash, Nil, d.tbs)
           /\ d.alg = compute_signature_algorithm(s.key, s.hash, Nil)
           /\ d.sig = sign_data(s.key, s.hash, Nil, d.tbs)
           /\ d.tbs.responder = ResponderId(b.set.responder_id) /\ b.set.responder_id.cert.key = s.key
           /\ ResponseContents(b, d.tbs)
<1> DEFINE alg == compute_signature_algorithm(s.key, s.hash, Nil)
           f == [version |-> Ok(0), responder |-> Ok(ResponderId(b.set.responder_id)),
                 responses |-> Each(<< b.set.response >>, EncodeSingle)]
           order == << "responses" >>
           tbs == Fields(f, order)
           n == [key |-> s.key, hash |-> s.hash, padding |-> Nil]
           signed == Signed("ocsp_response", alg, tbs, s.key, s.hash, Nil)
<1>1. r = IF tbs.error # "ok" THEN tbs
          ELSE IF signed.error # "ok" THEN signed
          ELSE IF b.set.responder_id.cert.key # s.key THEN Err("ValueError")
          ELSE Ok(SignedResponse(b, signed.v))
  BY DEF create_ocsp_response
<1>2. n.key = s.key /\ n.hash = s.hash /\ n.padding = Nil
  OBVIOUS
<1> HIDE DEF f, order, tbs, n, alg
<1>3. SoundArguments(n) /\ alg = compute_signature_algorithm(n.key, n.hash, n.padding)
  BY <1>2 DEF SoundArguments, PaddingAccepted, alg
<1>4. signed = Signed("ocsp_response", alg, tbs, n.key, n.hash, n.padding)
  BY <1>2
<1> HIDE DEF signed
<1>5. /\ tbs.error = "ok" /\ signed.error = "ok" /\ b.set.responder_id.cert.key = s.key
      /\ r.v = SignedResponse(b, signed.v)
  BY <1>1 DEF Err, Ok
<1>6. MadeBy(signed.v, n) /\ signed.v.tbs = tbs.v
  <2>1. Signed("ocsp_response", alg, tbs, n.key, n.hash, n.padding).error = "ok"
    BY <1>4, <1>5
  <2>2. /\ MadeBy(Signed("ocsp_response", alg, tbs, n.key, n.hash, n.padding).v, n)
        /\ Signed("ocsp_response", alg, tbs, n.key, n.hash, n.padding).v.tbs = tbs.v
    BY <1>3, <2>1, SignedDocument
  <2>3. QED
    BY <1>4, <2>2
<1>7. DOMAIN order \subseteq Nat
  BY DEF order
<1>8. signed.v.tbs = [x \in DOMAIN f |-> f[x].v] /\ \A i \in DOMAIN order : f[order[i]].error = "ok"
  BY <1>5, <1>6, <1>7, FieldsOk DEF tbs
<1>9. "responder" \in DOMAIN f /\ f["responder"] = Ok(ResponderId(b.set.responder_id))
  BY DEF f
<1>10. signed.v.tbs.responder = ResponderId(b.set.responder_id)
  BY <1>8, <1>9 DEF Ok
<1>11. /\ SoundSigning(s.key, s.hash, Nil, signed.v.tbs)
       /\ signed.v.alg = compute_signature_algorithm(s.key, s.hash, Nil)
       /\ signed.v.sig = sign_data(s.key, s.hash, Nil, signed.v.tbs)
  BY <1>2, <1>6 DEF MadeBy
<1>12. ResponseContents(b, signed.v.tbs)
  <2>1. "responses" \in DOMAIN f /\ f["responses"] = Each(<< b.set.response >>, EncodeSingle)
    BY DEF f
  <2>2. f["responses"].error = "ok"
    BY <1>8 DEF order
  <2>3. QED
    BY <1>8, <2>1, <2>2 DEF ResponseContents
<1>13. QED
  BY <1>5, <1>10, <1>11, <1>12

\* A response that was signed without a padding verifies with the hash that its
\* identifier names
LEMMA ByHandVerifies ==
  ASSUME NEW key, NEW hash, NEW d, SoundSigning(key, hash, Nil, d.tbs),
         d.alg = compute_signature_algorithm(key, hash, Nil), d.sig = sign_data(key, hash, Nil, d.tbs),
         SIG_OIDS_TO_HASH(d.alg) # "UnsupportedAlgorithm"
  PROVE  VerifiesByHand(d, key) = "ok"
<1> DEFINE alg == compute_signature_algorithm(key, hash, Nil)
           sig == sign_data(key, hash, Nil, d.tbs)
<1>1. /\ PaddingAccepted(key, Nil) /\ alg.error = "ok" /\ sig.error = "ok"
  BY DEF SoundSigning
<1>2. EdwardsChosen(key, hash, Nil, alg) \/ HashedChosen(key, hash, Nil, alg)
  BY <1>1, ChosenAlgorithm DEF PssChosen
<1>3. key.type \in KeyType
  BY <1>2, DistinctSchemes DEF EdwardsChosen, HashedChosen
<1>4. /\ key.type \in Edwards => sig = EdSign(key, d.tbs)
      /\ key.type = "Ec" => sig = EcSign(key, d.tbs, "ECDSA", Using(hash))
      /\ key.type = "Rsa" => sig = RsaSign(key, d.tbs, PKCS1v15, Using(hash))
      /\ key.type = "Dsa" => sig = DsaSign(key, d.tbs, Using(hash))
  BY <1>3, SignCalls DEF RsaPaddingOf
<1>5. d.sig = sig /\ d.alg = alg
  OBVIOUS
<1> HIDE DEF sig, alg
<1>6. key.type \in Hashed => OcspHash(d) = hash
  <2>1. SUFFICES ASSUME key.type \in Hashed PROVE OcspHash(d) = hash
    OBVIOUS
  <2>2. alg.scheme = key.type /\ alg.hash = hash
    BY <1>2, <2>1, IdentifierFields, DistinctSchemes DEF EdwardsChosen, HashedChosen
  <2>3. QED
    BY <1>5, <2>2 DEF OcspHash, SIG_OIDS_TO_HASH
<1>7. CASE key.type \in Edwards
  <2>1. EdVerify(key, sig, d.tbs) = "ok"
    BY <1>4, <1>7, PlainVerifies DEF EdVerify, EdSign
  <2>2. VerifiesByHand(d, key) = EdVerify(key, d.sig, d.tbs)
    BY <1>7, DistinctSchemes DEF VerifiesByHand
  <2>3. QED
    BY <1>5, <2>1, <2>2
<1>8. CASE key.type = "Dsa"
  <2>1. DsaVerify(key, sig, d.tbs, Using(hash)) = "ok"
    BY <1>1, <1>4, <1>8, DsaDigest DEF sig
  <2>2. VerifiesByHand(d, key) = DsaVerify(key, d.sig, d.tbs, Using(hash))
    BY <1>6, <1>8, DistinctSchemes DEF VerifiesByHand
  <2>3. QED
    BY <1>5, <2>1, <2>2
<1>9. CASE key.type = "Ec"
  <2>1. sig = DsaSign(key, d.tbs, Using(hash)) /\ sig.error = "ok"
    BY <1>1, <1>4, <1>9, EcIsDsa DEF sig
  <2>2. DsaVerify(key, sig, d.tbs, Using(hash)) = "ok"
    BY <2>1, DsaDigest
  <2>3. VerifiesByHand(d, key) = EcVerify(key, d.sig, d.tbs, "ECDSA", Using(hash))
    BY <1>6, <1>9, DistinctSchemes DEF VerifiesByHand
  <2>4. QED
    BY <1>5, <2>2, <2>3, EcIsDsa
<1>10. CASE key.type = "Rsa"
  <2>1. PKCS1v15.name = "PKCS1v15"
    BY DEF PKCS1v15
  <2>2. sig = RsaSign(key, d.tbs, PKCS1v15, Using(hash)) /\ sig.error = "ok"
    BY <1>1, <1>4, <1>10 DEF sig
  <2>3. RsaVerify(key, sig, d.tbs, PKCS1v15, Using(hash)) = "ok"
    BY <2>1, <2>2, RsaV15Verifies
  <2>4. VerifiesByHand(d, key) = RsaVerify(key, d.sig, d.tbs, PKCS1v15, Using(hash))
    BY <1>6, <1>10, DistinctSchemes DEF VerifiesByHand
  <2>5. QED
    BY <1>5, <2>3, <2>4
<1>11. QED
  BY <1>3, <1>7, <1>8, <1>9, <1>10, DistinctSchemes

-----------------------------------------------------------------------------
(* What damage leaves alone                                                *)

LEMMA DamageByKind ==
  ASSUME NEW d
  PROVE  /\ d.kind \in {"certificate", "crl"} => Damaged(d) = IssuedDamage(d)
         /\ d.kind = "request" => Damaged(d) = RequestDamage(d)
         /\ d.kind = "ocsp_request" => Damaged(d) = {[d EXCEPT !.tbs.requests = @ \o @]}
         /\ d.kind = "ocsp_response" => Damaged(d) = ResponseDamage(d)
<1> DEFINE twice == {[d EXCEPT !.tbs.requests = @ \o @]}
<1>1. Damaged(d) = CASE d.kind \in {"certificate", "crl"} -> IssuedDamage(d)
                     [] d.kind = "request" -> RequestDamage(d)
                     [] d.kind = "ocsp_request" -> twice
                     [] d.kind = "ocsp_response" -> ResponseDamage(d)
  BY DEF Damaged
<1> HIDE DEF twice
<1>2. /\ d.kind \in {"certificate", "crl"} => Damaged(d) = IssuedDamage(d)
      /\ d.kind = "request" => Damaged(d) = RequestDamage(d)
      /\ d.kind = "ocsp_request" => Damaged(d) = twice
      /\ d.kind = "ocsp_response" => Damaged(d) = ResponseDamage(d)
  BY <1>1
<1>3. QED
  BY <1>2 DEF twice

\* Of a certificate or a revocation list
LEMMA DamagedIssued ==
  ASSUME NEW kind, NEW tbs, NEW alg, NEW sig, kind \in {"certificate", "crl"},
         NEW e \in Damaged(Signed4(kind, tbs, alg, sig))
  PROVE  e = Signed4(kind, e.tbs, e.alg, sig)
<1> DEFINE d == Signed4(kind, tbs, alg, sig)
<1>1. d.kind = kind
  BY DEF Signed4
<1>2. e \in IssuedDamage(d)
  <2> HIDE DEF d
  <2>1. QED
    BY <1>1, DamageByKind DEF d
<1>3. \/ \E a : e = [d EXCEPT !.alg = a] \/ e = [d EXCEPT !.alg = a, !.tbs.alg = a] \/ e = [d EXCEPT !.tbs.alg = a]
      \/ \E x : e = [d EXCEPT !.tbs.issuer = x] \/ e = [d EXCEPT !.tbs.version = x]
  <2> HIDE DEF d
  <2>1. QED
    BY <1>2, Zenon DEF IssuedDamage
<1>4. QED
  BY <1>3 DEF Signed4

\* Of a request
LEMMA DamagedRequest ==
  ASSUME NEW tbs, NEW alg, NEW sig, NEW e \in Damaged(Signed4("request", tbs, alg, sig))
  PROVE  e = Signed4("request", e.tbs, e.alg, sig) /\ e.alg \in Algorithms \cup {alg}
<1> DEFINE d == Signed4("request", tbs, alg, sig)
<1>1. d.kind = "request"
  BY DEF Signed4
<1>2. e \in RequestDamage(d)
  <2> HIDE DEF d
  <2>1. QED
    BY <1>1, DamageByKind DEF d
<1>3. (\E a \in Algorithms : e = [d EXCEPT !.alg = a])
       \/ \E x : e = [d EXCEPT !.tbs.spki = x] \/ e = [d EXCEPT !.tbs.version = x]
  <2> HIDE DEF d
  <2>1. QED
    BY <1>2, Zenon DEF RequestDamage
<1>4. QED
  BY <1>3 DEF Signed4

\* Of a response: its algorithm and its signature, and whether it has bytes
\* unless they are lost
LEMMA DamagedResponse ==
  ASSUME NEW d, {"kind", "status", "bytes", "tbs", "alg", "sig"} \subseteq DOMAIN d, d.kind = "ocsp_response",
         NEW e \in Damaged(d)
  PROVE  e.kind = "ocsp_response" /\ e.alg = d.alg /\ e.sig = d.sig /\ (e.bytes => d.bytes)
<1>1. e \in ResponseDamage(d)
  BY DamageByKind
<1>2. \/ \E x : e = [d EXCEPT !.status = x]
      \/ e = [d EXCEPT !.bytes = FALSE]
      \/ \E x : e = [d EXCEPT !.tbs.responses = x]
  BY <1>1, Zenon DEF ResponseDamage
<1>3. ASSUME NEW x
      PROVE  /\ [d EXCEPT !.status = x].kind = d.kind /\ [d EXCEPT !.status = x].alg = d.alg
             /\ [d EXCEPT !.status = x].sig = d.sig /\ [d EXCEPT !.status = x].bytes = d.bytes
             /\ [d EXCEPT !.tbs.responses = x].kind = d.kind /\ [d EXCEPT !.tbs.responses = x].alg = d.alg
             /\ [d EXCEPT !.tbs.responses = x].sig = d.sig /\ [d EXCEPT !.tbs.responses = x].bytes = d.bytes
             /\ [d EXCEPT !.bytes = x].kind = d.kind /\ [d EXCEPT !.bytes = x].alg = d.alg
             /\ [d EXCEPT !.bytes = x].sig = d.sig /\ [d EXCEPT !.bytes = x].bytes = x
  OBVIOUS
<1>4. CASE \E x : e = [d EXCEPT !.status = x]
  BY <1>3, <1>4, Zenon
<1>5. CASE e = [d EXCEPT !.bytes = FALSE]
  BY <1>3, <1>5, Zenon
<1>6. CASE \E x : e = [d EXCEPT !.tbs.responses = x]
  BY <1>3, <1>6, Zenon
<1>7. QED
  BY <1>2, <1>4, <1>5, <1>6, Zenon

-----------------------------------------------------------------------------
(* The inductive invariant of Documents: what was returned came from the   *)
(* builder as it is now, which no setter changes any more, and what was    *)
(* loaded came from what was returned.                                     *)

BuilderInv ==
  builder.kind \in Kinds /\ builder = [kind |-> builder.kind, set |-> builder.set, list |-> builder.list]

ByBuilder(b, out) ==
  \/ \E s \in Signings[b.kind] : out.by = s /\ PaddingAccepted(s.key, s.padding) /\ out.result = Create(b, s)
  \/ b.kind = "ocsp_request" /\ out.by = Nil /\ out.result = create_ocsp_request(b.set.request)
  \/ b.kind = "ocsp_response" /\ out.by = Nil /\ \E status : out.result = Ok(UnsuccessfulResponse(status))

OutputInv == output # Nil => ByBuilder(builder, output)

DocInv ==
  doc # Nil => output # Nil /\ output.result.error = "ok" /\ doc \in {Sent} \cup Damaged(Sent)

DocumentsInv == BuilderInv /\ OutputInv /\ DocInv

LEMMA DocumentsInvInit ==
  ASSUME DocumentInit PROVE DocumentsInv
<1>1. PICK kind \in Kinds :
        builder = [kind |-> kind, set |-> [f \in FieldsOf(kind) |-> Nil], list |-> << >>]
  BY DEF DocumentInit
<1>2. BuilderInv
  BY <1>1 DEF BuilderInv
<1>3. output = Nil /\ doc = Nil
  BY DEF DocumentInit
<1>4. QED
  BY <1>2, <1>3 DEF DocumentsInv, OutputInv, DocInv

\* No result and no document change the builder
LEMMA BuildingKeepsInv ==
  ASSUME DocumentsInv, output = Nil, UNCHANGED << output, doc, cell >>,
         builder'.kind = builder.kind, builder' = [kind |-> builder'.kind, set |-> builder'.set, list |-> builder'.list]
  PROVE  DocumentsInv'
BY DEF DocumentsInv, BuilderInv, OutputInv, DocInv, Kinds

LEMMA DocumentsInvNext ==
  ASSUME DocumentsInv, [DocumentNext]_documentVars PROVE DocumentsInv'
<1>1. BuilderInv /\ OutputInv /\ DocInv
  BY DEF DocumentsInv
<1>2. CASE Set
  <2>1. PICK i \in Inputs[builder.kind] :
          /\ output = Nil /\ UNCHANGED << output, doc, cell >>
          /\ builder' = [builder EXCEPT !.set[i.field] = Stored(i.field, i.v)]
    BY <1>2 DEF Set
  <2>2. builder'.kind = builder.kind /\ builder' = [kind |-> builder'.kind, set |-> builder'.set, list |-> builder'.list]
    BY <1>1, <2>1 DEF BuilderInv
  <2>3. QED
    BY <2>1, <2>2, BuildingKeepsInv
<1>3. CASE AddRevoked
  <2>1. PICK r \in Revoked :
          /\ output = Nil /\ UNCHANGED << output, doc, cell >>
          /\ builder' = [builder EXCEPT !.list = Append(@, r)]
    BY <1>3 DEF AddRevoked
  <2>2. builder'.kind = builder.kind /\ builder' = [kind |-> builder'.kind, set |-> builder'.set, list |-> builder'.list]
    BY <1>1, <2>1 DEF BuilderInv
  <2>3. QED
    BY <2>1, <2>2, BuildingKeepsInv
<1>4. CASE AddAttribute
  <2>1. PICK a \in ListInputs[builder.kind] :
          /\ output = Nil /\ UNCHANGED << output, doc, cell >>
          /\ builder' = [builder EXCEPT !.list = Append(@, a)]
    BY <1>4 DEF AddAttribute
  <2>2. builder'.kind = builder.kind /\ builder' = [kind |-> builder'.kind, set |-> builder'.set, list |-> builder'.list]
    BY <1>1, <2>1 DEF BuilderInv
  <2>3. QED
    BY <2>1, <2>2, BuildingKeepsInv
<1>5. ASSUME output = Nil, UNCHANGED << builder, doc, cell >>, ByBuilder(builder, output')
      PROVE  DocumentsInv'
  <2>1. BuilderInv' /\ OutputInv'
    BY <1>1, <1>5 DEF BuilderInv, OutputInv, Kinds
  <2>2. DocInv'
    BY <1>1, <1>5 DEF DocInv
  <2>3. QED
    BY <2>1, <2>2 DEF DocumentsInv
<1>6. CASE SignDocument
  <2>1. PICK s \in Signings[builder.kind] :
          /\ output = Nil /\ PaddingAccepted(s.key, s.padding) /\ UNCHANGED << builder, doc, cell >>
          /\ output' = [by |-> s, result |-> Create(builder, s)]
    BY <1>6 DEF SignDocument, Ready
  <2>2. ByBuilder(builder, output')
    BY <2>1 DEF ByBuilder
  <2>3. QED
    BY <1>5, <2>1, <2>2
<1>7. CASE Build
  <2>1. /\ output = Nil /\ UNCHANGED << builder, doc, cell >> /\ builder.kind = "ocsp_request"
        /\ output' = [by |-> Nil, result |-> create_ocsp_request(builder.set.request)]
    BY <1>7 DEF Build, Ready
  <2>2. ByBuilder(builder, output')
    BY <2>1 DEF ByBuilder
  <2>3. QED
    BY <1>5, <2>1, <2>2
<1>8. CASE BuildUnsuccessful
  <2>1. PICK status \in Statuses \ {Successful} :
          /\ output = Nil /\ UNCHANGED << builder, doc, cell >> /\ builder.kind = "ocsp_response"
          /\ output' = [by |-> Nil, result |-> Ok(UnsuccessfulResponse(status))]
    BY <1>8 DEF BuildUnsuccessful
  <2>2. ByBuilder(builder, output')
    BY <2>1 DEF ByBuilder
  <2>3. QED
    BY <1>5, <2>1, <2>2
<1>9. CASE Load
  <2>1. /\ output # Nil /\ output.result.error = "ok" /\ UNCHANGED << builder, output, cell >>
        /\ doc' \in {Sent} \cup Damaged(Sent)
    BY <1>9 DEF Load, Sent
  <2>2. BuilderInv' /\ OutputInv'
    BY <1>1, <2>1 DEF BuilderInv, OutputInv, Kinds
  <2>3. Sent' = Sent
    BY <2>1 DEF Sent
  <2>4. DocInv'
    BY <2>1, <2>3 DEF DocInv
  <2>5. QED
    BY <2>2, <2>4 DEF DocumentsInv
<1>10. ASSUME UNCHANGED << builder, output, doc >> PROVE DocumentsInv'
  BY <1>1, <1>10 DEF DocumentsInv, BuilderInv, OutputInv, DocInv, Sent, Kinds
<1>11. CASE GetItem
  BY <1>10, <1>11 DEF GetItem
<1>12. CASE UNCHANGED documentVars
  BY <1>10, <1>12 DEF documentVars
<1>13. QED
  BY <1>2, <1>3, <1>4, <1>6, <1>7, <1>8, <1>9, <1>11, <1>12 DEF DocumentNext

\* Whatever is signed is signed by the builder as it was filled in, and what is
\* loaded is what was signed or a damaged form of it
THEOREM DocumentsInvariant == DocumentSpec => []DocumentsInv
<1>1. DocumentInit => DocumentsInv
  BY DocumentsInvInit
<1>2. DocumentsInv /\ [DocumentNext]_documentVars => DocumentsInv'
  BY DocumentsInvNext
<1>3. QED
  BY <1>1, <1>2, PTL DEF DocumentSpec

-----------------------------------------------------------------------------
(* What was sent, by the kind of the builder                               *)

LEMMA KindNames == Kinds = {"certificate", "crl", "request", "ocsp_request", "ocsp_response"}
BY SigningsAssumption DEF Kinds

LEMMA SignedBySound ==
  ASSUME NEW b, b.kind \in Kinds, NEW out, ByBuilder(b, out), b.kind \in X509
  PROVE  SoundArguments(out.by) /\ out.result = Create(b, out.by)
<1>1. PICK s \in Signings[b.kind] : out.by = s /\ PaddingAccepted(s.key, s.padding) /\ out.result = Create(b, s)
  BY DEF ByBuilder, X509
<1>2. SoundArguments(s)
  BY <1>1, SigningsAssumption DEF SoundArguments, Kinds
<1>3. QED
  BY <1>1, <1>2

LEMMA SentX509 ==
  ASSUME NEW b, b.kind \in Kinds, NEW out, ByBuilder(b, out), b.kind \in X509, out.result.error = "ok"
  PROVE  LET d == out.result.v
         IN  /\ MadeBy(d, out.by) /\ d.kind = b.kind
             /\ b.kind \in {"certificate", "crl"} => d.tbs.alg = d.alg
             /\ b.kind = "certificate" => d.tbs.issuer = b.set.issuer_name /\ CertificateContents(b, d.tbs)
             /\ b.kind = "crl" => CrlContents(b, d.tbs)
             /\ b.kind = "request" => d.tbs.spki = out.by.key /\ RequestContents(b, d.tbs)
<1> DEFINE s == out.by
           r == out.result
<1>1. SoundArguments(s) /\ r = Create(b, s) /\ r.error = "ok"
  BY SignedBySound
<1> HIDE DEF r, s
<1>2. CASE b.kind = "certificate"
  <2>1. r = create_x509_certificate(b, s.key, s.hash, s.padding)
    BY <1>1, <1>2 DEF Create
  <2>2. /\ MadeBy(r.v, s) /\ r.v.kind = "certificate"
        /\ r.v.tbs.alg = r.v.alg /\ r.v.tbs.issuer = b.set.issuer_name /\ CertificateContents(b, r.v.tbs)
    BY <1>1, <2>1, CertificateMade
  <2>3. QED
    BY <1>2, <2>2 DEF r, s
<1>3. CASE b.kind = "crl"
  <2>1. r = create_x509_crl(b, s.key, s.hash, s.padding)
    BY <1>1, <1>3 DEF Create
  <2>2. MadeBy(r.v, s) /\ r.v.kind = "crl" /\ r.v.tbs.alg = r.v.alg /\ CrlContents(b, r.v.tbs)
    BY <1>1, <2>1, CrlMade
  <2>3. QED
    BY <1>3, <2>2 DEF r, s
<1>4. CASE b.kind = "request"
  <2>1. r = create_x509_csr(b, s.key, s.hash, s.padding)
    BY <1>1, <1>4 DEF Create
  <2>2. MadeBy(r.v, s) /\ r.v.kind = "request" /\ r.v.tbs.spki = s.key /\ RequestContents(b, r.v.tbs)
    BY <1>1, <2>1, RequestMade
  <2>3. QED
    BY <1>4, <2>2 DEF r, s
<1>5. QED
  BY <1>2, <1>3, <1>4 DEF X509

\* A successful response d of the builder b, signed with the key and the hash of s
RespondedBy(b, d, s) ==
  /\ SoundSigning(s.key, s.hash, Nil, d.tbs)
  /\ d.alg = compute_signature_algorithm(s.key, s.hash, Nil)
  /\ d.sig = sign_data(s.key, s.hash, Nil, d.tbs)
  /\ d.tbs.responder = ResponderId(b.set.responder_id) /\ b.set.responder_id.cert.key = s.key
  /\ ResponseContents(b, d.tbs)

LEMMA ResponseParts ==
  ASSUME NEW b, NEW x, NEW status
  PROVE  /\ {"kind", "status", "bytes", "tbs", "alg", "sig"} \subseteq DOMAIN SignedResponse(b, x)
         /\ SignedResponse(b, x).kind = "ocsp_response" /\ SignedResponse(b, x).tbs = x.tbs
         /\ SignedResponse(b, x).alg = x.alg /\ SignedResponse(b, x).sig = x.sig
         /\ {"kind", "status", "bytes", "tbs", "alg", "sig"} \subseteq DOMAIN UnsuccessfulResponse(status)
         /\ UnsuccessfulResponse(status).kind = "ocsp_response"
BY DEF SignedResponse, UnsuccessfulResponse

LEMMA UnsuccessfulHasNoBytes ==
  ASSUME NEW status PROVE ~UnsuccessfulResponse(status).bytes
BY Zenon DEF UnsuccessfulResponse

LEMMA SentOcsp ==
  ASSUME NEW b, b.kind \in Kinds, NEW out, ByBuilder(b, out), out.result.error = "ok"
  PROVE  LET d == out.result.v
         IN  /\ b.kind = "ocsp_request" => d.kind = b.kind /\ {"kind", "tbs"} \subseteq DOMAIN d
             /\ b.kind = "ocsp_response" =>
                  /\ d.kind = b.kind /\ {"kind", "status", "bytes", "tbs", "alg", "sig"} \subseteq DOMAIN d
                  /\ ~d.bytes \/ RespondedBy(b, d, out.by)
<1> DEFINE d == out.result.v
<1>1. CASE b.kind = "ocsp_request"
  <2>1. out.result = create_ocsp_request(b.set.request)
    BY <1>1, SigningsAssumption DEF ByBuilder
  <2>2. QED
    BY <1>1, <2>1 DEF create_ocsp_request, Ok
<1>2. CASE b.kind = "ocsp_response" /\ \E status : out.result = Ok(UnsuccessfulResponse(status))
  <2>1. PICK status : out.result = Ok(UnsuccessfulResponse(status))
    BY <1>2
  <2>2. d = UnsuccessfulResponse(status)
    BY <2>1 DEF Ok
  <2> HIDE DEF d
  <2>3. ~d.bytes
    BY <2>2, UnsuccessfulHasNoBytes, Zenon
  <2>4. d.kind = "ocsp_response" /\ {"kind", "status", "bytes", "tbs", "alg", "sig"} \subseteq DOMAIN d
    BY <2>2, ResponseParts
  <2>5. QED
    BY <1>2, <2>3, <2>4 DEF d
<1>3. CASE b.kind = "ocsp_response" /\ ~\E status : out.result = Ok(UnsuccessfulResponse(status))
  <2>1. PICK s \in Signings[b.kind] : out.by = s /\ out.result = Create(b, s)
    BY <1>3 DEF ByBuilder
  <2>2. out.result = create_ocsp_response(b, s.key, s.hash)
    BY <1>3, <2>1 DEF Create
  <2>3. \E x : d = SignedResponse(b, x) /\ RespondedBy(b, x, s)
    <3> DEFINE r == out.result
    <3>1. r = create_ocsp_response(b, s.key, s.hash) /\ r.error = "ok"
      BY <2>2
    <3> HIDE DEF r
    <3>2. PICK x : /\ r.v = SignedResponse(b, x)
                   /\ SoundSigning(s.key, s.hash, Nil, x.tbs)
                   /\ x.alg = compute_signature_algorithm(s.key, s.hash, Nil)
                   /\ x.sig = sign_data(s.key, s.hash, Nil, x.tbs)
                   /\ x.tbs.responder = ResponderId(b.set.responder_id) /\ b.set.responder_id.cert.key = s.key
                   /\ ResponseContents(b, x.tbs)
      BY <3>1, ResponseMade
    <3>3. RespondedBy(b, x, s)
      BY <3>2 DEF RespondedBy
    <3>4. QED
      BY <3>2, <3>3 DEF r
  <2> HIDE DEF d
  <2>4. PICK x : d = SignedResponse(b, x) /\ RespondedBy(b, x, s)
    BY <2>3
  <2>5. /\ d.kind = "ocsp_response" /\ {"kind", "status", "bytes", "tbs", "alg", "sig"} \subseteq DOMAIN d
        /\ d.tbs = x.tbs /\ d.alg = x.alg /\ d.sig = x.sig
    BY <2>4, ResponseParts
  <2>6. RespondedBy(b, d, s)
    BY <2>4, <2>5 DEF RespondedBy
  <2>7. QED
    BY <1>3, <2>1, <2>5, <2>6 DEF d
<1>4. QED
  BY <1>1, <1>2, <1>3

\* Loading keeps the kind
LEMMA LoadedKind ==
  ASSUME NEW b, b.kind \in Kinds, NEW out, ByBuilder(b, out), out.result.error = "ok",
         NEW e \in {out.result.v} \cup Damaged(out.result.v)
  PROVE  e.kind = b.kind
<1> DEFINE d == out.result.v
<1>1. d.kind = b.kind
  BY SentX509, SentOcsp, KindNames DEF X509
<1>2. SUFFICES ASSUME e \in Damaged(d) PROVE e.kind = b.kind
  BY <1>1
<1>3. CASE b.kind \in X509
  <2>1. d = Signed4(d.kind, d.tbs, d.alg, d.sig)
    BY <1>3, SentX509 DEF MadeBy
  <2> HIDE DEF d
  <2>2. CASE b.kind \in {"certificate", "crl"}
    <3>1. e = Signed4(d.kind, e.tbs, e.alg, d.sig)
      BY <1>1, <1>2, <2>1, <2>2, DamagedIssued
    <3>2. QED
      BY <1>1, <3>1 DEF Signed4
  <2>3. CASE b.kind = "request"
    <3>1. e = Signed4("request", e.tbs, e.alg, d.sig)
      BY <1>1, <1>2, <2>1, <2>3, DamagedRequest
    <3>2. QED
      BY <2>3, <3>1 DEF Signed4
  <2>4. QED
    BY <1>3, <2>2, <2>3 DEF X509
<1>4. CASE b.kind = "ocsp_request"
  <2>1. {"kind", "tbs"} \subseteq DOMAIN d
    BY <1>4, SentOcsp
  <2> HIDE DEF d
  <2>2. \E x : e = [d EXCEPT !.tbs.requests = x]
    BY <1>1, <1>2, <1>4, DamageByKind
  <2>3. QED
    BY <1>1, <2>1, <2>2
<1>5. CASE b.kind = "ocsp_response"
  <2>1. {"kind", "status", "bytes", "tbs", "alg", "sig"} \subseteq DOMAIN d
    BY <1>5, SentOcsp
  <2> HIDE DEF d
  <2>2. QED
    BY <1>1, <1>2, <1>5, <2>1, DamagedResponse
<1>6. QED
  BY <1>3, <1>4, <1>5, KindNames DEF X509

-----------------------------------------------------------------------------
(* The properties                                                          *)

\* A document made by sign() is checked with its own identifier
LEMMA AcceptedAsMade ==
  ASSUME NEW d, NEW s, MadeBy(d, s), NEW k, NEW a, NEW t,
         verify_signature_with_signature_algorithm(k, a, d.sig, t) = "ok"
  PROVE  k = s.key /\ t = d.tbs /\ (Parsed(a) => a = d.alg)
BY VerifiedData DEF MadeBy

LEMMA AcceptedCertificate ==
  ASSUME NEW e, NEW issuer, e.kind = "certificate", Valid(e, issuer)
  PROVE  /\ e.tbs.alg = e.alg /\ e.tbs.issuer = issuer.subject
         /\ verify_signature_with_signature_algorithm(issuer.key, e.alg, e.sig, e.tbs) = "ok"
<1>1. verify_directly_issued_by(e, issuer) = "ok"
  BY DEF Valid
<1>2. QED
  BY <1>1 DEF verify_directly_issued_by

LEMMA AcceptedCrl ==
  ASSUME NEW e, NEW issuer, e.kind = "crl", Valid(e, issuer)
  PROVE  /\ e.tbs.alg = e.alg
         /\ verify_signature_with_signature_algorithm(issuer.key, e.alg, e.sig, e.tbs) = "ok"
<1>1. is_crl_signature_valid(e, issuer.key) = "True"
  BY DEF Valid
<1>2. QED
  BY <1>1 DEF is_crl_signature_valid

LEMMA AcceptedRequest ==
  ASSUME NEW e, NEW issuer, e.kind = "request", Valid(e, issuer)
  PROVE  /\ e.tbs.spki = issuer.key
         /\ verify_signature_with_signature_algorithm(issuer.key, e.alg, e.sig, e.tbs) = "ok"
<1>1. e.tbs.spki = issuer.key /\ is_csr_signature_valid(e)
  BY DEF Valid
<1>2. QED
  BY <1>1 DEF is_csr_signature_valid

\* Only what was signed is accepted, whatever happened to it
LEMMA AcceptedOnlyAsSigned ==
  ASSUME NEW b, b.kind \in X509, b.kind \in Kinds, NEW out, ByBuilder(b, out), out.result.error = "ok",
         NEW e \in {out.result.v} \cup Damaged(out.result.v), NEW issuer, Valid(e, issuer)
  PROVE  /\ e = out.result.v /\ issuer.key = out.by.key
         /\ e.kind = "certificate" => issuer.subject = b.set.issuer_name
<1> DEFINE d == out.result.v
           s == out.by
<1>1. /\ MadeBy(d, s) /\ d.kind = b.kind /\ e.kind = b.kind
      /\ b.kind \in {"certificate", "crl"} => d.tbs.alg = d.alg
      /\ b.kind = "certificate" => d.tbs.issuer = b.set.issuer_name
  BY SentX509, LoadedKind
<1>2. d = Signed4(d.kind, d.tbs, d.alg, d.sig)
  BY <1>1 DEF MadeBy
<1> HIDE DEF d, s
<1>3. e \in {d} \cup Damaged(d)
  BY DEF d
<1>4. CASE b.kind \in {"certificate", "crl"}
  <2>1. e = Signed4(d.kind, e.tbs, e.alg, d.sig)
    BY <1>1, <1>2, <1>3, <1>4, DamagedIssued
  <2>2. e.sig = d.sig
    BY <2>1 DEF Signed4
  <2>3. /\ e.tbs.alg = e.alg /\ (b.kind = "certificate" => e.tbs.issuer = issuer.subject)
        /\ verify_signature_with_signature_algorithm(issuer.key, e.alg, d.sig, e.tbs) = "ok"
    BY <1>1, <1>4, <2>2, AcceptedCertificate, AcceptedCrl
  <2>4. issuer.key = s.key /\ e.tbs = d.tbs
    BY <1>1, <2>3, AcceptedAsMade
  <2>5. e.alg = d.alg
    BY <1>1, <1>4, <2>3, <2>4
  <2>6. e = d
    BY <1>2, <2>1, <2>4, <2>5
  <2>7. QED
    BY <1>1, <2>3, <2>4, <2>6 DEF d, s
<1>5. CASE b.kind = "request"
  <2>1. e = Signed4("request", e.tbs, e.alg, d.sig) /\ e.alg \in Algorithms \cup {d.alg}
    BY <1>1, <1>2, <1>3, <1>5, DamagedRequest
  <2>2. e.sig = d.sig
    BY <2>1 DEF Signed4
  <2>3. verify_signature_with_signature_algorithm(issuer.key, e.alg, d.sig, e.tbs) = "ok"
    BY <1>1, <1>5, <2>2, AcceptedRequest
  <2>4. issuer.key = s.key /\ e.tbs = d.tbs /\ (Parsed(e.alg) => e.alg = d.alg)
    BY <1>1, <2>3, AcceptedAsMade
  <2>5. e.alg \in Algorithms => Parsed(e.alg)
    BY AlgorithmsAssumption DEF Parsed
  <2>6. e = d
    BY <1>1, <1>2, <1>5, <2>1, <2>4, <2>5
  <2>7. QED
    BY <1>1, <1>5, <2>4, <2>6 DEF d, s
<1>6. QED
  BY <1>4, <1>5 DEF X509

\* What is accepted was signed, word for word, with the key it is checked with
THEOREM DocumentsValidOnlyAsSigned == DocumentSpec => []ValidOnlyAsSigned
<1>1. ASSUME DocumentsInv PROVE ValidOnlyAsSigned
  <2>1. SUFFICES ASSUME Received, NEW issuer \in Issuers, Valid(doc, issuer)
                 PROVE  /\ doc = Sent /\ issuer.key = output.by.key
                        /\ doc.kind = "certificate" => issuer.subject = builder.set.issuer_name
    BY DEF ValidOnlyAsSigned
  <2>2. /\ builder.kind \in Kinds /\ ByBuilder(builder, output) /\ output.result.error = "ok"
        /\ doc \in {Sent} \cup Damaged(Sent) /\ doc.kind \in X509
    BY <1>1, <2>1 DEF DocumentsInv, BuilderInv, OutputInv, DocInv, Received
  <2>3. doc.kind = builder.kind
    BY <2>2, LoadedKind DEF Sent
  <2>4. QED
    BY <2>1, <2>2, <2>3, AcceptedOnlyAsSigned DEF Sent
<1>2. QED
  BY <1>1, DocumentsInvariant, PTL

\* sign() and the checks of certificates, revocation lists and requests agree
LEMMA MadeIsValid ==
  ASSUME NEW b, b.kind \in X509, b.kind \in Kinds, NEW out, ByBuilder(b, out), out.result.error = "ok",
         NEW issuer, issuer.key = out.by.key,
         out.result.v.kind = "certificate" => issuer.subject = out.result.v.tbs.issuer
  PROVE  \/ Valid(out.result.v, issuer)
         \/ out.by.key.type = "Dsa" /\ SIG_OIDS_TO_HASH(out.result.v.alg) = "UnsupportedAlgorithm"
<1> DEFINE d == out.result.v
           s == out.by
<1>1. /\ MadeBy(d, s) /\ d.kind = b.kind
      /\ b.kind \in {"certificate", "crl"} => d.tbs.alg = d.alg
      /\ b.kind = "request" => d.tbs.spki = s.key
  BY SentX509
<1> HIDE DEF d, s
<1>2. /\ SoundSigning(s.key, s.hash, s.padding, d.tbs)
      /\ d.alg = compute_signature_algorithm(s.key, s.hash, s.padding)
      /\ d.sig = sign_data(s.key, s.hash, s.padding, d.tbs)
  BY <1>1 DEF MadeBy
<1>3. \/ verify_signature_with_signature_algorithm(s.key, d.alg, d.sig, d.tbs) = "ok"
      \/ s.key.type = "Dsa" /\ SIG_OIDS_TO_HASH(d.alg) = "UnsupportedAlgorithm"
  BY <1>2, SignedDataVerifies
<1>4. SUFFICES ASSUME verify_signature_with_signature_algorithm(s.key, d.alg, d.sig, d.tbs) = "ok"
               PROVE  Valid(d, issuer)
  BY <1>3 DEF d, s
<1>5. CASE b.kind = "certificate"
  <2>1. verify_directly_issued_by(d, issuer) = "ok"
    BY <1>1, <1>4, <1>5 DEF verify_directly_issued_by, d, s
  <2>2. QED
    BY <1>1, <1>5, <2>1 DEF Valid
<1>6. CASE b.kind = "crl"
  <2>1. identify_key_type(s.key) # "TypeError"
    BY <1>4 DEF verify_signature_with_signature_algorithm
  <2>2. is_crl_signature_valid(d, s.key) = "True"
    BY <1>1, <1>4, <1>6, <2>1 DEF is_crl_signature_valid
  <2>3. QED
    BY <1>1, <1>6, <2>2 DEF Valid, s
<1>7. CASE b.kind = "request"
  <2>1. d.tbs.spki = issuer.key /\ is_csr_signature_valid(d)
    BY <1>1, <1>4, <1>7 DEF is_csr_signature_valid, s
  <2>2. QED
    BY <1>1, <1>7, <2>1 DEF Valid
<1>8. QED
  BY <1>5, <1>6, <1>7 DEF X509

\* Every combination of key, hash, padding and salt length that sign() accepts
\* gives a document that the library verifies, or a response that the
\* responder's key verifies, except where the table of _oid.py lacks the hash
THEOREM DocumentsSignedVerifies == DocumentSpec => []SignedVerifies
<1>1. ASSUME DocumentsInv PROVE X509Verifies
  <2>1. SUFFICES ASSUME output # Nil, output.result.error = "ok", Sent.kind \in X509
                 PROVE  \/ Valid(Sent, [subject |-> IF Sent.kind = "certificate" THEN Sent.tbs.issuer ELSE Nil,
                                        key |-> output.by.key])
                        \/ output.by.key.type = "Dsa" /\ SIG_OIDS_TO_HASH(Sent.alg) = "UnsupportedAlgorithm"
    BY DEF X509Verifies
  <2> DEFINE issuer == [subject |-> IF Sent.kind = "certificate" THEN Sent.tbs.issuer ELSE Nil, key |-> output.by.key]
  <2>2. builder.kind \in Kinds /\ ByBuilder(builder, output)
    BY <1>1, <2>1 DEF DocumentsInv, BuilderInv, OutputInv
  <2>3. builder.kind = Sent.kind
    BY <2>1, <2>2, LoadedKind DEF Sent
  <2>4. issuer.key = output.by.key /\ (Sent.kind = "certificate" => issuer.subject = Sent.tbs.issuer)
    OBVIOUS
  <2> HIDE DEF issuer
  <2>5. \/ Valid(Sent, issuer)
        \/ output.by.key.type = "Dsa" /\ SIG_OIDS_TO_HASH(Sent.alg) = "UnsupportedAlgorithm"
    BY <2>1, <2>2, <2>3, <2>4, MadeIsValid DEF Sent
  <2>6. QED
    BY <2>5 DEF issuer
<1>2. ASSUME DocumentsInv PROVE ResponderSigned
  <2> DEFINE cert == builder.set.responder_id.cert
  <2>1. SUFFICES ASSUME doc # Nil, doc.kind = "ocsp_response", doc.bytes, doc.tbs = Sent.tbs
                 PROVE  /\ doc.tbs.responder.by_key \in {Nil, HashData("sha1", cert.key)}
                        /\ doc.tbs.responder.by_name \in {Nil, cert.subject}
                        /\ \/ OcspHash(doc) = "UnsupportedAlgorithm"
                           \/ VerifiesByHand(doc, cert.key) = "ok"
    BY DEF ResponderSigned
  <2>2. /\ builder.kind \in Kinds /\ ByBuilder(builder, output) /\ output.result.error = "ok"
        /\ doc \in {Sent} \cup Damaged(Sent)
    BY <1>2, <2>1 DEF DocumentsInv, BuilderInv, OutputInv, DocInv
  <2>3. builder.kind = "ocsp_response"
    BY <2>1, <2>2, LoadedKind DEF Sent
  <2>4. /\ Sent.kind = "ocsp_response" /\ {"kind", "status", "bytes", "tbs", "alg", "sig"} \subseteq DOMAIN Sent
        /\ ~Sent.bytes \/ RespondedBy(builder, Sent, output.by)
    BY <2>2, <2>3, SentOcsp DEF Sent
  <2>5. doc.alg = Sent.alg /\ doc.sig = Sent.sig /\ (doc.bytes => Sent.bytes)
    BY <2>2, <2>4, DamagedResponse
  <2>6. RespondedBy(builder, Sent, output.by)
    BY <2>1, <2>4, <2>5
  <2>7. /\ doc.tbs.responder = ResponderId(builder.set.responder_id) /\ cert.key = output.by.key
    BY <2>1, <2>6 DEF RespondedBy
  <2>8. /\ doc.tbs.responder.by_key \in {Nil, HashData("sha1", cert.key)}
        /\ doc.tbs.responder.by_name \in {Nil, cert.subject}
    BY <2>7 DEF ResponderId
  <2>9. SIG_OIDS_TO_HASH(doc.alg) # "UnsupportedAlgorithm" => VerifiesByHand(doc, cert.key) = "ok"
    BY <2>1, <2>5, <2>6, <2>7, ByHandVerifies DEF RespondedBy
  <2>10. QED
    BY <2>8, <2>9 DEF OcspHash
<1>3. QED
  BY <1>1, <1>2, DocumentsInvariant, PTL DEF SignedVerifies

-----------------------------------------------------------------------------
(* Dates                                                                   *)

\* The tick in which a time lies
LEMMA TickOf ==
  ASSUME NEW at \in Int
  PROVE  /\ WholeTicks(at) \in Int
         /\ WholeTicks(at) * Microseconds <= at /\ at < WholeTicks(at) * Microseconds + Microseconds
<1> DEFINE m == Microseconds
           k == at \div m
<1>1. m \in Nat \ {0}
  BY Asn1ValuesAssumption
<1> HIDE DEF m
<1>2. k \in Int /\ at % m \in 0 .. m - 1 /\ at = m * k + (at % m)
  BY <1>1
<1> HIDE DEF k
<1>3. k \in Int /\ k * m <= at /\ at < k * m + m
  BY <1>1, <1>2
<1>4. WholeTicks(at) = k
  BY DEF WholeTicks, k, m
<1>5. QED
  BY <1>3, <1>4 DEF m

\* No tick is later than one of a later time
LEMMA TicksInOrder ==
  ASSUME NEW a \in Int, NEW b \in Int, a <= b
  PROVE  WholeTicks(a) <= WholeTicks(b)
<1> DEFINE p == WholeTicks(a)
           q == WholeTicks(b)
           m == Microseconds
<1>1. m \in Nat \ {0}
  BY Asn1ValuesAssumption
<1>2. p \in Int /\ q \in Int /\ p * m <= a /\ b < q * m + m
  BY TickOf
<1> HIDE DEF p, q, m
<1>3. ASSUME q < p PROVE FALSE
  <2>1. q + 1 <= p
    BY <1>2, <1>3
  <2>2. (q + 1) * m <= p * m
    BY <1>1, <1>2, <2>1
  <2>3. QED
    BY <1>1, <1>2, <2>2
<1>4. p <= q
  BY <1>2, <1>3
<1>5. QED
  BY <1>4 DEF p, q

\* 1950 begins with a tick
LEMMA TickFrom1950 ==
  ASSUME NEW t \in Int
  PROVE  t >= EarliestUtcTime <=> WholeTicks(t) >= 1950 * TicksPerYear
<1> DEFINE k == WholeTicks(t)
           K == 1950 * TicksPerYear
           m == Microseconds
<1>1. m \in Nat \ {0} /\ K \in Nat /\ EarliestUtcTime = K * m
  BY Asn1ValuesAssumption DEF EarliestUtcTime
<1>2. k \in Int /\ k * m <= t /\ t < k * m + m
  BY TickOf
<1> HIDE DEF k, K, m
<1>3. ASSUME k >= K PROVE t >= K * m
  <2>1. k * m >= K * m
    BY <1>1, <1>2, <1>3
  <2>2. QED
    BY <1>1, <1>2, <2>1
<1>4. ASSUME ~(k >= K) PROVE ~(t >= K * m)
  <2>1. k + 1 <= K
    BY <1>1, <1>2, <1>4
  <2>2. (k + 1) * m <= K * m
    BY <1>1, <1>2, <2>1
  <2>3. QED
    BY <1>1, <1>2, <2>2
<1>5. QED
  BY <1>1, <1>3, <1>4 DEF k, K

\* Two digits for the year are enough between 1950 and 2049, and four are kept
\* from 2050 on
LEMMA CenturyOfUtcTime ==
  ASSUME NEW t \in Int, 1950 * TicksPerYear <= t, t < 2050 * TicksPerYear
  PROVE  LET u == t % Century
         IN  u + (IF u \div TicksPerYear >= 50 THEN 19 ELSE 20) * Century = t
<1> DEFINE T == TicksPerYear
<1>1. T \in Nat \ {0}
  BY Asn1ValuesAssumption
<1>2. SUFFICES (t % (100 * T)) + (IF (t % (100 * T)) \div T >= 50 THEN 19 ELSE 20) * (100 * T) = t
  BY DEF Century
<1>3. 1950 * T <= t /\ t < 2050 * T
  OBVIOUS
<1> HIDE DEF T
<1> DEFINE C == 100 * T
<1>4. C \in Nat \ {0}
  BY <1>1
<1>5. CASE t < 2000 * T
  <2>1. (t % C) = t - 19 * C
    BY <1>1, <1>3, <1>4, <1>5
  <2>2. (t - 19 * C) \div T >= 50
    BY <1>1, <1>3, <1>5
  <2>3. QED
    BY <1>1, <2>1, <2>2
<1>6. CASE t >= 2000 * T
  <2>1. (t % C) = t - 20 * C
    BY <1>1, <1>3, <1>4, <1>6
  <2>2. ~((t - 20 * C) \div T >= 50)
    BY <1>1, <1>3, <1>6
  <2>3. QED
    BY <1>1, <2>1, <2>2
<1>7. QED
  BY <1>1, <1>5, <1>6

LEMMA TimeReadsBack ==
  ASSUME NEW t \in Int, t >= EarliestUtcTime
  PROVE  as_datetime(time_from_py(Naive(t)).v) = WholeTicks(t)
<1> DEFINE T == TicksPerYear
           k == WholeTicks(t)
           u == k % Century
<1>1. T \in Nat \ {0} /\ k \in Int /\ 1950 * T <= k
  BY Asn1ValuesAssumption, TickOf, TickFrom1950
<1>2. time_from_py(Naive(t)) = time_from_datetime(k)
  BY DEF time_from_py, py_to_datetime, Naive
<1> HIDE DEF k
<1>3. ~(YearOf(k) < 1950) /\ YearOf(k) \in Int
  BY <1>1 DEF YearOf
<1>4. CASE YearOf(k) >= 2050
  <2>1. time_from_datetime(k) = Ok([form |-> "GeneralizedTime", t |-> k])
    BY <1>4 DEF time_from_datetime
  <2>2. time_from_datetime(k).v.form = "GeneralizedTime" /\ time_from_datetime(k).v.t = k
    BY <2>1 DEF Ok
  <2>3. QED
    BY <1>2, <2>2 DEF as_datetime, k
<1>5. CASE ~(YearOf(k) >= 2050)
  <2>1. k < 2050 * T
    BY <1>1, <1>5 DEF YearOf
  <2>2. time_from_datetime(k) = Ok([form |-> "UtcTime", t |-> u])
    BY <1>3, <1>5 DEF time_from_datetime
  <2>3. u + (IF u \div T >= 50 THEN 19 ELSE 20) * Century = k
    BY <1>1, <2>1, CenturyOfUtcTime
  <2> HIDE DEF u
  <2>4. time_from_datetime(k).v.form = "UtcTime" /\ time_from_datetime(k).v.t = u
    BY <2>2 DEF Ok
  <2>5. as_datetime(time_from_datetime(k).v) = u + (IF u \div T >= 50 THEN 19 ELSE 20) * Century
    BY <2>4 DEF as_datetime, YearOf
  <2>6. QED
    BY <1>2, <2>3, <2>5 DEF k
<1>6. QED
  BY <1>4, <1>5

\* Damage of a certificate or a revocation list that still parses leaves its
\* dates alone
LEMMA DamagedDates ==
  ASSUME NEW kind, NEW tbs, NEW alg, NEW sig, kind \in {"certificate", "crl"},
         NEW e \in {Signed4(kind, tbs, alg, sig)} \cup Damaged(Signed4(kind, tbs, alg, sig)),
         NEW f \in DOMAIN tbs, f \notin {"alg", "issuer", "version"}
  PROVE  e.tbs[f] = tbs[f]
<1> DEFINE d == Signed4(kind, tbs, alg, sig)
<1>1. d.kind = kind /\ d.tbs = tbs
  BY DEF Signed4
<1>2. CASE e = d
  BY <1>1, <1>2
<1>3. CASE e \in Damaged(d)
  <2>1. e \in IssuedDamage(d)
    <3> HIDE DEF d
    <3>1. QED
      BY <1>1, <1>3, DamageByKind
  <2>2. \/ \E a : e = [d EXCEPT !.alg = a] \/ e = [d EXCEPT !.alg = a, !.tbs.alg = a] \/ e = [d EXCEPT !.tbs.alg = a]
        \/ \E x : e = [d EXCEPT !.tbs.issuer = x] \/ e = [d EXCEPT !.tbs.version = x]
    <3> HIDE DEF d
    <3>1. QED
      BY <2>1, Zenon DEF IssuedDamage
  <2>3. QED
    BY <2>2 DEF Signed4
<1>4. QED
  BY <1>2, <1>3

-----------------------------------------------------------------------------
(* The dates of a builder: in order whenever both are set, whichever was   *)
(* set first                                                               *)

IsDate(t) == t \in Int /\ t >= EarliestUtcTime

InWindow(first, second) ==
  (first = Nil \/ IsDate(first)) /\ (second = Nil \/ IsDate(second)) /\ InOrder(first, second)

DatesOk(kind, set) ==
  /\ DOMAIN set = Required[kind]
  /\ kind = "certificate" => InWindow(set.not_valid_before, set.not_valid_after)
  /\ kind = "crl" => InWindow(set.last_update, set.next_update)

LEMMA RequiredFields ==
  /\ Required["certificate"] = {"issuer_name", "subject_name", "public_key", "serial_number",
                                "not_valid_before", "not_valid_after"}
  /\ Required["crl"] = {"issuer_name", "last_update", "next_update"}
  /\ DOMAIN Required = {"certificate", "crl", "request"}
BY DEF Required

LEMMA AcceptedDate ==
  ASSUME NEW b, NEW f \in Dates, NEW v, Accepts(b, f, v), v.at \in Int, v.offset \in Int \cup {Nil}
  PROVE  IsDate(Stored(f, v)) /\ DateAccepted(b.set, f, Stored(f, v))
<1>1. Dates = {"not_valid_before", "not_valid_after", "last_update", "next_update"}
  BY DEF Dates
<1>2. DateAccepted(b.set, f, Stored(f, v))
  BY <1>1 DEF Accepts
<1>3. Stored(f, v) \in Int
  BY DEF Stored, convert_to_naive_utc_time
<1>4. QED
  BY <1>2, <1>3 DEF DateAccepted, IsDate

LEMMA SetterKeepsDates ==
  ASSUME NEW b, NEW kind \in {"certificate", "crl"}, DatesOk(kind, b.set), NEW i \in Inputs[kind],
         Accepts(b, i.field, i.v)
  PROVE  DatesOk(kind, [b.set EXCEPT ![i.field] = Stored(i.field, i.v)])
<1> DEFINE f == i.field
           t == Stored(i.field, i.v)
           set == [b.set EXCEPT ![f] = t]
<1>1. f \in Required[kind] /\ (f \in Dates => i.v.at \in Int /\ i.v.offset \in Int \cup {Nil}) /\ Nil \notin Int
  BY InputsAssumption DEF IsDatetime
<1>2. DOMAIN b.set = Required[kind] /\ DOMAIN set = Required[kind]
  BY DEF DatesOk
<1>3. f \in Dates => IsDate(t) /\ DateAccepted(b.set, f, t)
  BY <1>1, AcceptedDate
<1> HIDE DEF f, t
<1>4. /\ \A g \in Required[kind] : g # f => set[g] = b.set[g]
      /\ set[f] = t
  BY <1>1, <1>2
<1> HIDE DEF set
<1>5. CASE kind = "certificate"
  <2>1. InWindow(b.set.not_valid_before, b.set.not_valid_after)
    BY <1>5 DEF DatesOk
  <2>2. CASE f = "not_valid_before"
    <3>1. IsDate(t) /\ InOrder(t, b.set.not_valid_after)
      BY <1>3, <2>2 DEF DateAccepted, Dates
    <3>2. set.not_valid_before = t /\ set.not_valid_after = b.set.not_valid_after
      BY <1>4, <1>5, <2>2, RequiredFields
    <3>3. QED
      BY <1>2, <1>5, <2>1, <3>1, <3>2 DEF DatesOk, InWindow, set, f, t
  <2>3. CASE f = "not_valid_after"
    <3>1. IsDate(t) /\ InOrder(b.set.not_valid_before, t)
      BY <1>3, <2>3 DEF DateAccepted, Dates
    <3>2. set.not_valid_after = t /\ set.not_valid_before = b.set.not_valid_before
      BY <1>4, <1>5, <2>3, RequiredFields
    <3>3. QED
      BY <1>2, <1>5, <2>1, <3>1, <3>2 DEF DatesOk, InWindow, set, f, t
  <2>4. CASE f \notin {"not_valid_before", "not_valid_after"}
    <3>1. set.not_valid_after = b.set.not_valid_after /\ set.not_valid_before = b.set.not_valid_before
      BY <1>4, <1>5, <2>4, RequiredFields
    <3>2. QED
      BY <1>2, <1>5, <2>1, <3>1 DEF DatesOk, set, f, t
  <2>5. QED
    BY <2>2, <2>3, <2>4
<1>6. CASE kind = "crl"
  <2>1. InWindow(b.set.last_update, b.set.next_update)
    BY <1>6 DEF DatesOk
  <2>2. CASE f = "last_update"
    <3>1. IsDate(t) /\ InOrder(t, b.set.next_update)
      BY <1>3, <2>2 DEF DateAccepted, Dates
    <3>2. set.last_update = t /\ set.next_update = b.set.next_update
      BY <1>4, <1>6, <2>2, RequiredFields
    <3>3. QED
      BY <1>2, <1>6, <2>1, <3>1, <3>2 DEF DatesOk, InWindow, set, f, t
  <2>3. CASE f = "next_update"
    <3>1. IsDate(t) /\ InOrder(b.set.last_update, t)
      BY <1>3, <2>3 DEF DateAccepted, Dates
    <3>2. set.next_update = t /\ set.last_update = b.set.last_update
      BY <1>4, <1>6, <2>3, RequiredFields
    <3>3. QED
      BY <1>2, <1>6, <2>1, <3>1, <3>2 DEF DatesOk, InWindow, set, f, t
  <2>4. CASE f \notin {"last_update", "next_update"}
    <3>1. set.next_update = b.set.next_update /\ set.last_update = b.set.last_update
      BY <1>4, <1>6, <2>4, RequiredFields
    <3>2. QED
      BY <1>2, <1>6, <2>1, <3>1 DEF DatesOk, set, f, t
  <2>5. QED
    BY <2>2, <2>3, <2>4
<1>7. QED
  BY <1>5, <1>6

DatesInv ==
  builder.kind \in {"certificate", "crl"} =>
    /\ DatesOk(builder.kind, builder.set)
    /\ output # Nil => \A f \in Required[builder.kind] : builder.set[f] # Nil

LEMMA DatesInvInit ==
  ASSUME DocumentInit PROVE DatesInv
<1>1. PICK kind \in Kinds :
        builder = [kind |-> kind, set |-> [f \in FieldsOf(kind) |-> Nil], list |-> << >>]
  BY DEF DocumentInit
<1>2. SUFFICES ASSUME kind \in {"certificate", "crl"} PROVE DatesInv
  BY <1>1 DEF DatesInv
<1>3. builder.kind = kind /\ builder.set = [f \in Required[kind] |-> Nil] /\ output = Nil
  BY <1>1, <1>2, RequiredFields DEF FieldsOf, RequiredOf, DocumentInit
<1>4. DatesOk(kind, builder.set)
  BY <1>2, <1>3, RequiredFields DEF DatesOk, InWindow, InOrder
<1>5. QED
  BY <1>3, <1>4 DEF DatesInv

LEMMA DatesInvNext ==
  ASSUME DocumentsInv, DatesInv, [DocumentNext]_documentVars PROVE DatesInv'
<1>1. BuilderInv
  BY DEF DocumentsInv
<1>2. CASE Set
  <2>1. PICK i \in Inputs[builder.kind] :
          /\ output = Nil /\ UNCHANGED << output, doc, cell >>
          /\ IF builder.kind \in DOMAIN Required THEN Accepts(builder, i.field, i.v)
             ELSE OcspAccepts(builder, i.field, i.v)
          /\ builder' = [builder EXCEPT !.set[i.field] = Stored(i.field, i.v)]
    BY <1>2 DEF Set
  <2>2. builder'.kind = builder.kind /\ builder'.set = [builder.set EXCEPT ![i.field] = Stored(i.field, i.v)]
    BY <1>1, <2>1 DEF BuilderInv
  <2>3. SUFFICES ASSUME builder.kind \in {"certificate", "crl"} PROVE DatesInv'
    BY <2>2 DEF DatesInv
  <2>4. Accepts(builder, i.field, i.v) /\ DatesOk(builder.kind, builder.set)
    BY <2>1, <2>3, RequiredFields DEF DatesInv
  <2>5. DatesOk(builder.kind, [builder.set EXCEPT ![i.field] = Stored(i.field, i.v)])
    BY <2>3, <2>4, SetterKeepsDates
  <2>6. QED
    BY <2>1, <2>2, <2>5 DEF DatesInv
<1>3. CASE AddRevoked
  <2>1. PICK r \in Revoked :
          /\ output = Nil /\ UNCHANGED << output, doc, cell >>
          /\ builder' = [builder EXCEPT !.list = Append(@, r)]
    BY <1>3 DEF AddRevoked
  <2>2. builder'.kind = builder.kind /\ builder'.set = builder.set
    BY <1>1, <2>1 DEF BuilderInv
  <2>3. QED
    BY <2>1, <2>2 DEF DatesInv
<1>4. CASE AddAttribute
  <2>1. PICK a \in ListInputs[builder.kind] :
          builder.kind = "request" /\ builder' = [builder EXCEPT !.list = Append(@, a)]
    BY <1>4 DEF AddAttribute
  <2>2. builder'.kind = "request"
    BY <1>1, <2>1 DEF BuilderInv
  <2>3. QED
    BY <2>2 DEF DatesInv
<1>5. CASE SignDocument
  <2>1. UNCHANGED builder /\ \A f \in RequiredOf(builder.kind) : builder.set[f] # Nil
    BY <1>5 DEF SignDocument, Ready
  <2>2. QED
    BY <2>1, RequiredFields DEF DatesInv, RequiredOf
<1>6. CASE Build
  BY <1>6 DEF Build, DatesInv
<1>7. CASE BuildUnsuccessful
  BY <1>7 DEF BuildUnsuccessful, DatesInv
<1>8. CASE Load
  BY <1>8 DEF Load, DatesInv
<1>9. CASE GetItem
  BY <1>9 DEF GetItem, DatesInv
<1>10. CASE UNCHANGED documentVars
  BY <1>10 DEF documentVars, DatesInv
<1>11. QED
  BY <1>2, <1>3, <1>4, <1>5, <1>6, <1>7, <1>8, <1>9, <1>10 DEF DocumentNext

\* The dates of a certificate or revocation list as it was filled in, to the tick
BuilderWindow ==
  IF builder.kind = "certificate"
  THEN << WholeTicks(builder.set.not_valid_before), WholeTicks(builder.set.not_valid_after) >>
  ELSE << WholeTicks(builder.set.last_update), WholeTicks(builder.set.next_update) >>

DatesReadBack == Received /\ doc.kind # "request" => Window(doc) = BuilderWindow

LEMMA DatesRead ==
  ASSUME DocumentsInv, DatesInv PROVE DatesReadBack /\ WindowsAreOrdered
<1>1. SUFFICES ASSUME Received, doc.kind # "request"
               PROVE  Window(doc) = BuilderWindow /\ Window(doc)[1] <= Window(doc)[2]
  BY DEF DatesReadBack, WindowsAreOrdered
<1>2. /\ builder.kind \in Kinds /\ ByBuilder(builder, output) /\ output # Nil /\ output.result.error = "ok"
      /\ doc \in {Sent} \cup Damaged(Sent) /\ doc.kind \in X509
  BY <1>1 DEF DocumentsInv, BuilderInv, OutputInv, DocInv, Received
<1>3. doc.kind = builder.kind
  BY <1>2, LoadedKind DEF Sent
<1>4. builder.kind \in {"certificate", "crl"}
  BY <1>1, <1>2, <1>3 DEF X509
<1>5. /\ MadeBy(Sent, output.by) /\ Sent.kind = builder.kind
      /\ builder.kind = "certificate" => CertificateContents(builder, Sent.tbs)
      /\ builder.kind = "crl" => CrlContents(builder, Sent.tbs)
  BY <1>2, <1>3, SentX509 DEF Sent
<1>6. Sent = Signed4(Sent.kind, Sent.tbs, Sent.alg, Sent.sig)
  BY <1>5 DEF MadeBy
<1>7. \A f \in DOMAIN Sent.tbs : f \notin {"alg", "issuer", "version"} => doc.tbs[f] = Sent.tbs[f]
  BY <1>2, <1>4, <1>5, <1>6, DamagedDates
<1>8. DatesOk(builder.kind, builder.set) /\ \A f \in Required[builder.kind] : builder.set[f] # Nil
  BY <1>2, <1>4 DEF DatesInv
<1>9. CASE builder.kind = "certificate"
  <2> DEFINE first == builder.set.not_valid_before
             second == builder.set.not_valid_after
  <2>1. first # Nil /\ second # Nil
    BY <1>8, <1>9, RequiredFields
  <2>2. IsDate(first) /\ IsDate(second) /\ first <= second
    BY <1>8, <1>9, <2>1 DEF DatesOk, InWindow, InOrder
  <2>3. doc.tbs.not_before = time_from_py(Naive(first)).v /\ doc.tbs.not_after = time_from_py(Naive(second)).v
    BY <1>5, <1>7, <1>9 DEF CertificateContents
  <2> HIDE DEF first, second
  <2>4. as_datetime(doc.tbs.not_before) = WholeTicks(first) /\ as_datetime(doc.tbs.not_after) = WholeTicks(second)
    BY <2>2, <2>3, TimeReadsBack DEF IsDate
  <2>5. Window(doc) = << WholeTicks(first), WholeTicks(second) >>
    BY <1>3, <1>9, <2>4 DEF Window
  <2>6. WholeTicks(first) <= WholeTicks(second)
    BY <2>2, TicksInOrder DEF IsDate
  <2>7. QED
    BY <1>9, <2>5, <2>6 DEF BuilderWindow, first, second
<1>10. CASE builder.kind = "crl"
  <2> DEFINE first == builder.set.last_update
             second == builder.set.next_update
  <2>1. first # Nil /\ second # Nil
    BY <1>8, <1>10, RequiredFields
  <2>2. IsDate(first) /\ IsDate(second) /\ first <= second
    BY <1>8, <1>10, <2>1 DEF DatesOk, InWindow, InOrder
  <2>3. doc.tbs.last_update = time_from_py(Naive(first)).v /\ doc.tbs.next_update = time_from_py(Naive(second)).v
    BY <1>5, <1>7, <1>10 DEF CrlContents
  <2> HIDE DEF first, second
  <2>4. as_datetime(doc.tbs.last_update) = WholeTicks(first) /\ as_datetime(doc.tbs.next_update) = WholeTicks(second)
    BY <2>2, <2>3, TimeReadsBack DEF IsDate
  <2>5. Window(doc) = << WholeTicks(first), WholeTicks(second) >>
    BY <1>3, <1>10, <2>4 DEF Window
  <2>6. WholeTicks(first) <= WholeTicks(second)
    BY <2>2, TicksInOrder DEF IsDate
  <2>7. QED
    BY <1>10, <2>5, <2>6 DEF BuilderWindow, first, second
<1>11. QED
  BY <1>4, <1>9, <1>10

-----------------------------------------------------------------------------
(* Powers of two, and numbers in bytes                                     *)

\* Induction, for a set of natural numbers
LEMMA ByInduction ==
  ASSUME NEW T, 0 \in T, \A m \in Nat : m \in T => m + 1 \in T
  PROVE  \A m \in Nat : m \in T
<1> DEFINE Out == {m \in Nat : m \notin T}
<1> SUFFICES ASSUME Out # {} PROVE FALSE
  OBVIOUS
<1>1. Out \in SUBSET Nat
  OBVIOUS
<1> HIDE DEF Out
<1>2. PICK m \in Out : \A k \in Out : m <= k
  BY <1>1, LeastIndex
<1>3. m \in Nat /\ m \notin T /\ m # 0
  BY <1>2 DEF Out
<1>4. m - 1 \in Nat /\ m - 1 \in T /\ (m - 1) + 1 = m
  BY <1>2, <1>3 DEF Out
<1>5. QED
  BY <1>3, <1>4

\* f[k] is two to the k, up to n
Doubles(f, n) == f[0] = 1 /\ \A k \in 0 .. n - 1 : f[k + 1] = 2 * f[k]
Doubling(n) == {f \in [0 .. n -> Nat] : Doubles(f, n)}

\* Two is defined: there are such functions, and they agree
LEMMA DoublingExists == \A n \in Nat : Doubling(n) # {}
<1> DEFINE T == {n \in Nat : Doubling(n) # {}}
<1>1. 0 \in T
  <2>1. [k \in 0 .. 0 |-> 1] \in Doubling(0)
    BY DEF Doubling, Doubles
  <2>2. QED
    BY <2>1
<1>2. ASSUME NEW n \in Nat, n \in T PROVE n + 1 \in T
  <2>1. PICK f \in [0 .. n -> Nat] : Doubles(f, n)
    BY <1>2 DEF Doubling
  <2> DEFINE g == [k \in 0 .. n + 1 |-> IF k = n + 1 THEN 2 * f[n] ELSE f[k]]
  <2>2. g \in [0 .. n + 1 -> Nat]
    BY <2>1
  <2>3. Doubles(g, n + 1)
    BY <2>1 DEF Doubles
  <2> HIDE DEF g
  <2>4. g \in Doubling(n + 1)
    BY <2>2, <2>3 DEF Doubling
  <2>5. QED
    BY <1>2, <2>4
<1>3. \A n \in Nat : n \in T
  <2> HIDE DEF T
  <2>1. QED
    BY <1>1, <1>2, ByInduction
<1>4. QED
  BY <1>3

LEMMA DoublingUnique ==
  ASSUME NEW m \in Nat, NEW n \in Nat, NEW f \in Doubling(m), NEW g \in Doubling(n)
  PROVE  \A k \in Nat : k <= m /\ k <= n => f[k] = g[k]
<1> DEFINE T == {k \in Nat : k <= m /\ k <= n => f[k] = g[k]}
<1>0. Doubles(f, m) /\ Doubles(g, n)
  BY DEF Doubling
<1>1. 0 \in T
  BY <1>0 DEF Doubles
<1>2. ASSUME NEW k \in Nat, k \in T PROVE k + 1 \in T
  BY <1>0, <1>2 DEF Doubles
<1>3. \A k \in Nat : k \in T
  <2> HIDE DEF T
  <2>1. QED
    BY <1>1, <1>2, ByInduction
<1>4. QED
  BY <1>3

\* A function that satisfies the recursion of Two
LEMMA TwoExists ==
  \E f : f = [n \in Nat |-> IF n = 0 THEN 1 ELSE 2 * f[n - 1]]
<1> DEFINE up(n) == CHOOSE f : f \in Doubling(n)
           F == [n \in Nat |-> up(n)[n]]
<1>1. \A n \in Nat : up(n) \in Doubling(n)
  BY DoublingExists
<1> HIDE DEF up
<1>2. F[0] = 1
  <2>1. Doubles(up(0), 0)
    BY <1>1 DEF Doubling
  <2>2. QED
    BY <2>1 DEF Doubles
<1>3. ASSUME NEW n \in Nat, n # 0 PROVE F[n] = 2 * F[n - 1]
  <2>1. n - 1 \in Nat /\ n - 1 \in 0 .. n - 1 /\ (n - 1) + 1 = n
    BY <1>3
  <2>2. Doubles(up(n), n)
    BY <1>1 DEF Doubling
  <2>3. up(n)[n] = 2 * up(n)[n - 1]
    BY <2>1, <2>2 DEF Doubles
  <2>4. up(n) \in Doubling(n) /\ up(n - 1) \in Doubling(n - 1)
    BY <1>1, <2>1
  <2>5. up(n)[n - 1] = up(n - 1)[n - 1]
    BY <2>1, <2>4, DoublingUnique
  <2>6. QED
    BY <2>1, <2>3, <2>5
<1>4. F = [n \in Nat |-> F[n]]
  OBVIOUS
<1> HIDE DEF F
<1>5. F = [n \in Nat |-> IF n = 0 THEN 1 ELSE 2 * F[n - 1]]
  BY <1>2, <1>3, <1>4
<1>6. QED
  BY <1>5

\* Two is the function that its definition describes
LEMMA TwoDef == Two = [n \in Nat |-> IF n = 0 THEN 1 ELSE 2 * Two[n - 1]]
<1> DEFINE P(f) == f = [n \in Nat |-> IF n = 0 THEN 1 ELSE 2 * f[n - 1]]
<1>1. Two = CHOOSE f : P(f)
  BY DEF Two
<1>2. \E f : P(f)
  BY TwoExists
<1>3. P(CHOOSE f : P(f))
  BY <1>2, Zenon
<1>4. QED
  BY <1>1, <1>3, Zenon

LEMMA TwoSteps == Two[0] = 1 /\ \A n \in Nat : Two[n + 1] = 2 * Two[n]
<1>1. \A n \in Nat : Two[n] = IF n = 0 THEN 1 ELSE 2 * Two[n - 1]
  BY TwoDef, Zenon
<1>2. \A n \in Nat : n + 1 \in Nat /\ n + 1 # 0 /\ (n + 1) - 1 = n
  OBVIOUS
<1>3. \A n \in Nat : Two[n + 1] = 2 * Two[n]
  BY <1>1, <1>2
<1>4. QED
  BY <1>1, <1>3

LEMMA TwoPositive == \A n \in Nat : Two[n] \in Nat \ {0}
<1> DEFINE T == {n \in Nat : Two[n] \in Nat \ {0}}
<1>1. 0 \in T /\ \A n \in Nat : n \in T => n + 1 \in T
  BY TwoSteps
<1>2. \A n \in Nat : n \in T
  <2> HIDE DEF T
  <2>1. QED
    BY <1>1, ByInduction
<1>3. QED
  BY <1>2

\* Two to the a times two to the b is two to the a + b
LEMMA TwoSum ==
  ASSUME NEW m \in Nat
  PROVE  \A n \in Nat : Two[m + n] = Two[m] * Two[n]
<1> DEFINE T == {n \in Nat : Two[m + n] = Two[m] * Two[n]}
<1>1. 0 \in T
  BY TwoSteps, TwoPositive
<1>2. ASSUME NEW n \in Nat, n \in T PROVE n + 1 \in T
  <2> DEFINE p == Two[m]
             q == Two[n]
  <2>1. p \in Nat /\ q \in Nat /\ Two[m + n] = p * q
    BY <1>2, TwoPositive
  <2>2. Two[m + (n + 1)] = 2 * Two[m + n]
    <3>1. m + n \in Nat /\ m + (n + 1) = (m + n) + 1
      OBVIOUS
    <3>2. QED
      BY <3>1, TwoSteps
  <2>3. Two[n + 1] = 2 * q
    BY TwoSteps
  <2> HIDE DEF p, q
  <2>4. 2 * (p * q) = p * (2 * q)
    BY <2>1
  <2>5. QED
    BY <2>1, <2>2, <2>3, <2>4 DEF p, q
<1>3. \A n \in Nat : n \in T
  <2> HIDE DEF T
  <2>1. QED
    BY <1>1, <1>2, ByInduction
<1>4. QED
  BY <1>3

LEMMA TwoMonotone ==
  ASSUME NEW m \in Nat, NEW n \in Nat, m <= n
  PROVE  Two[m] <= Two[n]
<1> DEFINE p == Two[m]
           q == Two[n - m]
<1>1. n - m \in Nat /\ m + (n - m) = n
  OBVIOUS
<1>2. Two[n] = p * q /\ p \in Nat /\ q \in Nat \ {0}
  <2>1. Two[m + (n - m)] = Two[m] * Two[n - m]
    BY <1>1, TwoSum, Zenon
  <2>2. QED
    BY <1>1, <2>1, TwoPositive
<1> HIDE DEF p, q
<1>3. p <= p * q
  BY <1>2
<1>4. QED
  BY <1>2, <1>3 DEF p

\* The only quotient
LEMMA Quotient ==
  ASSUME NEW a \in Nat, NEW b \in Nat \ {0}
  PROVE  a \div b \in Nat /\ (a \div b) * b <= a /\ a < (a \div b) * b + b
         /\ a % b = a - (a \div b) * b
<1>1. a \div b \in Nat /\ a % b \in 0 .. b - 1 /\ a = b * (a \div b) + (a % b)
  OBVIOUS
<1>2. QED
  BY <1>1

\* Quotient and remainder are the only ones
LEMMA QuotientUnique ==
  ASSUME NEW a \in Nat, NEW b \in Nat \ {0}, NEW q \in Nat, q * b <= a, a < q * b + b
  PROVE  a \div b = q
<1> DEFINE r == a \div b
<1>1. r \in Nat /\ r * b <= a /\ a < r * b + b
  BY Quotient
<1> HIDE DEF r
<1>2. CASE r < q
  <2>1. r + 1 <= q
    BY <1>1, <1>2
  <2>2. (r + 1) * b <= q * b
    BY <1>1, <2>1
  <2>3. QED
    BY <1>1, <2>2
<1>3. CASE q < r
  <2>1. q + 1 <= r
    BY <1>1, <1>3
  <2>2. (q + 1) * b <= r * b
    BY <1>1, <2>1
  <2>3. QED
    BY <1>1, <2>2
<1>4. QED
  BY <1>1, <1>2, <1>3 DEF r

\* Dividing twice
LEMMA QuotientOfQuotient ==
  ASSUME NEW a \in Nat, NEW b \in Nat \ {0}, NEW c \in Nat \ {0}
  PROVE  (a \div b) \div c = a \div (b * c)
<1> DEFINE q == a \div b
           t == q \div c
<1>1. q \in Nat /\ q * b <= a /\ a < q * b + b
  BY Quotient
<1> HIDE DEF q
<1>2. t \in Nat /\ t * c <= q /\ q < t * c + c
  BY <1>1, Quotient
<1> HIDE DEF t
<1>3. b * c \in Nat \ {0}
  OBVIOUS
<1>4. t * (b * c) <= a
  <2>1. (t * c) * b <= q * b
    BY <1>1, <1>2
  <2>2. (t * c) * b = t * (b * c)
    BY <1>2
  <2>3. QED
    BY <1>1, <1>2, <1>3, <2>1, <2>2
<1>5. a < t * (b * c) + b * c
  <2>1. (q + 1) * b <= (t * c + c) * b
    BY <1>1, <1>2
  <2>2. (t * c + c) * b = t * (b * c) + b * c
    BY <1>2
  <2>3. (q + 1) * b = q * b + b
    BY <1>1
  <2>4. QED
    BY <1>1, <1>2, <1>3, <2>1, <2>2, <2>3
<1>6. a \div (b * c) = t
  BY <1>2, <1>3, <1>4, <1>5, QuotientUnique
<1>7. QED
  BY <1>6 DEF t, q

\* A quotient is small when the number is
LEMMA SmallQuotient ==
  ASSUME NEW a \in Nat, NEW b \in Nat \ {0}, NEW c \in Nat
  PROVE  a \div b < c <=> a < b * c
<1> DEFINE q == a \div b
<1>1. q \in Nat /\ q * b <= a /\ a < q * b + b
  BY Quotient
<1> HIDE DEF q
<1>2. CASE q < c
  <2>1. q + 1 <= c
    BY <1>1, <1>2
  <2>2. (q + 1) * b <= b * c
    BY <1>1, <2>1
  <2>3. QED
    BY <1>1, <1>2, <2>2 DEF q
<1>3. CASE ~(q < c)
  <2>1. b * c <= q * b
    BY <1>1, <1>3
  <2>2. QED
    BY <1>1, <1>3, <2>1 DEF q
<1>4. QED
  BY <1>2, <1>3

-----------------------------------------------------------------------------
\* f[i] is the number in the first i bytes of s
Reads(f, s) == f = [i \in 0 .. Len(s) |-> IF i = 0 THEN 0 ELSE f[i - 1] * Byte + s[i]]

\* FromBytes is the last of the numbers of its prefixes
LEMMA FromBytesDef ==
  ASSUME NEW s PROVE FromBytes(s) = (CHOOSE f : Reads(f, s))[Len(s)]
BY DEF FromBytes, Reads

LEMMA ByteFacts ==
  /\ ByteBits \in Nat /\ ByteBits >= 2 /\ ByteBits - 1 \in Nat
  /\ Byte \in Nat \ {0} /\ Byte = 2 * Two[ByteBits - 1] /\ Byte \div 2 = Two[ByteBits - 1]
  /\ Two[ByteBits - 1] \in Nat \ {0}
<1>1. ByteBits \in Nat /\ ByteBits >= 2 /\ ByteBits - 1 \in Nat /\ (ByteBits - 1) + 1 = ByteBits
  BY ByteNumbersAssumption
<1>2. Two[ByteBits - 1] \in Nat \ {0} /\ Two[ByteBits] \in Nat \ {0}
  BY <1>1, TwoPositive
<1>3. Byte = 2 * Two[ByteBits - 1]
  BY <1>1, TwoSteps DEF Byte
<1>4. QED
  BY <1>1, <1>2, <1>3 DEF Byte

\* The number in the first i of n bytes of v
LEMMA Prefix ==
  ASSUME NEW v \in Nat, NEW n \in Nat, NEW i \in 1 .. n
  PROVE  /\ v \div Two[ByteBits * (n - i)] \in Nat
         /\ v \div Two[ByteBits * (n - (i - 1))] = (v \div Two[ByteBits * (n - i)]) \div Byte
         /\ v \div Two[ByteBits * (n - i)]
              = (v \div Two[ByteBits * (n - (i - 1))]) * Byte + ((v \div Two[ByteBits * (n - i)]) % Byte)
<1> DEFINE k == ByteBits * (n - i)
           p == Two[k]
           q == v \div p
<1>0. Byte \in Nat \ {0} /\ ByteBits \in Nat
  BY ByteFacts
<1>1. k \in Nat /\ ByteBits * (n - (i - 1)) = k + ByteBits
  BY <1>0
<1> HIDE DEF k
<1>2. p \in Nat \ {0} /\ Two[k + ByteBits] = p * Byte
  BY <1>0, <1>1, TwoSum, TwoPositive DEF Byte
<1> HIDE DEF p
<1>3. q \in Nat
  BY <1>2, Quotient
<1>4. v \div (p * Byte) = q \div Byte
  BY <1>0, <1>2, QuotientOfQuotient
<1> HIDE DEF q
<1>5. q = (q \div Byte) * Byte + (q % Byte)
  BY <1>0, <1>3
<1>6. QED
  BY <1>1, <1>2, <1>3, <1>4, <1>5 DEF q, p, k

\* What int.from_bytes reads is what int.to_bytes wrote
LEMMA BytesReadBack ==
  ASSUME NEW v \in Nat, NEW n \in Nat, v < Two[ByteBits * n]
  PROVE  FromBytes(ToBytes(v, n)) = v
<1> DEFINE s == ToBytes(v, n)
           q(i) == v \div Two[ByteBits * (n - i)]
           F == [i \in 0 .. n |-> q(i)]
           f == CHOOSE g : Reads(g, s)
<1>1. Len(s) = n /\ \A i \in 1 .. n : s[i] = q(i) % Byte
  BY DEF ToBytes
<1>2. q(0) = 0
  <2> DEFINE p == Two[ByteBits * n]
  <2>1. p \in Nat \ {0} /\ v < p /\ n - 0 = n
    BY ByteFacts, TwoPositive
  <2> HIDE DEF p
  <2>2. v \div p = 0
    BY <2>1
  <2>3. QED
    BY <2>1, <2>2 DEF p
<1>3. q(n) = v
  <2>1. ByteBits * (n - n) = 0
    BY ByteFacts
  <2>2. QED
    BY <2>1, TwoSteps
<1>4. \A i \in 1 .. n : q(i) = q(i - 1) * Byte + (q(i) % Byte)
  BY Prefix
<1> HIDE DEF q, s
<1>5. Reads(F, s)
  <2>1. \A i \in 0 .. n : F[i] = IF i = 0 THEN 0 ELSE F[i - 1] * Byte + s[i]
    BY <1>1, <1>2, <1>4
  <2>2. F = [i \in 0 .. n |-> F[i]]
    OBVIOUS
  <2> HIDE DEF F
  <2>3. QED
    BY <1>1, <2>1, <2>2 DEF Reads
<1>6. Reads(f, s)
  BY <1>5, Zenon
<1> HIDE DEF f
<1>7. \A i \in 0 .. n : f[i] = IF i = 0 THEN 0 ELSE f[i - 1] * Byte + s[i]
  BY <1>1, <1>6, Zenon DEF Reads
<1> DEFINE T == {i \in Nat : i <= n => f[i] = q(i)}
<1>8. 0 \in T
  BY <1>2, <1>7
<1>9. ASSUME NEW i \in Nat, i \in T PROVE i + 1 \in T
  <2>1. SUFFICES ASSUME i + 1 <= n PROVE f[i + 1] = q(i + 1)
    OBVIOUS
  <2>2. i + 1 \in 1 .. n /\ i + 1 \in 0 .. n /\ (i + 1) - 1 = i /\ i + 1 # 0 /\ f[i] = q(i)
    BY <1>9, <2>1
  <2>3. f[i + 1] = f[i] * Byte + s[i + 1]
    BY <1>7, <2>2
  <2>4. q(i + 1) = q(i) * Byte + s[i + 1]
    BY <1>1, <1>4, <2>2
  <2>5. QED
    BY <2>2, <2>3, <2>4
<1>10. \A i \in Nat : i \in T
  <2> HIDE DEF T
  <2>1. QED
    BY <1>8, <1>9, ByInduction
<1>11. f[n] = v
  BY <1>3, <1>10
<1>12. QED
  BY <1>1, <1>11, FromBytesDef DEF f, s

-----------------------------------------------------------------------------
\* BitLength is the least length that a number fits in
LEMMA BitLengthFacts ==
  ASSUME NEW v \in Nat, v < Two[MaxBits]
  PROVE  /\ BitLength(v) \in Nat /\ v < Two[BitLength(v)]
         /\ BitLength(v) = 0 \/ Two[BitLength(v) - 1] <= v
<1> DEFINE T == {n \in Nat : v < Two[n]}
<1>1. MaxBits \in Nat /\ MaxBits \in T /\ T \in SUBSET Nat
  BY ByteNumbersAssumption
<1> HIDE DEF T
<1>2. PICK n \in T : \A k \in T : n <= k
  BY <1>1, LeastIndex
<1>3. n \in 0 .. MaxBits /\ v < Two[n]
  BY <1>1, <1>2 DEF T
<1>4. n = 0 \/ Two[n - 1] <= v
  <2>1. SUFFICES ASSUME n # 0, ~(Two[n - 1] <= v) PROVE FALSE
    OBVIOUS
  <2>2. n - 1 \in Nat /\ Two[n - 1] \in Nat
    BY <1>3, <2>1, TwoPositive
  <2>3. n - 1 \in T
    BY <2>1, <2>2 DEF T
  <2>4. QED
    BY <1>2, <1>3, <2>3
<1>5. \E m \in 0 .. MaxBits : v < Two[m] /\ (m = 0 \/ Two[m - 1] <= v)
  BY <1>3, <1>4
<1>6. BitLength(v) \in 0 .. MaxBits /\ v < Two[BitLength(v)] /\ (BitLength(v) = 0 \/ Two[BitLength(v) - 1] <= v)
  BY <1>5, Zenon DEF BitLength
<1>7. QED
  BY <1>1, <1>6

\* The bytes of a number that is not negative: the top bit is clear, and one
\* byte less would not do
LEMMA SerialBytes ==
  ASSUME NEW v \in Nat, v < Two[MaxBits]
  PROVE  LET s == ToBytes(v, SignedLength(v))
         IN  /\ IsBigUint(s) /\ big_byte_slice_to_py_int(s) = v
<1> DEFINE b == ByteBits
           n == BitLength(v)
           l == n \div b
           L == SignedLength(v)
           s == ToBytes(v, L)
           h == Two[b - 1]
<1>1. b \in Nat \ {0} /\ b >= 2 /\ b - 1 \in Nat /\ h \in Nat \ {0} /\ Byte = 2 * h /\ Byte \div 2 = h /\ Byte \in Nat \ {0}
  BY ByteFacts
<1>2. n \in Nat /\ v < Two[n] /\ (n = 0 \/ Two[n - 1] <= v)
  BY BitLengthFacts
<1> HIDE DEF b, n, h
<1>3. l \in Nat /\ l * b <= n /\ n < l * b + b /\ L = l + 1
  BY <1>1, <1>2, Quotient DEF SignedLength, b, n
<1> HIDE DEF l, L
<1>4. L \in Nat /\ Len(s) = L /\ s # << >> /\ \A i \in 1 .. L : s[i] = (v \div Two[b * (L - i)]) % Byte
  BY <1>3 DEF ToBytes, b
<1> HIDE DEF s
<1> DEFINE p == Two[b * l]
<1>5. b * l \in Nat /\ p \in Nat \ {0}
  BY <1>1, <1>3, TwoPositive
<1>6. v < p * h
  <2>1. Two[b * l + (b - 1)] = p * h
    BY <1>1, <1>5, TwoSum DEF h
  <2>2. n <= b * l + (b - 1) /\ b * l + (b - 1) \in Nat
    BY <1>1, <1>2, <1>3
  <2>3. Two[n] <= Two[b * l + (b - 1)] /\ Two[n] \in Nat
    BY <1>2, <2>2, TwoMonotone, TwoPositive
  <2> HIDE DEF p
  <2>4. p * h \in Nat
    BY <1>1, <1>5
  <2>5. QED
    BY <1>2, <2>1, <2>3, <2>4
<1>7. s[1] = v \div p /\ s[1] < h /\ s[1] \in Nat
  <2>1. v \div p \in Nat /\ v \div p < h
    BY <1>1, <1>5, <1>6, SmallQuotient, Quotient
  <2>2. 1 \in 1 .. L /\ L - 1 = l
    BY <1>3
  <2>3. s[1] = (v \div p) % Byte
    BY <1>4, <2>2
  <2>4. (v \div p) % Byte = v \div p
    <3> DEFINE q == v \div p
    <3>1. q \in Nat /\ q < Byte
      BY <1>1, <2>1
    <3> HIDE DEF q
    <3>2. q % Byte = q
      BY <1>1, <3>1
    <3>3. QED
      BY <3>2 DEF q
  <2>5. QED
    BY <2>1, <2>3, <2>4
<1>8. ASSUME L > 1, s[1] = 0, s[2] < h PROVE FALSE
  <2> DEFINE r == Two[b * (l - 1)]
             q == v \div r
  <2>1. l >= 1 /\ l - 1 \in Nat /\ b * (l - 1) \in Nat /\ b * l = b * (l - 1) + b /\ 2 \in 1 .. L /\ L - 2 = l - 1
    BY <1>1, <1>3, <1>8
  <2>2. r \in Nat \ {0} /\ p = r * Byte
    BY <1>1, <2>1, TwoSum, TwoPositive DEF Byte, b
  <2>3. v < p * 1
    BY <1>5, <1>7, <1>8, SmallQuotient
  <2>4. v < r * Byte
    BY <1>5, <2>2, <2>3
  <2>5. q \in Nat /\ q < Byte
    BY <1>1, <2>2, <2>4, SmallQuotient, Quotient
  <2>6. s[2] = q % Byte
    BY <1>4, <2>1
  <2> HIDE DEF q
  <2>7. q < h
    BY <1>1, <1>8, <2>5, <2>6
  <2>8. v < r * h
    BY <1>1, <2>2, <2>7, SmallQuotient DEF q
  <2>9. Two[b * (l - 1) + (b - 1)] = r * h
    BY <1>1, <2>1, TwoSum DEF h
  <2>10. n # 0 /\ n - 1 \in Nat /\ b * (l - 1) + (b - 1) \in Nat /\ b * (l - 1) + (b - 1) <= n - 1
    BY <1>1, <1>2, <1>3, <2>1
  <2>11. r * h <= Two[n - 1] /\ Two[n - 1] \in Nat /\ r * h \in Nat
    BY <1>1, <2>2, <2>9, <2>10, TwoMonotone, TwoPositive
  <2>12. QED
    BY <1>2, <2>8, <2>10, <2>11
<1>9. IsBigUint(s)
  BY <1>1, <1>4, <1>7, <1>8 DEF IsBigUint
<1>10. v < Two[b * L]
  <2>1. b * L \in Nat /\ n <= b * L
    BY <1>1, <1>2, <1>3
  <2>2. QED
    BY <1>2, <2>1, TwoMonotone, TwoPositive
<1>11. FromBytes(s) = v
  BY <1>4, <1>10, BytesReadBack DEF b, s
<1>12. big_byte_slice_to_py_int(s) = v
  BY <1>1, <1>7, <1>11 DEF big_byte_slice_to_py_int
<1>13. QED
  BY <1>9, <1>12 DEF s, L

\* The encoder takes every number that is not negative, without a panic, and
\* what it writes reads back
LEMMA SerialEncoded ==
  ASSUME NEW v \in Nat, v < Two[MaxBits]
  PROVE  /\ EncodeUint(v) = py_uint_to_big_endian_bytes(v)
         /\ EncodeUint(v).error = "ok" /\ big_byte_slice_to_py_int(EncodeUint(v).v) = v
<1> DEFINE s == ToBytes(v, SignedLength(v))
<1>1. IsBigUint(s) /\ big_byte_slice_to_py_int(s) = v
  BY SerialBytes
<1> HIDE DEF s
<1>2. py_uint_to_big_endian_bytes(v) = Ok(s)
  BY DEF py_uint_to_big_endian_bytes, s
<1>3. Ok(s).error = "ok" /\ Ok(s).v = s
  BY DEF Ok
<1>4. EncodeUint(v) = Ok(s)
  BY <1>1, <1>2, <1>3 DEF EncodeUint
<1>5. QED
  BY <1>1, <1>2, <1>3, <1>4

-----------------------------------------------------------------------------
(* Revoked certificates                                                    *)

\* The formats have room for every date from 1950 on, and for no other
LEMMA TimeEncoded ==
  ASSUME NEW t \in Int
  PROVE  /\ IsDate(t) => time_from_py(Naive(t)).error = "ok" /\ as_datetime(time_from_py(Naive(t)).v) = WholeTicks(t)
         /\ time_from_py(Naive(t)).error = "ok" => IsDate(t)
         /\ time_from_py([at |-> t, offset |-> 0]) = time_from_py(Naive(t))
<1> DEFINE k == WholeTicks(t)
<1>1. k \in Int /\ (IsDate(t) <=> k >= 1950 * TicksPerYear)
  BY TickOf, TickFrom1950 DEF IsDate
<1>2. IsDate(t) => as_datetime(time_from_py(Naive(t)).v) = k
  BY TimeReadsBack DEF IsDate
<1>3. time_from_py(Naive(t)) = time_from_datetime(k)
  BY DEF time_from_py, py_to_datetime, Naive
<1>4. time_from_py([at |-> t, offset |-> 0]) = time_from_datetime(k)
  <2>1. t - 0 = t /\ 0 # Nil
    BY InputsAssumption
  <2>2. QED
    BY <2>1 DEF time_from_py, py_to_datetime
<1> HIDE DEF k
<1>5. YearOf(k) \in Int /\ (k >= 1950 * TicksPerYear <=> ~(YearOf(k) < 1950))
  BY <1>1, Asn1ValuesAssumption DEF YearOf
<1>6. /\ ~(YearOf(k) < 1950) => time_from_datetime(k).error = "ok"
      /\ YearOf(k) < 1950 => time_from_datetime(k).error # "ok"
  BY <1>5 DEF time_from_datetime, Ok, Err
<1>7. QED
  BY <1>1, <1>2, <1>3, <1>4, <1>5, <1>6 DEF k

LEMMA DateEncoded ==
  ASSUME NEW t, IsDate(t)
  PROVE  time_from_py(Naive(t)).error = "ok"
BY TimeEncoded DEF IsDate

\* The fields of a revoked certificate: only the date of a loaded one may be early
LEMMA RevokedFields ==
  ASSUME NEW r \in Revoked
  PROVE  /\ r.serial \in Nat /\ r.serial < Two[MaxBits] /\ r.date \in Int
         /\ Encodable(r) \/ \E e \in ExistingEntries : r = LoadedRevokedCertificate(e)
<1>1. CASE \E e \in ListInputs.crl : RevokedAccepted(e) /\ r = RevokedCertificate(e)
  <2>1. PICK e \in ListInputs.crl : RevokedAccepted(e) /\ r = RevokedCertificate(e)
    BY <1>1
  <2>2. e.serial \in Int /\ e.serial < Two[MaxBits] /\ e.date.at \in Int /\ e.date.offset \in Int \cup {Nil}
    BY ListInputsAssumption DEF IsNumber, IsDatetime
  <2>3. e.serial > 0 /\ convert_to_naive_utc_time(e.date) >= EarliestUtcTime
    BY <2>1 DEF RevokedAccepted, serial_number
  <2>4. convert_to_naive_utc_time(e.date) \in Int
    BY <2>2 DEF convert_to_naive_utc_time
  <2>5. r.serial = e.serial /\ r.date = convert_to_naive_utc_time(e.date)
    BY <2>1 DEF RevokedCertificate
  <2>6. QED
    BY <2>2, <2>3, <2>4, <2>5 DEF Encodable
<1>2. CASE \E e \in ExistingEntries : r = LoadedRevokedCertificate(e)
  <2>1. PICK e \in ExistingEntries : r = LoadedRevokedCertificate(e)
    BY <1>2
  <2> DEFINE n == big_byte_slice_to_py_int(e.serial)
             t == as_datetime(e.date)
  <2>2. n \in 0 .. Two[MaxBits] - 1 /\ e.date.t \in Int
    BY ListInputsAssumption
  <2>3. t \in Int
    BY <2>2, Asn1ValuesAssumption DEF as_datetime, Century
  <2>4. r.serial = n /\ r.date = t * Microseconds
    BY <2>1 DEF LoadedRevokedCertificate, datetime_to_py
  <2> HIDE DEF n, t
  <2>5. n \in Nat /\ n < Two[MaxBits]
    <3>1. Two[MaxBits] \in Nat
      BY TwoPositive, ByteNumbersAssumption
    <3>2. QED
      BY <2>2, <3>1
  <2>6. t * Microseconds \in Int
    BY <2>3, Asn1ValuesAssumption
  <2>7. QED
    BY <1>2, <2>4, <2>5, <2>6
<1>3. QED
  BY <1>1, <1>2 DEF Revoked

\* The revoked certificates of which the encoding is defined
EncodableOnes == {x \in Revoked : Encodable(x)}

\* An entry of a revocation list is encoded, and its serial number reads back,
\* unless it is dated before 1950
LEMMA RevokedEncoded ==
  ASSUME NEW r \in Revoked
  PROVE  /\ EncodeRevoked(r).error = "ok" => Encodable(r)
         /\ Encodable(r) =>
              /\ EncodeRevoked(r).error = "ok" /\ EncodeRevoked(r).v \in EncodedRevoked
              /\ py_uint_to_big_endian_bytes(r.serial).error = "ok"
              /\ EncodeRevoked(r).v.serial = py_uint_to_big_endian_bytes(r.serial).v
              /\ big_byte_slice_to_py_int(EncodeRevoked(r).v.serial) = r.serial
              /\ as_datetime(EncodeRevoked(r).v.date) = WholeTicks(r.date)
<1>1. r.serial \in Nat /\ r.serial < Two[MaxBits] /\ r.date \in Int /\ (IsDate(r.date) <=> Encodable(r))
  BY RevokedFields DEF IsDate, Encodable
<1> DEFINE f == [serial |-> EncodeUint(r.serial), date |-> time_from_py([at |-> r.date, offset |-> 0])]
           order == << "serial", "date" >>
           n == EncodeUint(r.serial)
           t == time_from_py([at |-> r.date, offset |-> 0])
<1>2. /\ n = py_uint_to_big_endian_bytes(r.serial) /\ n.error = "ok" /\ big_byte_slice_to_py_int(n.v) = r.serial
  BY <1>1, SerialEncoded
<1>3. /\ Encodable(r) => t.error = "ok" /\ as_datetime(t.v) = WholeTicks(r.date)
      /\ t.error = "ok" => Encodable(r)
  BY <1>1, TimeEncoded
<1>4. EncodeRevoked(r) = Fields(f, order)
  BY DEF EncodeRevoked
<1>5. f["serial"] = n /\ f["date"] = t /\ DOMAIN f = {"serial", "date"}
  OBVIOUS
<1>6. DOMAIN order = 1 .. 2 /\ order[1] = "serial" /\ order[2] = "date"
  OBVIOUS
<1> HIDE DEF f, n, t, order
<1>7. ASSUME EncodeRevoked(r).error = "ok" PROVE Encodable(r)
  <2>1. DOMAIN order \subseteq Nat /\ 2 \in DOMAIN order
    BY <1>6
  <2>2. f[order[2]].error = "ok"
    <3>1. Fields(f, order).error = "ok"
      BY <1>4, <1>7, Zenon
    <3>2. /\ Fields(f, order).v = [x \in DOMAIN f |-> f[x].v]
          /\ \A i \in DOMAIN order : f[order[i]].error = "ok"
      BY <2>1, <3>1, FieldsOk
    <3>3. QED
      BY <2>1, <3>2, Zenon
  <2>3. t.error = "ok"
    BY <1>5, <1>6, <2>2
  <2>4. QED
    BY <1>3, <2>3, Zenon
<1>8. ASSUME Encodable(r)
      PROVE  EncodeRevoked(r).error = "ok" /\ EncodeRevoked(r).v.serial = n.v /\ EncodeRevoked(r).v.date = t.v
  <2>1. \A i \in DOMAIN order : f[order[i]].error = "ok"
    BY <1>2, <1>3, <1>5, <1>6, <1>8
  <2>2. Fields(f, order) = Ok([x \in DOMAIN f |-> f[x].v])
    BY <2>1 DEF Fields
  <2>3. QED
    BY <1>4, <1>5, <2>2 DEF Ok
<1>9. Encodable(r) => EncodeRevoked(r).v \in EncodedRevoked
  BY DEF EncodedRevoked
<1>10. QED
  BY <1>2, <1>3, <1>7, <1>8, <1>9 DEF n

\* The entries of a list
LEMMA ListEncoded ==
  ASSUME NEW list \in Seq(Revoked)
  PROVE  /\ list \in Seq(EncodableOnes) =>
              Each(list, EncodeRevoked) = Ok([i \in DOMAIN list |-> EncodeRevoked(list[i]).v])
         /\ Each(list, EncodeRevoked).error = "ok" => list \in Seq(EncodableOnes)
<1> DEFINE r == [i \in DOMAIN list |-> EncodeRevoked(list[i])]
           bad == {i \in DOMAIN list : r[i].error # "ok"}
           first == CHOOSE i \in bad : \A j \in bad : i <= j
           all == Each(list, EncodeRevoked)
<1>1. DOMAIN list \subseteq Nat /\ \A i \in DOMAIN list : list[i] \in Revoked
  OBVIOUS
<1>2. \A i \in DOMAIN list : r[i] = EncodeRevoked(list[i]) /\ (r[i].error = "ok" <=> Encodable(list[i]))
  BY <1>1, RevokedEncoded
<1>3. all = IF bad = {} THEN Ok([i \in DOMAIN list |-> r[i].v]) ELSE r[first]
  BY DEF Each
<1>4. [i \in DOMAIN list |-> r[i].v] = [i \in DOMAIN list |-> EncodeRevoked(list[i]).v]
  BY <1>2
<1> HIDE DEF r, all
<1>5. ASSUME list \in Seq(EncodableOnes) PROVE bad = {}
  <2>1. \A i \in DOMAIN list : list[i] \in EncodableOnes
    BY <1>5
  <2>2. QED
    BY <1>2, <2>1 DEF EncodableOnes
<1>6. ASSUME all.error = "ok" PROVE list \in Seq(EncodableOnes)
  <2>1. bad = {}
    <3>1. SUFFICES ASSUME bad # {} PROVE FALSE
      OBVIOUS
    <3>2. \E i \in bad : \A j \in bad : i <= j
      BY <1>1, <3>1, LeastIndex
    <3>3. first \in bad
      BY <3>2
    <3>4. QED
      BY <1>3, <1>6, <3>1, <3>3
  <2>2. \A i \in DOMAIN list : list[i] \in EncodableOnes
    BY <1>1, <1>2, <2>1 DEF EncodableOnes
  <2>3. QED
    BY <2>2
<1> HIDE DEF bad, first
<1>7. list \in Seq(EncodableOnes) => all = Ok([i \in DOMAIN list |-> EncodeRevoked(list[i]).v])
  BY <1>3, <1>4, <1>5, Zenon
<1>8. QED
  BY <1>6, <1>7, Zenon DEF all

\* How the entries of a document come from those of its builder
EntriesOf(list) == [i \in DOMAIN list |-> EncodeRevoked(list[i]).v]

\* The entries that sign() writes are those the builder was given, in order
LEMMA EntriesMade ==
  ASSUME NEW b, b.list \in Seq(Revoked), Len(b.list) <= MaxList, NEW d, CrlContents(b, d.tbs)
  PROVE  b.list \in Seq(EncodableOnes) /\ Entries(d) = EntriesOf(b.list)
<1> DEFINE list == b.list
           n == Len(list)
<1>1. list \in Seq(Revoked) /\ n \in Nat /\ n <= MaxList /\ DOMAIN list = 1 .. n
  OBVIOUS
<1>2. d.tbs.revoked = IF list = << >> THEN Nil ELSE Each(list, EncodeRevoked).v
  BY DEF CrlContents
<1>3. list = << >> \/ Each(list, EncodeRevoked).error = "ok"
  BY DEF CrlContents
<1> HIDE DEF list
<1>4. list \in Seq(EncodableOnes)
  <2>1. << >> \in Seq(EncodableOnes)
    OBVIOUS
  <2>2. QED
    BY <1>1, <1>3, <2>1, ListEncoded, Zenon
<1>5. Each(list, EncodeRevoked).v = EntriesOf(list)
  <2>1. Each(list, EncodeRevoked) = Ok(EntriesOf(list))
    BY <1>4, <1>1, ListEncoded, Zenon DEF EntriesOf
  <2>2. Ok(EntriesOf(list)).v = EntriesOf(list)
    BY DEF Ok
  <2>3. QED
    BY <2>1, <2>2, Zenon
<1>6. CASE list = << >>
  <2>1. EntriesOf(list) = << >>
    BY <1>6 DEF EntriesOf
  <2>2. QED
    BY <1>2, <1>6, <2>1 DEF Entries, list
<1>7. CASE list # << >>
  <2>1. EntriesOf(list) \in [1 .. n -> EncodedRevoked]
    <3>1. \A i \in 1 .. n : list[i] \in Revoked /\ Encodable(list[i])
      BY <1>4, <1>1 DEF EncodableOnes
    <3>2. QED
      BY <1>1, <3>1, RevokedEncoded DEF EntriesOf
  <2>2. n \in 1 .. MaxList
    BY <1>1, <1>7, ListInputsAssumption
  <2>3. EntriesOf(list) # Nil
    BY <2>1, <2>2, ListInputsAssumption
  <2>4. Entries(d) = EntriesOf(list)
    BY <1>2, <1>5, <1>7, <2>3 DEF Entries
  <2>5. QED
    BY <1>4, <2>4 DEF list
<1>8. QED
  BY <1>4, <1>6, <1>7 DEF list

-----------------------------------------------------------------------------
(* The contents of a builder                                               *)

\* The answers that OCSPResponseBuilder.add_response accepts
Answers == {i.v : i \in {x \in Inputs.ocsp_response : x.field = "response" /\ SingleAccepted(x.v)}}

Attributes == ListInputs.request

ContentsOk(kind, set, list) ==
  /\ kind = "certificate" =>
       set.serial_number = Nil \/ (set.serial_number \in Nat /\ set.serial_number < Two[MaxBits])
  /\ kind = "crl" => list \in Seq(Revoked) /\ Len(list) <= MaxList
  /\ kind = "request" => list \in Seq(Attributes)
  /\ kind = "ocsp_response" =>
       /\ DOMAIN set = {"response", "responder_id", "certificates"}
       /\ set.response \in {Nil} \cup Answers

\* A successful response has an answer
AnsweredInv ==
  builder.kind = "ocsp_response" /\ output # Nil =>
    builder.set.response # Nil \/ \E status : output.result = Ok(UnsuccessfulResponse(status))

\* What is cached are the entries of the document that was loaded
CachedInv == cell # Nil => IsCrl /\ cell = Entries(doc)

ContentsInv == ContentsOk(builder.kind, builder.set, builder.list) /\ AnsweredInv /\ CachedInv

\* The fields that an OCSP response must have
LEMMA OcspFields ==
  /\ RequiredOf("ocsp_response") = {"response", "responder_id"}
  /\ FieldsOf("ocsp_response") = {"response", "responder_id", "certificates"}
BY DEF FieldsOf, RequiredOf, OcspRequired, Required

\* The contents of a builder, in the initial states and over every step
LEMMA ContentsInvInit ==
  ASSUME DocumentInit PROVE ContentsInv
<1>1. PICK kind \in Kinds :
        builder = [kind |-> kind, set |-> [f \in FieldsOf(kind) |-> Nil], list |-> << >>]
  BY DEF DocumentInit
<1>2. output = Nil /\ doc = Nil /\ cell = Nil
  BY DEF DocumentInit
<1>3. builder.kind = kind /\ builder.set = [f \in FieldsOf(kind) |-> Nil] /\ builder.list = << >>
  BY <1>1
<1>4. kind = "certificate" => "serial_number" \in FieldsOf(kind)
  BY RequiredFields DEF FieldsOf, RequiredOf
<1>5. << >> \in Seq(Revoked) /\ << >> \in Seq(Attributes) /\ Len(<< >>) <= MaxList
  BY ListInputsAssumption
<1>6. ContentsOk(builder.kind, builder.set, builder.list)
  BY <1>3, <1>4, <1>5, OcspFields DEF ContentsOk
<1>7. QED
  BY <1>2, <1>6 DEF ContentsInv, AnsweredInv, CachedInv

\* A setter that accepts its argument leaves contents that can be encoded
LEMMA SetterKeepsContents ==
  ASSUME NEW b, b.kind \in Kinds, NEW i \in Inputs[b.kind],
         ContentsOk(b.kind, b.set, b.list), b.kind = "certificate" => DOMAIN b.set = Required[b.kind],
         IF b.kind \in DOMAIN Required THEN Accepts(b, i.field, i.v) ELSE OcspAccepts(b, i.field, i.v)
  PROVE  ContentsOk(b.kind, [b.set EXCEPT ![i.field] = Stored(i.field, i.v)], b.list)
<1> DEFINE f == i.field
           t == Stored(i.field, i.v)
           set == [b.set EXCEPT ![f] = t]
<1>1. CASE b.kind = "certificate"
  <2>1. "serial_number" \in DOMAIN b.set /\ f \in DOMAIN b.set
    BY <1>1, InputsAssumption, RequiredFields
  <2>2. CASE f = "serial_number"
    <3>1. Accepts(b, f, i.v) /\ i.v \in Int /\ i.v < Two[MaxBits] /\ t = i.v
      BY <1>1, <2>2, InputsAssumption, RequiredFields DEF IsNumber, Stored, Dates
    <3>2. i.v > 0
      <4>1. Accepts(b, "serial_number", i.v)
        BY <2>2, <3>1
      <4>2. serial_number(i.v)
        BY <4>1 DEF Accepts, Dates
      <4>3. QED
        BY <4>2 DEF serial_number
    <3>3. set.serial_number = i.v
      BY <2>1, <2>2, <3>1
    <3>4. QED
      BY <1>1, <3>1, <3>2, <3>3 DEF ContentsOk
  <2>3. CASE f # "serial_number"
    <3>1. set.serial_number = b.set.serial_number
      BY <2>1, <2>3
    <3>2. QED
      BY <1>1, <3>1 DEF ContentsOk
  <2>4. QED
    BY <2>2, <2>3
<1>2. CASE b.kind = "ocsp_response"
  <2>1. /\ DOMAIN b.set = {"response", "responder_id", "certificates"} /\ b.set.response \in {Nil} \cup Answers
        /\ DOMAIN set = {"response", "responder_id", "certificates"} /\ f \in DOMAIN b.set
    BY <1>2, OcspInputsAssumption DEF ContentsOk
  <2>2. CASE f = "response"
    <3>1. OcspAccepts(b, f, i.v) /\ t = i.v
      BY <1>2, <2>2, RequiredFields DEF Stored, Dates
    <3>2. SingleAccepted(i.v)
      BY <2>2, <3>1 DEF OcspAccepts
    <3>3. i.v \in Answers
      BY <1>2, <2>2, <3>2 DEF Answers
    <3>4. set.response = i.v
      BY <2>1, <2>2, <3>1
    <3>5. QED
      BY <1>2, <2>1, <3>3, <3>4 DEF ContentsOk
  <2>3. CASE f # "response"
    <3>1. set.response = b.set.response
      BY <2>1, <2>3
    <3>2. QED
      BY <1>2, <2>1, <3>1 DEF ContentsOk
  <2>4. QED
    BY <2>2, <2>3
<1>3. CASE b.kind \notin {"certificate", "ocsp_response"}
  BY <1>3 DEF ContentsOk
<1>4. QED
  BY <1>1, <1>2, <1>3

LEMMA ContentsInvNext ==
  ASSUME DocumentsInv, DatesInv, ContentsInv, [DocumentNext]_documentVars PROVE ContentsInv'
<1>1. /\ builder.kind \in Kinds /\ builder = [kind |-> builder.kind, set |-> builder.set, list |-> builder.list]
      /\ ContentsOk(builder.kind, builder.set, builder.list) /\ AnsweredInv /\ CachedInv
  BY DEF DocumentsInv, BuilderInv, ContentsInv
<1>2. ASSUME output = Nil, UNCHANGED << output, doc, cell >>,
             ContentsOk(builder'.kind, builder'.set, builder'.list)
      PROVE  ContentsInv'
  BY <1>1, <1>2 DEF ContentsInv, AnsweredInv, CachedInv, IsCrl
<1>3. CASE Set
  <2>1. PICK i \in Inputs[builder.kind] :
          /\ output = Nil /\ UNCHANGED << output, doc, cell >>
          /\ IF builder.kind \in DOMAIN Required THEN Accepts(builder, i.field, i.v)
             ELSE OcspAccepts(builder, i.field, i.v)
          /\ builder' = [builder EXCEPT !.set[i.field] = Stored(i.field, i.v)]
    BY <1>3 DEF Set
  <2>2. /\ builder'.kind = builder.kind /\ builder'.set = [builder.set EXCEPT ![i.field] = Stored(i.field, i.v)]
        /\ builder'.list = builder.list
    BY <1>1, <2>1
  <2>3. builder.kind = "certificate" => DOMAIN builder.set = Required[builder.kind]
    BY DEF DatesInv, DatesOk
  <2>4. ContentsOk(builder.kind, [builder.set EXCEPT ![i.field] = Stored(i.field, i.v)], builder.list)
    BY <1>1, <2>1, <2>3, SetterKeepsContents
  <2>5. ContentsOk(builder'.kind, builder'.set, builder'.list)
    BY <2>2, <2>4
  <2>6. QED
    BY <1>2, <2>1, <2>5
<1>4. CASE AddRevoked
  <2>1. PICK r \in Revoked :
          /\ builder.kind = "crl" /\ output = Nil /\ UNCHANGED << output, doc, cell >>
          /\ Len(builder.list) < MaxList
          /\ builder' = [builder EXCEPT !.list = Append(@, r)]
    BY <1>4 DEF AddRevoked
  <2>2. /\ builder'.kind = "crl" /\ builder'.list = Append(builder.list, r)
    BY <1>1, <2>1
  <2>3. builder.list \in Seq(Revoked)
    BY <1>1, <2>1 DEF ContentsOk
  <2>4. builder'.list \in Seq(Revoked) /\ Len(builder'.list) <= MaxList
    BY <2>1, <2>2, <2>3, ListInputsAssumption
  <2>5. ContentsOk(builder'.kind, builder'.set, builder'.list)
    BY <2>2, <2>4 DEF ContentsOk
  <2>6. QED
    BY <1>2, <2>1, <2>5
<1>5. CASE AddAttribute
  <2>1. PICK a \in ListInputs[builder.kind] :
          /\ builder.kind = "request" /\ output = Nil /\ UNCHANGED << output, doc, cell >>
          /\ builder' = [builder EXCEPT !.list = Append(@, a)]
    BY <1>5 DEF AddAttribute
  <2>2. builder'.kind = "request" /\ builder'.list = Append(builder.list, a)
    BY <1>1, <2>1
  <2>3. builder.list \in Seq(Attributes) /\ a \in Attributes
    BY <1>1, <2>1 DEF ContentsOk, Attributes
  <2>4. builder'.list \in Seq(Attributes)
    BY <2>2, <2>3
  <2>5. ContentsOk(builder'.kind, builder'.set, builder'.list)
    BY <2>2, <2>4 DEF ContentsOk
  <2>6. QED
    BY <1>2, <2>1, <2>5
<1>6. CASE SignDocument
  <2>1. UNCHANGED << builder, doc, cell >> /\ \A f \in RequiredOf(builder.kind) : builder.set[f] # Nil
    BY <1>6 DEF SignDocument, Ready
  <2>2. builder.kind = "ocsp_response" => builder.set.response # Nil
    BY <2>1, OcspFields
  <2>3. QED
    BY <1>1, <2>1, <2>2 DEF ContentsInv, AnsweredInv, CachedInv, IsCrl
<1>7. CASE Build
  BY <1>1, <1>7 DEF Build, ContentsInv, AnsweredInv, CachedInv, IsCrl
<1>8. CASE BuildUnsuccessful
  <2>1. UNCHANGED << builder, doc, cell >> /\ \E status : output'.result = Ok(UnsuccessfulResponse(status))
    BY <1>8 DEF BuildUnsuccessful
  <2>2. QED
    BY <1>1, <2>1 DEF ContentsInv, AnsweredInv, CachedInv, IsCrl
<1>9. CASE Load
  <2>1. doc = Nil /\ UNCHANGED << builder, output, cell >>
    BY <1>9 DEF Load
  <2>2. cell = Nil
    BY <1>1, <2>1 DEF CachedInv, IsCrl
  <2>3. QED
    BY <1>1, <2>1, <2>2 DEF ContentsInv, AnsweredInv, CachedInv
<1>10. CASE GetItem
  <2>1. IsCrl /\ cell' = Entries(doc) /\ UNCHANGED << builder, output, doc >>
    BY <1>10 DEF GetItem
  <2>2. QED
    BY <1>1, <2>1 DEF ContentsInv, AnsweredInv, CachedInv, IsCrl
<1>11. CASE UNCHANGED documentVars
  BY <1>1, <1>11 DEF documentVars, ContentsInv, AnsweredInv, CachedInv, IsCrl
<1>12. QED
  BY <1>3, <1>4, <1>5, <1>6, <1>7, <1>8, <1>9, <1>10, <1>11 DEF DocumentNext

-----------------------------------------------------------------------------
(* No encoder panics                                                       *)

\* The fields of a certificate are encoded or refused
LEMMA FieldsNoPanic ==
  ASSUME NEW r, NEW order, DOMAIN order \subseteq Nat,
         \A i \in DOMAIN order : r[order[i]].error # "panic"
  PROVE  Fields(r, order).error # "panic"
<1> DEFINE bad == {i \in DOMAIN order : r[order[i]].error # "ok"}
           first == CHOOSE i \in bad : \A j \in bad : i <= j
<1>1. Fields(r, order) = IF bad = {} THEN Ok([f \in DOMAIN r |-> r[f].v]) ELSE r[order[first]]
  BY DEF Fields
<1>2. CASE bad # {}
  <2>1. \E i \in bad : \A j \in bad : i <= j
    BY <1>2, LeastIndex
  <2>2. first \in bad
    BY <2>1
  <2>3. QED
    BY <1>1, <1>2, <2>2
<1>3. CASE bad = {}
  BY <1>1, <1>3 DEF Ok
<1>4. QED
  BY <1>2, <1>3

\* The choice of an algorithm identifier answers or raises
LEMMA AlgorithmNoPanic ==
  ASSUME NEW key, NEW hash, NEW padding
  PROVE  /\ compute_signature_algorithm(key, hash, padding).error # "panic"
         /\ compute_signature_algorithm(key, hash, padding).error = "ok" => key.type \in KeyType
<1>1. \A e : Failed(e).error = e
  BY DEF Failed
<1>2. \A a, b, c, d : AlgorithmIdentifier(a, b, c, d).error = "ok"
  BY DEF AlgorithmIdentifier
<1>3. \A n : Salt(n).error = "ok"
  BY DEF Salt
<1>4. \A h : identify_hash_type(h) \in {"ok", "TypeError", "UnsupportedAlgorithm"}
  BY DEF identify_hash_type
<1>5. identify_key_type(key) # "TypeError" => key.type \in KeyType
  BY DEF identify_key_type
<1>6. compute_pss_salt_length(hash, padding).error # "panic"
  BY <1>1, <1>3 DEF compute_pss_salt_length
<1>7. PssAlgorithm(hash, padding).error # "panic"
  BY <1>1, <1>2, <1>4, <1>6 DEF PssAlgorithm
<1>8. QED
  BY <1>1, <1>2, <1>4, <1>5, <1>7 DEF compute_signature_algorithm

\* So does a signature
LEMMA SignNoPanic ==
  ASSUME NEW key, NEW hash, NEW padding, NEW data, key.type \in KeyType
  PROVE  sign_data(key, hash, padding, data).error # "panic"
<1>1. \A e : Failed(e).error = e
  BY DEF Failed
<1>2. \A c, d : Signature(key, c, d).error = "ok"
  BY DEF Signature
<1>3. CASE key.type \in Edwards
  BY <1>2, <1>3, SignCalls DEF EdSign
<1>4. CASE key.type = "Ec"
  <2>1. sign_data(key, hash, padding, data) = EcSign(key, data, "ECDSA", Using(hash))
    BY <1>4, SignCalls
  <2>2. QED
    BY <1>1, <1>2, <2>1 DEF EcSign
<1>5. CASE key.type = "Dsa"
  <2>1. sign_data(key, hash, padding, data) = DsaSign(key, data, Using(hash))
    BY <1>5, SignCalls
  <2>2. QED
    BY <1>1, <1>2, <2>1 DEF DsaSign
<1>6. CASE key.type = "Rsa"
  <2> DEFINE p == RsaPaddingOf(padding)
             h == Using(hash).hash
             ctx == setup_signature_ctx(p, h, TRUE)
  <2>1. sign_data(key, hash, padding, data) = RsaSign(key, data, p, Using(hash))
    BY <1>6, SignCalls
  <2>2. \A a, b, c, d : Settings(a, b, c, d).error = "ok"
    BY DEF Settings
  <2>3. ctx.error # "panic"
    BY <1>1, <2>2 DEF setup_signature_ctx
  <2> HIDE DEF p, h, ctx
  <2>4. RsaSign(key, data, p, Using(hash)).error # "panic"
    BY <1>1, <1>2, <2>3 DEF RsaSign, ctx, h
  <2>5. QED
    BY <2>1, <2>4
<1>7. QED
  BY <1>3, <1>4, <1>5, <1>6 DEF KeyType, Hashed

LEMMA SignedNoPanic ==
  ASSUME NEW kind, NEW tbs, tbs.error # "panic", NEW key, NEW hash, NEW padding
  PROVE  Signed(kind, compute_signature_algorithm(key, hash, padding), tbs, key, hash, padding).error # "panic"
<1> DEFINE alg == compute_signature_algorithm(key, hash, padding)
<1>1. alg.error # "panic" /\ (alg.error = "ok" => key.type \in KeyType)
  BY AlgorithmNoPanic
<1> HIDE DEF alg
<1>2. alg.error = "ok" => sign_data(key, hash, padding, tbs.v).error # "panic"
  BY <1>1, SignNoPanic
<1>3. \A e : Err(e).error = e
  BY DEF Err
<1>4. \A v : Ok(v).error = "ok"
  BY DEF Ok
<1>5. Signed(kind, alg, tbs, key, hash, padding).error # "panic"
  BY <1>1, <1>2, <1>3, <1>4 DEF Signed
<1>6. QED
  BY <1>5 DEF alg

\* The attributes of a request are encoded or refused
LEMMA AttributesNoPanic ==
  ASSUME NEW list \in Seq(Attributes)
  PROVE  Each(list, EncodeAttribute).error # "panic"
<1> DEFINE r == [i \in DOMAIN list |-> EncodeAttribute(list[i])]
           bad == {i \in DOMAIN list : r[i].error # "ok"}
           first == CHOOSE i \in bad : \A j \in bad : i <= j
<1>1. Each(list, EncodeAttribute) = IF bad = {} THEN Ok([i \in DOMAIN list |-> r[i].v]) ELSE r[first]
  BY DEF Each
<1>2. \A i \in DOMAIN list : r[i].error # "panic"
  BY DEF EncodeAttribute, Ok, Err
<1>3. DOMAIN list \subseteq Nat
  OBVIOUS
<1> HIDE DEF r
<1>4. CASE bad # {}
  <2>1. \E i \in bad : \A j \in bad : i <= j
    BY <1>3, <1>4, LeastIndex
  <2>2. first \in bad
    BY <2>1
  <2>3. QED
    BY <1>1, <1>2, <1>4, <2>2
<1>5. CASE bad = {}
  <2>1. Ok([i \in DOMAIN list |-> r[i].v]).error = "ok"
    BY DEF Ok
  <2>2. QED
    BY <1>1, <1>5, <2>1
<1>6. QED
  BY <1>4, <1>5

\* The certificate an OCSP answer is about is encoded
LEMMA CertIdNoPanic ==
  ASSUME NEW arg PROVE CertId(arg).error # "panic"
<1>1. \A v : Ok(v).error = "ok"
  BY DEF Ok
<1>2. \A v : py_uint_to_big_endian_bytes(v).error # "panic"
  BY <1>1 DEF py_uint_to_big_endian_bytes, Err
<1>3. certid_new_from_hash(arg.by_hash).error # "panic"
  BY <1>1, <1>2 DEF certid_new_from_hash
<1>4. QED
  BY <1>1, <1>3 DEF CertId

\* An OCSP answer is encoded
LEMMA SingleNoPanic ==
  ASSUME NEW s PROVE Each(<< s >>, EncodeSingle).error # "panic"
<1> DEFINE reason == Optional(s.reason, ReasonCode)
           time == Optional(s.time, GeneralizedTime)
           next == Optional(s.next_update, GeneralizedTime)
           f == [status |-> Ok(s.status), reason |-> reason, time |-> time, next_update |-> next,
                 this_update |-> GeneralizedTime(s.this_update), id |-> CertId(s.id)]
           order == << "reason", "time", "next_update", "this_update", "id" >>
<1>1. \A v : Ok(v).error = "ok"
  BY DEF Ok
<1>2. /\ reason.error = "ok" /\ time.error = "ok" /\ next.error = "ok" /\ GeneralizedTime(s.this_update).error = "ok"
      /\ CertId(s.id).error # "panic"
  BY <1>1, CertIdNoPanic DEF Optional, ReasonCode, GeneralizedTime
<1>3. EncodeSingle(s) = Fields(f, order)
  BY DEF EncodeSingle
<1> HIDE DEF reason, time, next
<1>4. \A i \in DOMAIN order : f[order[i]].error # "panic"
  <2>1. /\ f["reason"] = reason /\ f["time"] = time /\ f["next_update"] = next
        /\ f["this_update"] = GeneralizedTime(s.this_update) /\ f["id"] = CertId(s.id)
    OBVIOUS
  <2>2. \A i \in DOMAIN order : order[i] \in {"reason", "time", "next_update", "this_update", "id"}
    OBVIOUS
  <2> HIDE DEF f, order
  <2>3. QED
    BY <1>2, <2>1, <2>2
<1>5. DOMAIN order \subseteq Nat
  OBVIOUS
<1> HIDE DEF f, order
<1>6. EncodeSingle(s).error # "panic"
  BY <1>3, <1>4, <1>5, FieldsNoPanic
<1> DEFINE r == [i \in DOMAIN << s >> |-> EncodeSingle(<< s >>[i])]
           bad == {i \in DOMAIN << s >> : r[i].error # "ok"}
           first == CHOOSE i \in bad : \A j \in bad : i <= j
<1>7. Each(<< s >>, EncodeSingle) = IF bad = {} THEN Ok([i \in DOMAIN << s >> |-> r[i].v]) ELSE r[first]
  BY DEF Each
<1>8. DOMAIN << s >> = {1} /\ << s >>[1] = s
  OBVIOUS
<1>9. r[1] = EncodeSingle(s)
  BY <1>8
<1>10. bad \subseteq {1}
  BY <1>8
<1> HIDE DEF r, bad
<1>11. CASE bad = {}
  <2>1. Ok([i \in DOMAIN << s >> |-> r[i].v]).error = "ok"
    BY <1>1, Zenon
  <2>2. QED
    BY <1>7, <1>11, <2>1
<1>12. CASE bad # {}
  <2>0. 1 \in bad /\ \A j \in bad : j = 1
    BY <1>10, <1>12
  <2>1. \E i \in bad : \A j \in bad : i <= j
    BY <2>0
  <2>2. first = 1
    BY <1>10, <2>1
  <2>3. QED
    BY <1>6, <1>7, <1>9, <1>12, <2>2
<1>13. QED
  BY <1>11, <1>12

-----------------------------------------------------------------------------
\* sign() and build(), for each kind of document
LEMMA CertificateNoPanic ==
  ASSUME NEW b, NEW key, NEW hash, NEW padding,
         b.set.serial_number \in Nat, b.set.serial_number < Two[MaxBits],
         IsDate(b.set.not_valid_before), IsDate(b.set.not_valid_after)
  PROVE  create_x509_certificate(b, key, hash, padding).error # "panic"
<1> DEFINE alg == compute_signature_algorithm(key, hash, padding)
           f == [version |-> Ok(2), alg |-> Ok(alg), spki |-> Ok(b.set.public_key),
                 serial |-> EncodeUint(b.set.serial_number),
                 issuer |-> Ok(b.set.issuer_name), subject |-> Ok(b.set.subject_name),
                 not_before |-> time_from_py(Naive(b.set.not_valid_before)),
                 not_after |-> time_from_py(Naive(b.set.not_valid_after))]
           order == << "serial", "not_before", "not_after" >>
           tbs == Fields(f, order)
<1>1. create_x509_certificate(b, key, hash, padding) = Signed("certificate", alg, tbs, key, hash, padding)
  BY DEF create_x509_certificate
<1>2. /\ f["serial"] = EncodeUint(b.set.serial_number)
      /\ f["not_before"] = time_from_py(Naive(b.set.not_valid_before))
      /\ f["not_after"] = time_from_py(Naive(b.set.not_valid_after))
      /\ DOMAIN order \subseteq Nat /\ \A i \in DOMAIN order : order[i] \in {"serial", "not_before", "not_after"}
  OBVIOUS
<1> HIDE DEF f, order
<1>3. f["serial"].error = "ok" /\ f["not_before"].error = "ok" /\ f["not_after"].error = "ok"
  <2>1. EncodeUint(b.set.serial_number).error = "ok"
    BY SerialEncoded
  <2>2. QED
    BY <1>2, <2>1, DateEncoded
<1>4. tbs.error # "panic"
  <2>1. \A i \in DOMAIN order : f[order[i]].error # "panic"
    BY <1>2, <1>3
  <2>2. QED
    BY <1>2, <2>1, FieldsNoPanic
<1> HIDE DEF tbs
<1>5. QED
  BY <1>1, <1>4, SignedNoPanic

LEMMA CrlNoPanic ==
  ASSUME NEW b, NEW key, NEW hash, NEW padding, b.list \in Seq(Revoked), b.list \in Seq(EncodableOnes),
         IsDate(b.set.last_update), IsDate(b.set.next_update)
  PROVE  create_x509_crl(b, key, hash, padding).error # "panic"
<1> DEFINE alg == compute_signature_algorithm(key, hash, padding)
           revoked == IF b.list = << >> THEN Ok(Nil) ELSE Each(b.list, EncodeRevoked)
           f == [version |-> Ok(1), alg |-> Ok(alg), issuer |-> Ok(b.set.issuer_name),
                 revoked |-> revoked,
                 last_update |-> time_from_py(Naive(b.set.last_update)),
                 next_update |-> time_from_py(Naive(b.set.next_update))]
           order == << "revoked", "last_update", "next_update" >>
           tbs == Fields(f, order)
<1>1. create_x509_crl(b, key, hash, padding) = Signed("crl", alg, tbs, key, hash, padding)
  BY DEF create_x509_crl
<1>2. revoked.error = "ok"
  <2>1. \A v : Ok(v).error = "ok"
    BY DEF Ok
  <2>2. Each(b.list, EncodeRevoked) = Ok(EntriesOf(b.list))
    BY ListEncoded, Zenon DEF EntriesOf
  <2>3. QED
    BY <2>1, <2>2, Zenon
<1> HIDE DEF revoked
<1>3. /\ f["revoked"] = revoked
      /\ f["last_update"] = time_from_py(Naive(b.set.last_update))
      /\ f["next_update"] = time_from_py(Naive(b.set.next_update))
      /\ DOMAIN order \subseteq Nat /\ \A i \in DOMAIN order : order[i] \in {"revoked", "last_update", "next_update"}
  OBVIOUS
<1> HIDE DEF f, order
<1>4. f["revoked"].error = "ok" /\ f["last_update"].error = "ok" /\ f["next_update"].error = "ok"
  BY <1>2, <1>3, DateEncoded
<1>5. tbs.error # "panic"
  <2>1. \A i \in DOMAIN order : f[order[i]].error # "panic"
    BY <1>3, <1>4
  <2>2. QED
    BY <1>3, <2>1, FieldsNoPanic
<1> HIDE DEF tbs
<1>6. QED
  BY <1>1, <1>5, SignedNoPanic

LEMMA RequestNoPanic ==
  ASSUME NEW b, NEW key, NEW hash, NEW padding, b.list \in Seq(Attributes)
  PROVE  create_x509_csr(b, key, hash, padding).error # "panic"
<1> DEFINE alg == compute_signature_algorithm(key, hash, padding)
           attributes == Each(b.list, EncodeAttribute)
           all == IF attributes.error # "ok" THEN attributes
                  ELSE Ok({attributes.v[i] : i \in DOMAIN attributes.v})
           f == [version |-> Ok(0), subject |-> Ok(b.set.subject_name), spki |-> Ok(key), attributes |-> all]
           order == << "attributes" >>
           tbs == Fields(f, order)
<1>1. create_x509_csr(b, key, hash, padding) = Signed("request", alg, tbs, key, hash, padding)
  BY DEF create_x509_csr
<1>2. attributes.error # "panic"
  BY AttributesNoPanic
<1> HIDE DEF attributes
<1>3. all.error # "panic"
  BY <1>2 DEF Ok
<1> HIDE DEF all
<1>4. /\ f["attributes"] = all
      /\ DOMAIN order \subseteq Nat /\ \A i \in DOMAIN order : order[i] = "attributes"
  OBVIOUS
<1> HIDE DEF f, order
<1>5. tbs.error # "panic"
  BY <1>3, <1>4, FieldsNoPanic
<1> HIDE DEF tbs
<1>6. QED
  BY <1>1, <1>5, SignedNoPanic

LEMMA OcspNoPanic ==
  ASSUME NEW b, NEW key, NEW hash, NEW arg
  PROVE  create_ocsp_response(b, key, hash).error # "panic" /\ create_ocsp_request(arg).error # "panic"
<1> DEFINE alg == compute_signature_algorithm(key, hash, Nil)
           responses == Each(<< b.set.response >>, EncodeSingle)
           f == [version |-> Ok(0), responder |-> Ok(ResponderId(b.set.responder_id)), responses |-> responses]
           order == << "responses" >>
           tbs == Fields(f, order)
           signed == Signed("ocsp_response", alg, tbs, key, hash, Nil)
<1>0. (\A v : Ok(v).error = "ok") /\ Err("ValueError").error = "ValueError"
  BY DEF Ok, Err
<1>1. create_ocsp_response(b, key, hash)
        = IF tbs.error # "ok" THEN tbs
          ELSE IF signed.error # "ok" THEN signed
          ELSE IF b.set.responder_id.cert.key # key THEN Err("ValueError")
          ELSE Ok(SignedResponse(b, signed.v))
  BY DEF create_ocsp_response
<1>2. responses.error # "panic"
  BY SingleNoPanic
<1> HIDE DEF responses
<1>3. /\ f["responses"] = responses
      /\ DOMAIN order \subseteq Nat /\ \A i \in DOMAIN order : order[i] = "responses"
  OBVIOUS
<1> HIDE DEF f, order
<1>4. tbs.error # "panic"
  BY <1>2, <1>3, FieldsNoPanic
<1> HIDE DEF tbs
<1>5. signed.error # "panic"
  BY <1>4, SignedNoPanic
<1> HIDE DEF signed
<1>6. create_ocsp_response(b, key, hash).error # "panic"
  BY <1>0, <1>1, <1>4, <1>5
<1>7. create_ocsp_request(arg).error # "panic"
  BY <1>0, CertIdNoPanic DEF create_ocsp_request
<1>8. QED
  BY <1>6, <1>7

\* What a builder holds once it has signed: every field that is required
LEMMA FilledIn ==
  ASSUME DocumentsInv, DatesInv, ContentsInv, output # Nil
  PROVE  /\ builder.kind = "certificate" =>
              /\ builder.set.serial_number \in Nat /\ builder.set.serial_number < Two[MaxBits]
              /\ IsDate(builder.set.not_valid_before) /\ IsDate(builder.set.not_valid_after)
         /\ builder.kind = "crl" =>
              /\ builder.list \in Seq(Revoked) /\ Len(builder.list) <= MaxList
              /\ IsDate(builder.set.last_update) /\ IsDate(builder.set.next_update)
         /\ builder.kind = "request" => builder.list \in Seq(Attributes)
<1>1. ContentsOk(builder.kind, builder.set, builder.list)
  BY DEF ContentsInv
<1>2. builder.kind \in {"certificate", "crl"} =>
        DatesOk(builder.kind, builder.set) /\ \A f \in Required[builder.kind] : builder.set[f] # Nil
  BY DEF DatesInv
<1>3. CASE builder.kind = "certificate"
  <2>1. /\ builder.set.serial_number # Nil /\ builder.set.not_valid_before # Nil /\ builder.set.not_valid_after # Nil
    BY <1>2, <1>3, RequiredFields
  <2>2. InWindow(builder.set.not_valid_before, builder.set.not_valid_after)
    BY <1>2, <1>3 DEF DatesOk
  <2>3. IsDate(builder.set.not_valid_before) /\ IsDate(builder.set.not_valid_after)
    BY <2>1, <2>2 DEF InWindow
  <2>4. QED
    BY <1>1, <1>3, <2>1, <2>3 DEF ContentsOk
<1>4. CASE builder.kind = "crl"
  <2>1. builder.set.last_update # Nil /\ builder.set.next_update # Nil
    BY <1>2, <1>4, RequiredFields
  <2>2. InWindow(builder.set.last_update, builder.set.next_update)
    BY <1>2, <1>4 DEF DatesOk
  <2>3. IsDate(builder.set.last_update) /\ IsDate(builder.set.next_update)
    BY <2>1, <2>2 DEF InWindow
  <2>4. QED
    BY <1>1, <1>4, <2>3 DEF ContentsOk
<1>5. CASE builder.kind = "request"
  BY <1>1, <1>5 DEF ContentsOk
<1>6. QED
  BY <1>3, <1>4, <1>5

\* A list of entries that are not all encodable has one that was loaded
LEMMA EarlyEntry ==
  ASSUME NEW list \in Seq(Revoked), list \notin Seq(EncodableOnes)
  PROVE  \E i \in DOMAIN list, e \in ExistingEntries :
           list[i] = LoadedRevokedCertificate(e) /\ ~Encodable(list[i])
<1>1. \A i \in DOMAIN list : list[i] \in Revoked
  OBVIOUS
<1>2. \E i \in DOMAIN list : list[i] \notin EncodableOnes
  OBVIOUS
<1>3. PICK i \in DOMAIN list : ~Encodable(list[i])
  BY <1>1, <1>2 DEF EncodableOnes
<1>4. \E e \in ExistingEntries : list[i] = LoadedRevokedCertificate(e)
  BY <1>1, <1>3, RevokedFields
<1>5. QED
  BY <1>3, <1>4

\* Whatever setters accepted, no encoder panics but on an early entry that was loaded
LEMMA NoPanic ==
  ASSUME DocumentsInv, DatesInv, ContentsInv PROVE PanicsOnEarlyEntriesOnly
<1>1. SUFFICES ASSUME output # Nil,
                      ~(builder.kind = "crl" /\ builder.list \in Seq(Revoked)
                          /\ builder.list \notin Seq(EncodableOnes))
               PROVE  output.result.error # "panic"
  BY EarlyEntry DEF PanicsOnEarlyEntriesOnly
<1>2. ByBuilder(builder, output) /\ builder.kind \in Kinds
  BY <1>1 DEF DocumentsInv, OutputInv, BuilderInv
<1>3. CASE \E s \in Signings[builder.kind] : output.by = s /\ output.result = Create(builder, s)
  <2>1. PICK s \in Signings[builder.kind] : output.by = s /\ output.result = Create(builder, s)
    BY <1>3
  <2>2. CASE builder.kind = "certificate"
    <3>1. output.result = create_x509_certificate(builder, s.key, s.hash, s.padding)
      BY <2>1, <2>2 DEF Create
    <3>2. QED
      BY <1>1, <2>2, <3>1, FilledIn, CertificateNoPanic
  <2>3. CASE builder.kind = "crl"
    <3>1. output.result = create_x509_crl(builder, s.key, s.hash, s.padding)
      BY <2>1, <2>3 DEF Create
    <3>2. QED
      BY <1>1, <2>3, <3>1, FilledIn, CrlNoPanic
  <2>4. CASE builder.kind = "request"
    <3>1. output.result = create_x509_csr(builder, s.key, s.hash, s.padding)
      BY <2>1, <2>4 DEF Create
    <3>2. QED
      BY <1>1, <2>4, <3>1, FilledIn, RequestNoPanic
  <2>5. CASE builder.kind = "ocsp_response"
    <3>1. output.result = create_ocsp_response(builder, s.key, s.hash)
      BY <2>1, <2>5 DEF Create
    <3>2. QED
      BY <3>1, OcspNoPanic
  <2>6. builder.kind # "ocsp_request"
    BY <2>1, SigningsAssumption
  <2>7. QED
    BY <1>2, <2>2, <2>3, <2>4, <2>5, <2>6, KindNames
<1>4. CASE output.result = create_ocsp_request(builder.set.request)
  BY <1>4, OcspNoPanic
<1>5. CASE \E status : output.result = Ok(UnsuccessfulResponse(status))
  BY <1>5 DEF Ok
<1>6. QED
  BY <1>2, <1>3, <1>4, <1>5 DEF ByBuilder

-----------------------------------------------------------------------------
(* Reading                                                                 *)

\* Damage of a request that still parses leaves its attributes alone
LEMMA DamagedAttributes ==
  ASSUME NEW tbs, NEW alg, NEW sig, "attributes" \in DOMAIN tbs,
         NEW e \in {Signed4("request", tbs, alg, sig)} \cup Damaged(Signed4("request", tbs, alg, sig))
  PROVE  e.tbs.attributes = tbs.attributes
<1> DEFINE d == Signed4("request", tbs, alg, sig)
<1>1. d.kind = "request" /\ d.tbs = tbs
  BY DEF Signed4
<1>2. CASE e = d
  BY <1>1, <1>2
<1>3. CASE e \in Damaged(d)
  <2>1. e \in RequestDamage(d)
    <3> HIDE DEF d
    <3>1. QED
      BY <1>1, <1>3, DamageByKind
  <2>2. \E x : e = [d EXCEPT !.alg = x] \/ e = [d EXCEPT !.tbs.spki = x] \/ e = [d EXCEPT !.tbs.version = x]
    <3> HIDE DEF d
    <3>1. QED
      BY <2>1, Zenon DEF RequestDamage
  <2>3. QED
    BY <2>2 DEF Signed4
<1>4. QED
  BY <1>2, <1>3

\* The attributes of a request, as its receiver reads them
LEMMA AttributesRead ==
  ASSUME NEW b, b.list \in Seq(Attributes), NEW tbs, RequestContents(b, tbs)
  PROVE  {a.oid : a \in tbs.attributes} = {b.list[i].oid : i \in DOMAIN b.list}
<1> DEFINE list == b.list
           r == [i \in DOMAIN list |-> EncodeAttribute(list[i])]
           bad == {i \in DOMAIN list : r[i].error # "ok"}
           first == CHOOSE i \in bad : \A j \in bad : i <= j
           all == Each(list, EncodeAttribute)
<1>1. all = IF bad = {} THEN Ok([i \in DOMAIN list |-> r[i].v]) ELSE r[first]
  BY DEF Each
<1>2. all.error = "ok" /\ tbs.attributes = {all.v[i] : i \in DOMAIN all.v}
  BY DEF RequestContents
<1>3. DOMAIN list \subseteq Nat
  OBVIOUS
<1> HIDE DEF all
<1>4. bad = {}
  <2>1. SUFFICES ASSUME bad # {} PROVE FALSE
    OBVIOUS
  <2> HIDE DEF r
  <2>2. \E i \in bad : \A j \in bad : i <= j
    BY <1>3, <2>1, LeastIndex
  <2>3. first \in bad
    BY <2>2
  <2>4. QED
    BY <1>1, <1>2, <2>1, <2>3
<1>5. all.v = [i \in DOMAIN list |-> r[i].v]
  BY <1>1, <1>4 DEF Ok
<1>6. \A i \in DOMAIN list : r[i].error = "ok"
  BY <1>4
<1>7. \A i \in DOMAIN list : r[i].v.oid = list[i].oid
  <2>1. TAKE i \in DOMAIN list
  <2>2. r[i] = EncodeAttribute(list[i]) /\ EncodeAttribute(list[i]).error = "ok"
    BY <1>6
  <2> HIDE DEF r, list
  <2>3. EncodeAttribute(list[i]).v.oid = list[i].oid
    BY <2>2 DEF EncodeAttribute, Ok, Err
  <2>4. QED
    BY <2>2, <2>3
<1> HIDE DEF r, list
<1>8. \A i \in DOMAIN list : all.v[i].oid = list[i].oid
  BY <1>5, <1>7
<1>9. DOMAIN all.v = DOMAIN list
  BY <1>5
<1>10. {a.oid : a \in tbs.attributes} = {list[i].oid : i \in DOMAIN list}
  BY <1>2, <1>8, <1>9
<1>11. QED
  BY <1>10 DEF list

\* The entries of a revocation list, as its receiver reads them
LEMMA RevokedRead ==
  ASSUME NEW list \in Seq(EncodableOnes)
  PROVE  [i \in DOMAIN EntriesOf(list) |->
            [serial |-> big_byte_slice_to_py_int(EntriesOf(list)[i].serial),
             date |-> as_datetime(EntriesOf(list)[i].date)]]
         = [i \in DOMAIN list |-> [serial |-> list[i].serial, date |-> WholeTicks(list[i].date)]]
<1> DEFINE e == EntriesOf(list)
<1>1. DOMAIN e = DOMAIN list /\ \A i \in DOMAIN list : e[i] = EncodeRevoked(list[i]).v
  BY DEF EntriesOf
<1> HIDE DEF e
<1>2. \A i \in DOMAIN list : list[i] \in Revoked /\ Encodable(list[i])
  BY DEF EncodableOnes
<1>3. ASSUME NEW i \in DOMAIN list
      PROVE  big_byte_slice_to_py_int(e[i].serial) = list[i].serial /\ as_datetime(e[i].date) = WholeTicks(list[i].date)
  BY <1>1, <1>2, RevokedEncoded
<1>4. QED
  BY <1>1, <1>3 DEF e

\* The entries of a document that was loaded are those of its builder
LEMMA EntriesLoaded ==
  ASSUME DocumentsInv, DatesInv, ContentsInv, doc # Nil, doc.kind = "crl"
  PROVE  builder.kind = "crl" /\ builder.list \in Seq(EncodableOnes) /\ Entries(doc) = EntriesOf(builder.list)
<1>1. /\ builder.kind \in Kinds /\ ByBuilder(builder, output) /\ output # Nil /\ output.result.error = "ok"
      /\ doc \in {Sent} \cup Damaged(Sent)
  BY DEF DocumentsInv, BuilderInv, OutputInv, DocInv
<1>2. builder.kind = "crl"
  BY <1>1, LoadedKind DEF Sent
<1>3. builder.list \in Seq(Revoked) /\ Len(builder.list) <= MaxList
  BY <1>1, <1>2, FilledIn
<1>4. MadeBy(Sent, output.by) /\ Sent.kind = "crl" /\ CrlContents(builder, Sent.tbs)
  BY <1>1, <1>2, SentX509 DEF Sent, X509
<1>5. Sent = Signed4(Sent.kind, Sent.tbs, Sent.alg, Sent.sig)
  BY <1>4 DEF MadeBy
<1>6. \A f \in DOMAIN Sent.tbs : f \notin {"alg", "issuer", "version"} => doc.tbs[f] = Sent.tbs[f]
  BY <1>1, <1>4, <1>5, DamagedDates
<1>7. doc.tbs.revoked = Sent.tbs.revoked
  BY <1>4, <1>6 DEF CrlContents
<1>8. builder.list \in Seq(EncodableOnes) /\ Entries(Sent) = EntriesOf(builder.list)
  BY <1>3, <1>4, EntriesMade
<1>9. Entries(doc) = Entries(Sent)
  BY <1>7 DEF Entries
<1>10. QED
  BY <1>2, <1>8, <1>9

\* The fields of a document, as its receiver reads them
LEMMA FieldsRead ==
  ASSUME DocumentsInv, DatesInv, ContentsInv PROVE FieldsReadBack
<1>1. SUFFICES ASSUME Received PROVE FieldsReadBack
  BY DEF FieldsReadBack
<1>2. /\ builder.kind \in Kinds /\ ByBuilder(builder, output) /\ output # Nil /\ output.result.error = "ok"
      /\ doc \in {Sent} \cup Damaged(Sent) /\ doc.kind \in X509 /\ doc # Nil
  BY <1>1 DEF DocumentsInv, BuilderInv, OutputInv, DocInv, Received
<1>3. doc.kind = builder.kind
  BY <1>2, LoadedKind DEF Sent
<1>4. /\ MadeBy(Sent, output.by) /\ Sent.kind = builder.kind
      /\ builder.kind = "certificate" => CertificateContents(builder, Sent.tbs)
      /\ builder.kind = "request" => RequestContents(builder, Sent.tbs)
  BY <1>2, <1>3, SentX509 DEF Sent
<1>5. Sent = Signed4(Sent.kind, Sent.tbs, Sent.alg, Sent.sig)
  BY <1>4 DEF MadeBy
<1>6. doc.kind # "request" => Window(doc) = BuilderWindow
  BY <1>1, DatesRead DEF DatesReadBack
<1>7. CASE doc.kind = "certificate"
  <2>1. \A f \in DOMAIN Sent.tbs : f \notin {"alg", "issuer", "version"} => doc.tbs[f] = Sent.tbs[f]
    BY <1>2, <1>3, <1>4, <1>5, <1>7, DamagedDates
  <2>2. doc.tbs.serial = EncodeUint(builder.set.serial_number).v
    BY <1>3, <1>4, <1>7, <2>1 DEF CertificateContents
  <2>3. builder.set.serial_number \in Nat /\ builder.set.serial_number < Two[MaxBits]
    BY <1>2, <1>3, <1>7, FilledIn
  <2>4. big_byte_slice_to_py_int(doc.tbs.serial) = builder.set.serial_number
    BY <2>2, <2>3, SerialEncoded
  <2>5. Window(doc) = << WholeTicks(builder.set.not_valid_before), WholeTicks(builder.set.not_valid_after) >>
    BY <1>3, <1>6, <1>7 DEF BuilderWindow
  <2>6. QED
    BY <1>7, <2>4, <2>5 DEF FieldsReadBack
<1>8. CASE doc.kind = "crl"
  <2>1. builder.list \in Seq(EncodableOnes) /\ Entries(doc) = EntriesOf(builder.list)
    BY <1>2, <1>8, EntriesLoaded
  <2>2. [i \in DOMAIN Entries(doc) |->
           [serial |-> big_byte_slice_to_py_int(Entries(doc)[i].serial),
            date |-> as_datetime(Entries(doc)[i].date)]]
        = [i \in DOMAIN builder.list |->
             [serial |-> builder.list[i].serial, date |-> WholeTicks(builder.list[i].date)]]
    BY <2>1, RevokedRead, Zenon
  <2>3. Window(doc) = << WholeTicks(builder.set.last_update), WholeTicks(builder.set.next_update) >>
    BY <1>3, <1>6, <1>8 DEF BuilderWindow
  <2>4. QED
    BY <1>8, <2>2, <2>3 DEF FieldsReadBack
<1>9. CASE doc.kind = "request"
  <2>1. builder.list \in Seq(Attributes)
    BY <1>2, <1>3, <1>9, FilledIn
  <2>2. RequestContents(builder, Sent.tbs) /\ "attributes" \in DOMAIN Sent.tbs
    BY <1>3, <1>4, <1>9 DEF RequestContents
  <2>3. doc.tbs.attributes = Sent.tbs.attributes
    BY <1>2, <1>3, <1>4, <1>5, <1>9, <2>2, DamagedAttributes
  <2>4. {a.oid : a \in Sent.tbs.attributes} = {builder.list[i].oid : i \in DOMAIN builder.list}
    BY <2>1, <2>2, AttributesRead
  <2>5. QED
    BY <1>9, <2>3, <2>4 DEF FieldsReadBack
<1>10. QED
  BY <1>2, <1>7, <1>8, <1>9 DEF X509

-----------------------------------------------------------------------------
(* The answer in an OCSP response                                          *)

\* The codes of the reasons, and the reasons of the codes
LEMMA ReasonsReadBack ==
  ASSUME NEW r \in DOMAIN CRL_ENTRY_REASON_ENUM_TO_CODE
  PROVE  /\ CRL_ENTRY_REASON_ENUM_TO_CODE[r] \in Int
         /\ parse_crl_reason_flags(CRL_ENTRY_REASON_ENUM_TO_CODE[r]) = Ok(r)
<1> DEFINE code == CRL_ENTRY_REASON_ENUM_TO_CODE
           table == << "key_compromise", "ca_compromise", "affiliation_changed", "superseded",
                       "cessation_of_operation", "certificate_hold", Nil, "remove_from_crl",
                       "privilege_withdrawn", "aa_compromise" >>
<1>1. /\ code["unspecified"] = 0 /\ code["key_compromise"] = 1 /\ code["ca_compromise"] = 2
      /\ code["affiliation_changed"] = 3 /\ code["superseded"] = 4 /\ code["cessation_of_operation"] = 5
      /\ code["certificate_hold"] = 6 /\ code["remove_from_crl"] = 8 /\ code["privilege_withdrawn"] = 9
      /\ code["aa_compromise"] = 10
  BY DEF CRL_ENTRY_REASON_ENUM_TO_CODE
<1>2. r \in {"unspecified", "key_compromise", "ca_compromise", "affiliation_changed", "superseded",
             "cessation_of_operation", "certificate_hold", "remove_from_crl", "privilege_withdrawn", "aa_compromise"}
  BY DEF CRL_ENTRY_REASON_ENUM_TO_CODE
<1>3. /\ table[1] = "key_compromise" /\ table[2] = "ca_compromise" /\ table[3] = "affiliation_changed"
      /\ table[4] = "superseded" /\ table[5] = "cessation_of_operation" /\ table[6] = "certificate_hold"
      /\ table[8] = "remove_from_crl" /\ table[9] = "privilege_withdrawn" /\ table[10] = "aa_compromise"
      /\ DOMAIN table = 1 .. 10
  OBVIOUS
<1>4. \A c : parse_crl_reason_flags(c)
               = IF c = 0 THEN Ok("unspecified")
                 ELSE IF c \in DOMAIN table \ {7} THEN Ok(table[c]) ELSE Err("ValueError")
  BY DEF parse_crl_reason_flags
<1> HIDE DEF table, code
<1>5. code[r] \in Int /\ parse_crl_reason_flags(code[r]) = Ok(r)
  BY <1>1, <1>2, <1>3, <1>4
<1>6. QED
  BY <1>5 DEF code

ReasonOf(s) == IF s.reason = Nil THEN Nil ELSE CRL_ENTRY_REASON_ENUM_TO_CODE[s.reason]
TimeOf(s) == IF s.time = Nil THEN Nil ELSE py_to_datetime(s.time)

\* The bytes of one OCSP answer
LEMMA SingleEncoded ==
  ASSUME NEW s, EncodeSingle(s).error = "ok"
  PROVE  LET e == EncodeSingle(s).v
         IN  /\ e.status = s.status /\ e.reason = ReasonOf(s) /\ e.time = TimeOf(s)
             /\ e.this_update = py_to_datetime(s.this_update)
             /\ CertId(s.id).error = "ok" /\ e.id = CertId(s.id).v
<1> DEFINE reason == Optional(s.reason, ReasonCode)
           time == Optional(s.time, GeneralizedTime)
           next == Optional(s.next_update, GeneralizedTime)
           f == [status |-> Ok(s.status), reason |-> reason, time |-> time, next_update |-> next,
                 this_update |-> GeneralizedTime(s.this_update), id |-> CertId(s.id)]
           order == << "reason", "time", "next_update", "this_update", "id" >>
           e == EncodeSingle(s).v
<1>1. EncodeSingle(s) = Fields(f, order)
  BY DEF EncodeSingle
<1>2. reason.v = ReasonOf(s) /\ time.v = TimeOf(s) /\ GeneralizedTime(s.this_update).v = py_to_datetime(s.this_update)
  BY DEF Optional, ReasonCode, GeneralizedTime, Ok, ReasonOf, TimeOf
<1> HIDE DEF reason, time, next
<1>3. /\ f["status"] = Ok(s.status) /\ f["reason"] = reason /\ f["time"] = time
      /\ f["this_update"] = GeneralizedTime(s.this_update) /\ f["id"] = CertId(s.id)
      /\ {"status", "reason", "time", "this_update", "id"} \subseteq DOMAIN f
  OBVIOUS
<1>4. DOMAIN order \subseteq Nat /\ 5 \in DOMAIN order /\ order[5] = "id"
  OBVIOUS
<1> HIDE DEF f, order
<1>5. e = [x \in DOMAIN f |-> f[x].v] /\ \A i \in DOMAIN order : f[order[i]].error = "ok"
  BY <1>1, <1>4, FieldsOk
<1> HIDE DEF e
<1>6. CertId(s.id).error = "ok"
  BY <1>3, <1>4, <1>5
<1>7. /\ e.status = Ok(s.status).v /\ e.reason = reason.v /\ e.time = time.v
      /\ e.this_update = GeneralizedTime(s.this_update).v /\ e.id = CertId(s.id).v
  BY <1>3, <1>5
<1>8. Ok(s.status).v = s.status
  BY DEF Ok
<1>9. QED
  BY <1>2, <1>6, <1>7, <1>8 DEF e

\* An OCSP response that this library makes has one answer
LEMMA OneAnswer ==
  ASSUME NEW b, NEW tbs, ResponseContents(b, tbs)
  PROVE  EncodeSingle(b.set.response).error = "ok" /\ tbs.responses = << EncodeSingle(b.set.response).v >>
<1> DEFINE s == b.set.response
           r == [i \in DOMAIN << s >> |-> EncodeSingle(<< s >>[i])]
           bad == {i \in DOMAIN << s >> : r[i].error # "ok"}
           first == CHOOSE i \in bad : \A j \in bad : i <= j
           all == Each(<< s >>, EncodeSingle)
<1>1. all = IF bad = {} THEN Ok([i \in DOMAIN << s >> |-> r[i].v]) ELSE r[first]
  BY DEF Each
<1>2. all.error = "ok" /\ tbs.responses = all.v
  BY DEF ResponseContents
<1> HIDE DEF s, all
<1>3. DOMAIN << s >> = {1} /\ << s >>[1] = s
  OBVIOUS
<1>4. r[1] = EncodeSingle(s)
  BY <1>3
<1>5. bad \subseteq {1} /\ (1 \in bad <=> r[1].error # "ok")
  BY <1>3
<1>6. [i \in DOMAIN << s >> |-> r[i].v] = << r[1].v >>
  BY <1>3
<1> HIDE DEF r, bad
<1>7. bad = {}
  <2>1. SUFFICES ASSUME bad # {} PROVE FALSE
    OBVIOUS
  <2>2. 1 \in bad /\ \A j \in bad : j = 1
    BY <1>5, <2>1
  <2>3. \E i \in bad : \A j \in bad : i <= j
    BY <2>2
  <2>4. first = 1
    BY <2>2, <2>3
  <2>5. QED
    BY <1>1, <1>2, <1>5, <2>1, <2>2, <2>4
<1>8. all.v = << r[1].v >>
  BY <1>1, <1>6, <1>7 DEF Ok
<1>9. QED
  BY <1>2, <1>4, <1>5, <1>7, <1>8 DEF s

\* What the getters return of an encoded answer
LEMMA AnswerRead ==
  ASSUME NEW s \in Answers, NEW d, EncodeSingle(s).error = "ok",
         single_response(d) = Ok(EncodeSingle(s).v)
  PROVE  LET a == OcspAnswer(d)
         IN  /\ a.error = "ok" /\ a.v.status = s.status /\ a.v.reason = s.reason
             /\ a.v.time = (IF s.time = Nil THEN Nil ELSE WholeTicks(convert_to_naive_utc_time(s.time)))
             /\ a.v.this_update = WholeTicks(convert_to_naive_utc_time(s.this_update))
             /\ a.v.serial_number = (IF ByHash(s.id) THEN s.id.by_hash.serial
                                     ELSE big_byte_slice_to_py_int(s.id.cert.serial))
<1> DEFINE e == EncodeSingle(s).v
           reason == Optional(e.reason, parse_crl_reason_flags)
           f == [status |-> Ok(e.status), id |-> Ok(e.id),
                 serial_number |-> Ok(big_byte_slice_to_py_int(e.id.serial)),
                 time |-> Ok(e.time), reason |-> reason,
                 this_update |-> Ok(e.this_update), next_update |-> Ok(e.next_update)]
           order == << "reason" >>
           a == OcspAnswer(d)
<1>1. /\ e.status = s.status /\ e.reason = ReasonOf(s) /\ e.time = TimeOf(s)
      /\ e.this_update = py_to_datetime(s.this_update)
      /\ CertId(s.id).error = "ok" /\ e.id = CertId(s.id).v
  BY SingleEncoded
<1>2. single_response(d) = Ok(e)
  OBVIOUS
<1> HIDE DEF e
<1>3. Ok(e).error = "ok" /\ Ok(e).v = e /\ \A v : Ok(v).error = "ok" /\ Ok(v).v = v
  BY DEF Ok
<1>4. a = Fields(f, order)
  BY <1>2, <1>3 DEF OcspAnswer
<1>5. PICK i \in Inputs.ocsp_response : i.field = "response" /\ SingleAccepted(i.v) /\ s = i.v
  BY DEF Answers
<1>6. /\ s.reason \in DOMAIN CRL_ENTRY_REASON_ENUM_TO_CODE \cup {Nil}
      /\ ByHash(s.id) => IsNumber(s.id.by_hash.serial)
  BY <1>5, OcspInputsAssumption
<1>7. reason = Ok(s.reason)
  <2>1. CASE s.reason = Nil
    BY <1>1, <2>1 DEF Optional, ReasonOf
  <2>2. CASE s.reason # Nil
    <3> DEFINE c == CRL_ENTRY_REASON_ENUM_TO_CODE[s.reason]
    <3>1. c \in Int /\ parse_crl_reason_flags(c) = Ok(s.reason) /\ e.reason = c
      BY <1>1, <1>6, <2>2, ReasonsReadBack DEF ReasonOf
    <3>2. c # Nil
      BY <3>1, InputsAssumption
    <3> HIDE DEF c
    <3>3. QED
      BY <3>1, <3>2 DEF Optional
  <2>3. QED
    BY <2>1, <2>2
<1>8. big_byte_slice_to_py_int(e.id.serial)
        = IF ByHash(s.id) THEN s.id.by_hash.serial ELSE big_byte_slice_to_py_int(s.id.cert.serial)
  <2>1. CASE ByHash(s.id)
    <3> DEFINE v == s.id.by_hash.serial
               bytes == py_uint_to_big_endian_bytes(v)
    <3>1. CertId(s.id) = certid_new_from_hash(s.id.by_hash)
      BY <2>1 DEF CertId
    <3>2. v \in Int /\ v < Two[MaxBits]
      BY <1>6, <2>1 DEF IsNumber
    <3>3. bytes.error = "ok" /\ e.id.serial = bytes.v
      BY <1>1, <3>1 DEF certid_new_from_hash, Ok
    <3> HIDE DEF v
    <3>4. v \in Nat
      BY <3>2, <3>3 DEF py_uint_to_big_endian_bytes, Err
    <3>5. big_byte_slice_to_py_int(bytes.v) = v
      BY <3>2, <3>4, SerialEncoded
    <3>6. QED
      BY <2>1, <3>3, <3>5 DEF v
  <2>2. CASE ~ByHash(s.id)
    <3>1. e.id = certid_new(s.id.cert, s.id.issuer, s.id.hash)
      BY <1>1, <1>3, <2>2 DEF CertId
    <3>2. e.id.serial = s.id.cert.serial
      BY <3>1 DEF certid_new
    <3>3. QED
      BY <2>2, <3>2
  <2>3. QED
    BY <2>1, <2>2
<1> HIDE DEF reason
<1>9. /\ f["status"] = Ok(e.status) /\ f["reason"] = reason /\ f["time"] = Ok(e.time)
      /\ f["this_update"] = Ok(e.this_update) /\ f["serial_number"] = Ok(big_byte_slice_to_py_int(e.id.serial))
      /\ {"status", "reason", "time", "this_update", "serial_number"} \subseteq DOMAIN f
  OBVIOUS
<1>10. \A j \in DOMAIN order : order[j] = "reason"
  OBVIOUS
<1> HIDE DEF f, order, a
<1>11. \A j \in DOMAIN order : f[order[j]].error = "ok"
  BY <1>3, <1>7, <1>9, <1>10
<1>12. a = Ok([x \in DOMAIN f |-> f[x].v])
  BY <1>4, <1>11 DEF Fields
<1>13. a.error = "ok" /\ a.v = [x \in DOMAIN f |-> f[x].v]
  BY <1>12 DEF Ok
<1>14. /\ a.v.status = e.status /\ a.v.reason = s.reason /\ a.v.time = e.time
       /\ a.v.this_update = e.this_update /\ a.v.serial_number = big_byte_slice_to_py_int(e.id.serial)
  BY <1>3, <1>7, <1>9, <1>13
<1>15. \A dt : py_to_datetime(dt) = WholeTicks(convert_to_naive_utc_time(dt))
  BY DEF py_to_datetime, convert_to_naive_utc_time
<1>16. e.time = (IF s.time = Nil THEN Nil ELSE WholeTicks(convert_to_naive_utc_time(s.time)))
  BY <1>1, <1>15 DEF TimeOf
<1>17. QED
  BY <1>1, <1>8, <1>13, <1>14, <1>15, <1>16 DEF a

-----------------------------------------------------------------------------
\* A response that is damaged has no bytes, or the answers of the one that was
\* sent, once or twice
LEMMA DamagedAnswers ==
  ASSUME NEW d, {"kind", "status", "bytes", "tbs", "alg", "sig"} \subseteq DOMAIN d, d.kind = "ocsp_response",
         d.bytes => "responses" \in DOMAIN d.tbs,
         NEW e \in {d} \cup Damaged(d), e.bytes
  PROVE  d.bytes /\ e.tbs.responses \in {d.tbs.responses, d.tbs.responses \o d.tbs.responses}
<1>1. CASE e = d
  BY <1>1
<1>2. CASE e \in Damaged(d)
  <2>1. d.bytes
    BY <1>2, DamagedResponse
  <2>2. e \in ResponseDamage(d)
    BY <1>2, DamageByKind
  <2>3. \/ \E x : e = [d EXCEPT !.status = x]
        \/ e = [d EXCEPT !.bytes = FALSE]
        \/ e = [d EXCEPT !.tbs.responses = @ \o @]
    BY <2>2, Zenon DEF ResponseDamage
  <2>4. CASE \E x : e = [d EXCEPT !.status = x]
    BY <2>1, <2>4
  <2>5. CASE e = [d EXCEPT !.bytes = FALSE]
    <3>1. [d EXCEPT !.bytes = FALSE].bytes = FALSE
      BY Zenon
    <3>2. QED
      BY <2>5, <3>1, Zenon
  <2>6. CASE e = [d EXCEPT !.tbs.responses = @ \o @]
    BY <2>1, <2>6
  <2>7. QED
    BY <2>3, <2>4, <2>5, <2>6
<1>3. QED
  BY <1>1, <1>2

\* The answer of an OCSP response, as its receiver reads it
LEMMA AnswersRead ==
  ASSUME DocumentsInv, ContentsInv PROVE OcspAnswersReadBack
<1>1. SUFFICES ASSUME doc # Nil, doc.kind = "ocsp_response" PROVE OcspAnswersReadBack
  BY DEF OcspAnswersReadBack
<1> DEFINE a == OcspAnswer(doc)
           s == builder.set.response
<1>2. /\ builder.kind \in Kinds /\ ByBuilder(builder, output) /\ output # Nil /\ output.result.error = "ok"
      /\ doc \in {Sent} \cup Damaged(Sent)
  BY <1>1 DEF DocumentsInv, BuilderInv, OutputInv, DocInv
<1>3. builder.kind = "ocsp_response"
  BY <1>1, <1>2, LoadedKind DEF Sent
<1>4. CASE ~doc.bytes
  <2>1. requires_successful_response(doc) = Err("ValueError")
    BY <1>4, Zenon DEF requires_successful_response
  <2>2. Err("ValueError").error = "ValueError"
    BY DEF Err
  <2>3. single_response(doc) = Err("ValueError")
    BY <2>1, <2>2 DEF single_response
  <2>4. a = Err("ValueError")
    BY <2>2, <2>3 DEF OcspAnswer
  <2>5. a.error # "ok"
    BY <2>2, <2>4
  <2>6. QED
    BY <1>1, <1>4, <2>5 DEF OcspAnswersReadBack
<1>5. CASE doc.bytes
  <2>1. /\ Sent.kind = "ocsp_response" /\ {"kind", "status", "bytes", "tbs", "alg", "sig"} \subseteq DOMAIN Sent
        /\ ~Sent.bytes \/ RespondedBy(builder, Sent, output.by)
    BY <1>2, <1>3, SentOcsp DEF Sent
  <2>2. RespondedBy(builder, Sent, output.by) => ResponseContents(builder, Sent.tbs) /\ "responses" \in DOMAIN Sent.tbs
    BY DEF RespondedBy, ResponseContents
  <2>3. Sent.bytes => "responses" \in DOMAIN Sent.tbs
    BY <2>1, <2>2, Zenon
  <2>4. Sent.bytes /\ doc.tbs.responses \in {Sent.tbs.responses, Sent.tbs.responses \o Sent.tbs.responses}
    BY <1>2, <1>5, <2>1, <2>3, DamagedAnswers
  <2>5. ResponseContents(builder, Sent.tbs)
    BY <2>1, <2>2, <2>4, Zenon
  <2>6. EncodeSingle(s).error = "ok" /\ Sent.tbs.responses = << EncodeSingle(s).v >>
    BY <2>5, OneAnswer
  <2>7. s \in Answers
    <3>1. s # Nil \/ \E status : output.result = Ok(UnsuccessfulResponse(status))
      BY <1>2, <1>3 DEF ContentsInv, AnsweredInv
    <3>2. ASSUME NEW status, output.result = Ok(UnsuccessfulResponse(status)) PROVE FALSE
      <4>1. Sent = UnsuccessfulResponse(status)
        BY <3>2 DEF Sent, Ok
      <4>2. QED
        BY <2>4, <4>1, UnsuccessfulHasNoBytes, Zenon
    <3>3. s \in {Nil} \cup Answers
      BY <1>3 DEF ContentsInv, ContentsOk
    <3>4. QED
      BY <3>1, <3>2, <3>3
  <2>8. requires_successful_response(doc) = Ok(doc.tbs)
    BY <1>5, Zenon DEF requires_successful_response
  <2>9. Ok(doc.tbs).error = "ok" /\ Ok(doc.tbs).v = doc.tbs /\ Err("ValueError").error = "ValueError"
    BY DEF Ok, Err
  <2> DEFINE x == EncodeSingle(s).v
  <2>10. CASE doc.tbs.responses = << x >>
    <3>1. Len(<< x >>) = 1 /\ << x >>[1] = x
      OBVIOUS
    <3> HIDE DEF x
    <3>2. single_response(doc) = Ok(x)
      BY <2>8, <2>9, <2>10, <3>1 DEF single_response
    <3> HIDE DEF s, a
    <3>3. /\ a.error = "ok" /\ a.v.status = s.status /\ a.v.reason = s.reason
          /\ a.v.time = (IF s.time = Nil THEN Nil ELSE WholeTicks(convert_to_naive_utc_time(s.time)))
          /\ a.v.this_update = WholeTicks(convert_to_naive_utc_time(s.this_update))
          /\ a.v.serial_number = (IF ByHash(s.id) THEN s.id.by_hash.serial
                                  ELSE big_byte_slice_to_py_int(s.id.cert.serial))
      BY <2>6, <2>7, <3>2, AnswerRead DEF x, a
    <3>4. QED
      BY <3>3 DEF OcspAnswersReadBack, s, a
  <2>11. CASE doc.tbs.responses = << x >> \o << x >>
    <3>1. Len(<< x >> \o << x >>) = 2
      OBVIOUS
    <3> HIDE DEF x
    <3>2. single_response(doc) = Err("ValueError")
      BY <2>8, <2>9, <2>11, <3>1 DEF single_response
    <3>3. a.error # "ok"
      BY <2>9, <3>2 DEF OcspAnswer
    <3>4. QED
      BY <2>11, <3>1, <3>3 DEF OcspAnswersReadBack
  <2>12. QED
    BY <2>4, <2>6, <2>10, <2>11
<1>6. QED
  BY <1>4, <1>5

-----------------------------------------------------------------------------
(* The ways to read a revocation list                                      *)

\* A slice with a step of one or two has an entry for every position that counts
LEMMA SliceLength ==
  ASSUME NEW from \in Nat, NEW to \in Nat, from < to, NEW step \in 1 .. 2
  PROVE  LET chosen == {k \in from .. to - 1 : (k - from) % step = 0}
             m == (to - from + step - 1) \div step
         IN  /\ m \in Nat /\ Cardinality(chosen) = m
             /\ \A k \in chosen : /\ (k - from) \div step + 1 \in 1 .. m
                                  /\ from + (((k - from) \div step + 1) - 1) * step = k
<1> DEFINE chosen == {k \in from .. to - 1 : (k - from) % step = 0}
           m == (to - from + step - 1) \div step
           g == [x \in 1 .. m |-> from + (x - 1) * step]
           h(k) == (k - from) \div step + 1
<1>1. step = 1 \/ step = 2
  OBVIOUS
<1>2. m \in Nat
  BY <1>1
<1>3. \A x \in 1 .. m : from + (x - 1) * step \in chosen
  <2>1. CASE step = 1
    BY <2>1
  <2>2. CASE step = 2
    BY <2>2
  <2>3. QED
    BY <1>1, <2>1, <2>2
<1>4. \A k \in chosen : h(k) \in 1 .. m /\ from + (h(k) - 1) * step = k
  <2>1. CASE step = 1
    BY <2>1
  <2>2. CASE step = 2
    BY <2>2
  <2>3. QED
    BY <1>1, <2>1, <2>2
<1> HIDE DEF m, chosen
<1>5. \A x, y \in 1 .. m : from + (x - 1) * step = from + (y - 1) * step => x = y
  <2>1. CASE step = 1
    BY <1>2, <2>1
  <2>2. CASE step = 2
    BY <1>2, <2>2
  <2>3. QED
    BY <1>1, <2>1, <2>2
<1> HIDE DEF h
<1>6. g \in [1 .. m -> chosen]
  BY <1>3
<1>7. \A x, y \in 1 .. m : g[x] = g[y] => x = y
  BY <1>5
<1>8. \A k \in chosen : \E x \in 1 .. m : g[x] = k
  BY <1>4
<1> HIDE DEF g
<1>9. g \in Bijection(1 .. m, chosen)
  BY <1>6, <1>7, <1>8 DEF Bijection, Injection, Surjection, IsInjective
<1>10. ExistsBijection(1 .. m, chosen)
  BY <1>9 DEF ExistsBijection
<1>11. Cardinality(chosen) = m
  BY <1>2, <1>10, FS_CountingElements
<1>12. QED
  BY <1>2, <1>4, <1>11 DEF h, m, chosen

\* An index counts from either end
LEMMA IndexAgrees ==
  ASSUME NEW S, NEW entries \in Seq(S), NEW i \in Int
  PROVE  LET n == Len(entries)
             at == IF i < 0 THEN i + n ELSE i
         IN  getitem_index(entries, i) = IF at \in 0 .. n - 1 THEN Ok(entries[at + 1]) ELSE Err("IndexError")
<1> DEFINE n == Len(entries)
           at == IF i < 0 THEN i + n ELSE i
<1>1. n \in Nat /\ at \in Int
  OBVIOUS
<1>2. getitem_index(entries, i) = IF at >= n \/ at < 0 THEN Err("IndexError") ELSE Ok(entries[at + 1])
  BY DEF getitem_index
<1> HIDE DEF n, at
<1>3. (at >= n \/ at < 0) <=> ~(at \in 0 .. n - 1)
  BY <1>1
<1>4. QED
  BY <1>2, <1>3 DEF n, at

\* A slice has the entries at its indices, and no others
LEMMA SliceAgrees ==
  ASSUME NEW S, NEW entries \in Seq(S), NEW i \in Int, NEW j \in Int, NEW step \in 1 .. 2
  PROVE  LET n == Len(entries)
             At(x) == IF x < 0 THEN x + n ELSE x
             From(x) == IF At(x) < 0 THEN 0 ELSE At(x)
             chosen == {k \in From(i) .. At(j) - 1 : k < n /\ (k - From(i)) % step = 0}
             slice == getitem_slice(entries, i, j, step)
         IN  /\ slice.error = "ok" /\ Len(slice.v) = Cardinality(chosen)
             /\ \A k \in chosen : slice.v[(k - From(i)) \div step + 1] = entries[k + 1]
<1> DEFINE n == Len(entries)
           At(x) == IF x < 0 THEN x + n ELSE x
           From(x) == IF At(x) < 0 THEN 0 ELSE At(x)
           F == From(i)
           chosen == {k \in F .. At(j) - 1 : k < n /\ (k - F) % step = 0}
           slice == getitem_slice(entries, i, j, step)
           from == SliceBound(i, n, 0)
           to == SliceBound(j, n, n)
           m == (to - from + step - 1) \div step
           part == [k \in 1 .. m |-> entries[from + (k - 1) * step + 1]]
<1>1. n \in Nat
  OBVIOUS
<1>2. slice = IF from >= to THEN Ok(<< >>) ELSE Ok(part)
  BY DEF getitem_slice
<1> HIDE DEF n
<1>3. /\ from \in Nat /\ from = (IF F > n THEN n ELSE F) /\ F \in Nat
      /\ to \in Nat /\ to <= n /\ At(j) \in Int /\ to = (IF At(j) < 0 THEN 0 ELSE IF At(j) > n THEN n ELSE At(j))
  BY <1>1, InputsAssumption DEF SliceBound
<1> HIDE DEF slice, from, to, F, At, From
<1>4. CASE from >= to
  <2>1. chosen = {}
    BY <1>1, <1>3, <1>4
  <2>2. slice.error = "ok" /\ slice.v = << >> /\ Len(<< >>) = 0
    BY <1>2, <1>4 DEF Ok
  <2> HIDE DEF chosen
  <2>3. Cardinality(chosen) = 0
    BY <2>1, FS_EmptySet
  <2>4. QED
    BY <2>1, <2>2, <2>3 DEF n, At, From, F, chosen, slice
<1>5. CASE from < to
  <2>1. F = from /\ chosen = {k \in from .. to - 1 : (k - from) % step = 0}
    BY <1>1, <1>3, <1>5
  <2>2. /\ m \in Nat /\ Cardinality(chosen) = m
        /\ \A k \in chosen : /\ (k - from) \div step + 1 \in 1 .. m
                             /\ from + (((k - from) \div step + 1) - 1) * step = k
    <3> DEFINE set == {k \in from .. to - 1 : (k - from) % step = 0}
    <3>1. /\ m \in Nat /\ Cardinality(set) = m
          /\ \A k \in set : /\ (k - from) \div step + 1 \in 1 .. m
                            /\ from + (((k - from) \div step + 1) - 1) * step = k
      <4>1. from \in Nat /\ to \in Nat /\ from < to
        BY <1>3, <1>5
      <4>2. QED
        BY <4>1, SliceLength
    <3>2. chosen = set
      BY <2>1
    <3> HIDE DEF set, chosen, m
    <3>3. QED
      BY <3>1, <3>2, Zenon
  <2> HIDE DEF chosen, m
  <2>3. slice.error = "ok" /\ slice.v = part
    <3>1. ~(from >= to)
      BY <1>3, <1>5
    <3>2. slice = Ok(part)
      BY <1>2, <3>1, Zenon
    <3> HIDE DEF part
    <3>3. QED
      BY <3>2 DEF Ok
  <2>4. Len(part) = m
    BY <2>2
  <2>5. \A k \in chosen : part[(k - from) \div step + 1] = entries[k + 1]
    BY <2>2
  <2> HIDE DEF part
  <2>6. /\ slice.error = "ok" /\ Len(slice.v) = Cardinality(chosen)
        /\ \A k \in chosen : slice.v[(k - F) \div step + 1] = entries[k + 1]
    BY <2>1, <2>2, <2>3, <2>4, <2>5
  <2>7. QED
    BY <2>6 DEF n, At, From, F, chosen, slice
<1>6. from >= to \/ from < to
  BY <1>3
<1>7. QED
  BY <1>4, <1>5, <1>6, Zenon

-----------------------------------------------------------------------------
\* A lookup finds the first entry with a serial number
LEMMA LookupAgrees ==
  ASSUME NEW list \in Seq(EncodableOnes), NEW d, Entries(d) = EntriesOf(list), NEW i \in DOMAIN Entries(d)
  PROVE  LET entries == Entries(d)
             found == get_revoked_certificate_by_serial_number(d, big_byte_slice_to_py_int(entries[i].serial))
         IN  /\ found.error = "ok" /\ found.v # Nil /\ found.v.serial = entries[i].serial
             /\ \E j \in 1 .. i : found.v = entries[j] /\ \A k \in 1 .. j - 1 : entries[k].serial # entries[i].serial
<1> DEFINE entries == Entries(d)
           v == list[i].serial
           bytes == py_uint_to_big_endian_bytes(v)
           at == {j \in DOMAIN entries : entries[j].serial = bytes.v}
           first == CHOOSE j \in at : \A k \in at : j <= k
           found == get_revoked_certificate_by_serial_number(d, big_byte_slice_to_py_int(entries[i].serial))
<1>1. DOMAIN entries = DOMAIN list /\ \A j \in DOMAIN list : entries[j] = EncodeRevoked(list[j]).v
  BY DEF EntriesOf
<1>2. \A j \in DOMAIN list : list[j] \in Revoked /\ Encodable(list[j])
  BY DEF EncodableOnes
<1>3. DOMAIN list = 1 .. Len(list) /\ Len(list) \in Nat
  OBVIOUS
<1> HIDE DEF entries
<1>4. i \in DOMAIN list
  BY <1>1 DEF entries
<1>5. /\ bytes.error = "ok" /\ entries[i].serial = bytes.v
      /\ big_byte_slice_to_py_int(entries[i].serial) = v
  BY <1>1, <1>2, <1>4, RevokedEncoded
<1>6. \A j \in DOMAIN list : entries[j] # Nil
  BY <1>1, <1>2, RevokedEncoded, ListInputsAssumption
<1>7. found = IF bytes.error # "ok" THEN bytes
              ELSE IF at = {} THEN Ok(Nil) ELSE Ok(entries[first])
  BY <1>5 DEF get_revoked_certificate_by_serial_number, entries
<1> HIDE DEF bytes, found
<1>8. i \in at /\ at \in SUBSET Nat
  BY <1>1, <1>3, <1>4, <1>5
<1>9. \E j \in at : \A k \in at : j <= k
  BY <1>8, LeastIndex
<1>10. first \in at /\ \A k \in at : first <= k
  BY <1>9
<1> HIDE DEF first
<1>11. found.error = "ok" /\ found.v = entries[first]
  BY <1>5, <1>7, <1>8 DEF Ok
<1>12. first \in 1 .. i /\ first \in DOMAIN list
  BY <1>1, <1>3, <1>4, <1>8, <1>10
<1>13. \A k \in 1 .. first - 1 : entries[k].serial # entries[i].serial
  BY <1>1, <1>3, <1>5, <1>10, <1>12
<1>14. found.v # Nil /\ found.v.serial = entries[i].serial
  BY <1>5, <1>6, <1>10, <1>11, <1>12
<1>15. QED
  BY <1>11, <1>12, <1>13, <1>14 DEF entries, found

\* Indices, slices and lookups agree, from the cache or from the document
LEMMA ViewsAgree ==
  ASSUME DocumentsInv, DatesInv, ContentsInv PROVE CrlViewsAgree
<1>1. SUFFICES ASSUME IsCrl PROVE CrlViewsAgree
  BY DEF CrlViewsAgree
<1> DEFINE entries == Entries(doc)
           n == Len(entries)
           At(i) == IF i < 0 THEN i + n ELSE i
           From(i) == IF At(i) < 0 THEN 0 ELSE At(i)
<1>2. builder.list \in Seq(EncodableOnes) /\ entries = EntriesOf(builder.list)
  BY <1>1, EntriesLoaded DEF IsCrl
<1>3. entries \in Seq(EncodedRevoked)
  <2> DEFINE list == builder.list
  <2>1. Len(list) \in Nat /\ DOMAIN list = 1 .. Len(list) /\ \A j \in 1 .. Len(list) : list[j] \in Revoked /\ Encodable(list[j])
    BY <1>2 DEF EncodableOnes
  <2> HIDE DEF list
  <2>2. EntriesOf(list) \in [1 .. Len(list) -> EncodedRevoked]
    BY <2>1, RevokedEncoded DEF EntriesOf
  <2>3. QED
    BY <1>2, <2>1, <2>2 DEF list
<1>4. (IF cell = Nil THEN Entries(doc) ELSE cell) = entries
  BY DEF ContentsInv, CachedInv
<1>5. \A i \in Indices : i \in Int
  BY ListInputsAssumption
<1> HIDE DEF entries
<1>6. \A i \in Indices :
        Answer(i) = IF At(i) \in 0 .. n - 1 THEN Ok(entries[At(i) + 1]) ELSE Err("IndexError")
  <2>1. TAKE i \in Indices
  <2>2. Answer(i) = getitem_index(entries, i)
    BY <1>4 DEF Answer
  <2>3. i \in Int
    BY <1>5
  <2>4. QED
    BY <1>3, <2>2, <2>3, IndexAgrees, Zenon
<1>7. ASSUME NEW i \in Indices, NEW j \in Indices, NEW step \in 1 .. 2
      PROVE  LET chosen == {k \in From(i) .. At(j) - 1 : k < n /\ (k - From(i)) % step = 0}
                 slice == AnswerSlice(i, j, step)
             IN  /\ slice.error = "ok" /\ Len(slice.v) = Cardinality(chosen)
                 /\ \A k \in chosen : slice.v[(k - From(i)) \div step + 1] = entries[k + 1]
  <2>1. AnswerSlice(i, j, step) = getitem_slice(entries, i, j, step)
    BY <1>4 DEF AnswerSlice
  <2>2. i \in Int /\ j \in Int
    BY <1>5
  <2> DEFINE chosen == {k \in From(i) .. At(j) - 1 : k < n /\ (k - From(i)) % step = 0}
             slice == getitem_slice(entries, i, j, step)
  <2>3. /\ slice.error = "ok" /\ Len(slice.v) = Cardinality(chosen)
        /\ \A k \in chosen : slice.v[(k - From(i)) \div step + 1] = entries[k + 1]
    BY <1>3, <2>2, SliceAgrees
  <2>4. QED
    BY <2>1, <2>3
<1>8. ASSUME NEW i \in DOMAIN entries
      PROVE  LET found == get_revoked_certificate_by_serial_number(doc, big_byte_slice_to_py_int(entries[i].serial))
             IN  /\ found.error = "ok" /\ found.v # Nil /\ found.v.serial = entries[i].serial
                 /\ \E j \in 1 .. i : found.v = entries[j] /\ \A k \in 1 .. j - 1 : entries[k].serial # entries[i].serial
  <2>1. Entries(doc) = EntriesOf(builder.list) /\ i \in DOMAIN Entries(doc)
    BY <1>2 DEF entries
  <2>2. QED
    BY <1>2, <2>1, LookupAgrees DEF entries
<1>9. QED
  BY <1>6, <1>7, <1>8, Zenon DEF CrlViewsAgree, entries

-----------------------------------------------------------------------------
\* The three invariants, together
LEMMA DocumentInvariants == DocumentSpec => [](DocumentsInv /\ DatesInv /\ ContentsInv)
<1>1. DocumentInit => DatesInv /\ ContentsInv
  BY DatesInvInit, ContentsInvInit
<1>2. DocumentsInv /\ DatesInv /\ ContentsInv /\ [DocumentNext]_documentVars => DatesInv' /\ ContentsInv'
  BY DatesInvNext, ContentsInvNext
<1>3. QED
  BY <1>1, <1>2, DocumentsInvariant, PTL DEF DocumentSpec

\* What a receiver reads is what the builder was given, to the second: serial
\* numbers, dates, revoked certificates, those of an existing list too, attributes
\* and the answer of an OCSP response; and the encoder panics on nothing but an
\* entry of an existing list that was revoked before 1950
THEOREM DocumentsReadBack == DocumentSpec => []ReadsBack
<1>1. DocumentsInv /\ DatesInv /\ ContentsInv => ReadsBack
  BY FieldsRead, DatesRead, AnswersRead, NoPanic DEF ReadsBack
<1>2. QED
  BY <1>1, DocumentInvariants, PTL

\* Indices, slices and lookups of a revocation list agree, whether or not its
\* entries are cached
THEOREM DocumentsCrlViewsAgree == DocumentSpec => []CrlViewsAgree
<1>1. DocumentsInv /\ DatesInv /\ ContentsInv => CrlViewsAgree
  BY ViewsAgree
<1>2. QED
  BY <1>1, DocumentInvariants, PTL
=============================================================================
