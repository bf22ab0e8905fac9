-------------------------------- MODULE Keys --------------------------------
(***************************************************************************)
(* A program that uses asymmetric keys: it makes or loads a key object,    *)
(* produces something with it (a document, a signature, a ciphertext) and  *)
(* consumes that with the same or another object; and it makes keys from   *)
(* numbers and agrees on secrets with them.  Key objects do not change, so *)
(* one production and one consumption of what was produced are enough.     *)
(***************************************************************************)
EXTENDS KeySerialization, KeyNumbers, Signatures

CONSTANTS
  Generated,            \* key objects that a program generates
  Foreign,              \* documents from elsewhere
  Encryptions,          \* arguments: [alg, format, password]
  Passwords,            \* what a program gives to a loader
  SigningArgs,          \* [data, padding, algorithm]
  RecoverArgs,          \* [padding, algorithm]
  EncryptionArgs,       \* [plaintext, padding]
  Numbers               \* the integers of keys: [alg, ...]

\* A program generates keys of the kinds that have a class; BoringSSL makes no
\* DH keys
ASSUME GeneratedAssumption ==
  \A o \in Generated :
    /\ o = [class |-> o.kind, kind |-> o.kind, key |-> o.key, private |-> TRUE, flaw |-> None]
    /\ o # None /\ o.kind \in DOMAIN Classes /\ ClassOf(o.kind) = o.kind
    /\ Boringssl => o.kind # "DH"

\* A document from elsewhere is in one of the formats that keys.rs reads, or a
\* private key of OpenSSH; what is wrong with it fits its kind
ASSUME ForeignAssumption ==
  \A d \in Foreign :
    /\ d.private \in BOOLEAN /\ d.encrypted \in BOOLEAN
    /\ d.password # None /\ (~d.encrypted => d.password = Empty)
    /\ \/ d.container \in {"PKCS8", "TraditionalOpenSSL", "PKCS1", "SubjectPublicKeyInfo"}
       \/ d.container = "OpenSSH" /\ d.private
    /\ d.container = "PKCS1" => d.kind = "RSA"
    /\ d.flaw \in {"explicit", "curve", "infinity"} => d.kind = "EC"
    /\ d.flaw = "rsa" => d.kind \in {"RSA", "RSA_PSS"}

\* None is none of the values it is told apart from
ASSUME NoneAssumption ==
  /\ None \notin DOMAIN Classes \cup {"explicit", "curve", "infinity", "rsa"}
  /\ None # Empty /\ None \notin Encryptions
  /\ \A enc \in Encryptions : enc.password # None /\ enc.password.len \in Nat

\* The paddings: PKCS1v15 has no arguments; no label is the empty one
V15Padding == [name |-> "PKCS1v15", salt |-> Nil, mgf |-> Nil]

ASSUME SigningArgsAssumption ==
  \A a \in SigningArgs : a.padding # Nil =>
    /\ a.padding = [name |-> a.padding.name, salt |-> a.padding.salt, mgf |-> a.padding.mgf]
    /\ a.padding.name = "PKCS1v15" => a.padding = V15Padding

ASSUME EncryptionArgsAssumption ==
  \A a \in EncryptionArgs :
    /\ a.plaintext # Nil
    /\ a.padding.name = "PKCS1v15" => a.padding = V15Padding
    /\ a.padding.name = "OAEP" =>
         /\ a.padding = [name |-> "OAEP", hash |-> a.padding.hash, mgf |-> a.padding.mgf,
                         label |-> a.padding.label]
         /\ a.padding.label # Nil

VARIABLES
  obj,                  \* the key object at hand
  made,                 \* what was produced last: [what, value, by, arg]
  last,                 \* the last consumption: [op, arg, out]
  numbers,              \* keys made from numbers
  secrets               \* what exchange returned, by the two keys

vars == << obj, made, last, numbers, secrets >>

NoneMade == [what |-> "nothing", value |-> None, by |-> None, arg |-> None]
NoneLast == [op |-> "nothing", arg |-> None, out |-> None]

-----------------------------------------------------------------------------
Generate(o) ==
  /\ numbers = << >> /\ last = NoneLast
  /\ \/ obj = None /\ made = NoneMade
     \/ made.what \in {"signature", "ciphertext"} /\ o.kind = made.by.kind
  /\ obj' = o
  /\ last' = NoneLast
  /\ UNCHANGED << made, numbers, secrets >>

\* A document arrives that another program made
Receive(d) ==
  /\ obj = None /\ made = NoneMade /\ numbers = << >>
  /\ made' = [what |-> "foreign", value |-> d, by |-> None, arg |-> None]
  /\ UNCHANGED << obj, last, numbers, secrets >>

\* public_key()
PublicKey ==
  /\ obj # None /\ obj.private
  /\ obj' = [obj EXCEPT !.private = FALSE]
  /\ last' = NoneLast
  /\ UNCHANGED << made, numbers, secrets >>

Produce(what, value, arg) ==
  /\ made' = [what |-> what, value |-> value, by |-> obj, arg |-> arg]
  /\ last' = NoneLast
  /\ UNCHANGED << obj, numbers, secrets >>

WritePrivate(encoding, format, enc) ==
  /\ obj # None /\ obj.private /\ made = NoneMade /\ IsEncryption(enc)
  /\ LET r == PrivateBytes(obj, encoding, format, enc)
     IN  IF r.error = "ok" THEN Produce("document", r.doc, enc) ELSE Produce("error", r.error, None)

WritePublic(encoding, format) ==
  /\ obj # None /\ ~obj.private /\ made = NoneMade
  /\ LET r == PublicBytes(obj, encoding, format)
     IN  IF r.error = "ok" THEN Produce("document", r.doc, None) ELSE Produce("error", r.error, None)

Read(op, arg, r) ==
  /\ last = NoneLast /\ made.what \in {"document", "foreign"}
  /\ obj' = r.obj
  /\ last' = [op |-> op, arg |-> arg, out |-> r.error]
  /\ UNCHANGED << made, numbers, secrets >>

LoadDerPrivate(password, skip) ==
  /\ made.what \in {"document", "foreign"}
  /\ Read("private", << password, skip >>, load_der_private_key_bytes(made.value, password, skip))

LoadPemPrivate(password, skip) ==
  /\ made.what \in {"document", "foreign"}
  /\ Read("private", << password, skip >>, load_pem_private_key(made.value, password, skip))

LoadSshPrivate(password, skip) ==
  /\ made.what \in {"document", "foreign"}
  /\ Read("private", << password, skip >>, load_ssh_private_key(made.value, password, skip))

LoadRawPrivate ==
  /\ made.what \in {"document", "foreign"}
  /\ Read("private", << None, FALSE >>, FromRawPrivate(made.value))

LoadDerPublic ==
  made.what \in {"document", "foreign"} /\ Read("public", None, load_der_public_key_bytes(made.value))

LoadPemPublic ==
  made.what \in {"document", "foreign"} /\ Read("public", None, load_pem_public_key(made.value))

LoadOther ==
  made.what \in {"document", "foreign"} /\ Read("public", None, LoadOtherPublic(made.value))

-----------------------------------------------------------------------------
Sign(a) ==
  /\ obj # None /\ obj.private /\ made = NoneMade
  /\ \/ /\ obj.class = "RSA" /\ a.padding # Nil
        /\ Produce("signature", RsaSign(obj.key, a.data, a.padding, a.algorithm), a)
     \/ /\ obj.class = "DSA" /\ a.padding = Nil /\ a.algorithm # Nil
        /\ Produce("signature", DsaSign(obj.key, a.data, a.algorithm), a)
     \/ /\ obj.class = "EC" /\ a.padding = Nil /\ a.algorithm # Nil
        /\ \E alg \in {"ECDSA", "other"} :
             Produce("signature", EcSign(obj.key, a.data, alg, a.algorithm), a)
     \/ /\ obj.class \in {"ED25519", "ED448"} /\ a.padding = Nil /\ a.algorithm = Nil
        /\ Produce("signature", EdSign(obj.key, a.data), a)

Verify(a) ==
  LET out(result) == last' = [op |-> "verify", arg |-> a, out |-> result]
  IN  /\ obj # None /\ last = NoneLast /\ made.what = "signature" /\ made.value.error = "ok"
      /\ \/ /\ obj.class = "RSA" /\ a.padding # Nil
            /\ out(RsaVerify(obj.key, made.value, a.data, a.padding, a.algorithm))
         \/ /\ obj.class = "DSA" /\ a.padding = Nil /\ a.algorithm # Nil
            /\ out(DsaVerify(obj.key, made.value, a.data, a.algorithm))
         \/ /\ obj.class = "EC" /\ a.padding = Nil /\ a.algorithm # Nil
            /\ out(EcVerify(obj.key, made.value, a.data, "ECDSA", a.algorithm))
         \/ /\ obj.class \in {"ED25519", "ED448"} /\ a.padding = Nil /\ a.algorithm = Nil
            /\ out(EdVerify(obj.key, made.value, a.data))
      /\ UNCHANGED << obj, made, numbers, secrets >>

Recover(a) ==
  /\ obj # None /\ last = NoneLast /\ obj.class = "RSA" /\ made.what = "signature" /\ made.value.error = "ok"
  /\ last' = [op |-> "recover", arg |-> a, out |-> RecoverData(obj.key, made.value, a.padding, a.algorithm)]
  /\ UNCHANGED << obj, made, numbers, secrets >>

Encrypt(a) ==
  /\ obj # None /\ obj.class = "RSA" /\ made = NoneMade
  /\ Produce("ciphertext", RsaEncrypt(obj.key, a.plaintext, a.padding), a)

Decrypt(a) ==
  /\ obj # None /\ obj.class = "RSA" /\ obj.private
  /\ last = NoneLast /\ made.what = "ciphertext" /\ made.value.error = "ok"
  /\ \E out \in RsaDecrypt(obj.key, made.value, a.padding) :
       last' = [op |-> "decrypt", arg |-> a, out |-> out]
  /\ UNCHANGED << obj, made, numbers, secrets >>

-----------------------------------------------------------------------------
KeyFromNumbers(r, skip) ==
  CASE r.alg = "RSA" -> RsaPrivateKey(r, skip)
    [] r.alg = "RSA public" -> RsaPublicKey(r)
    [] r.alg = "DSA" -> DsaPrivateKey(r)
    [] r.alg = "DSA public" -> DsaPublicKey(r)
    [] r.alg = "DH" -> DHPrivateKey(r)
    [] r.alg = "EC" -> EcPrivateKey(r)
    [] r.alg = "EC derived" -> DerivePrivateKey(r.d)

\* private_numbers(), of a key that was made from r
PrivateNumbers(r) ==
  CASE r.alg = "RSA" -> RsaPrivateNumbers(r)
    [] r.alg = "DSA" -> DsaPrivateNumbers(r)
    [] r.alg = "DH" -> DHPrivateNumbers(r)
    [] r.alg = "EC" -> EcPrivateNumbers(r)
    [] OTHER -> r

FromNumbers(r, skip) ==
  LET out == KeyFromNumbers(r, skip)
  IN  /\ obj = None /\ made = NoneMade
      /\ \/ last = NoneLast
         \/ Len(numbers) = 1 /\ last.out = "ok" /\ r.alg = numbers[1].alg /\ r.alg \in {"DH", "EC"}
      /\ last' = [op |-> "numbers", arg |-> << r, skip >>, out |-> out]
      /\ numbers' = IF out = "ok" THEN Append(numbers, r) ELSE numbers
      /\ UNCHANGED << obj, made, secrets >>

\* exchange, by the first key with the public half of the second or the reverse
Exchange(i) ==
  LET a == numbers[i]
      b == numbers[3 - i]
  IN  /\ Len(numbers) = 2 /\ a.alg = b.alg /\ a.alg \in {"DH", "EC"}
      /\ secrets' = [secrets EXCEPT ![i] = IF a.alg = "DH" THEN DHExchange(a, b) ELSE EcExchange(a, b)]
      /\ UNCHANGED << obj, made, last, numbers >>

Init ==
  /\ obj = None /\ made = NoneMade /\ last = NoneLast
  /\ numbers = << >> /\ secrets = << Null, Null >>

Next ==
  \/ \E o \in Generated : Generate(o)
  \/ \E d \in Foreign : Receive(d)
  \/ PublicKey
  \/ \E encoding \in Encodings \cup {"other"}, format \in PrivateFormats \cup {"other"},
        enc \in Encryptions : WritePrivate(encoding, format, enc)
  \/ \E encoding \in Encodings \cup {"other"}, format \in PublicFormats \cup {"other"} :
        WritePublic(encoding, format)
  \/ \E password \in Passwords, skip \in BOOLEAN : LoadDerPrivate(password, skip)
  \/ \E password \in Passwords, skip \in BOOLEAN : LoadPemPrivate(password, skip)
  \/ \E password \in Passwords, skip \in BOOLEAN : LoadSshPrivate(password, skip)
  \/ LoadRawPrivate
  \/ LoadDerPublic
  \/ LoadPemPublic
  \/ LoadOther
  \/ \E a \in SigningArgs : Sign(a)
  \/ \E a \in SigningArgs : Verify(a)
  \/ \E a \in RecoverArgs : Recover(a)
  \/ \E a \in EncryptionArgs : Encrypt(a)
  \/ \E a \in EncryptionArgs : Decrypt(a)
  \/ \E r \in Numbers : \E skip \in IF r.alg = "RSA" THEN BOOLEAN ELSE {FALSE} : FromNumbers(r, skip)
  \/ \E i \in 1 .. 2 : Exchange(i)

Spec == Init /\ [][Next]_vars

-----------------------------------------------------------------------------
(* Properties                                                              *)

\* Who asked for a private key to be encrypted gets a document that is loaded
\* with that password only, and never an error-free document in the clear
\* (pkey_private_bytes, then any of the loaders)
ReadableOnlyWithPassword ==
  /\ made.what = "document" /\ last.op = "private" /\ last.out = "ok"
  /\ made.arg # None /\ made.arg.alg # "NoEncryption"
  => last.arg[1] = made.arg.password

\* The reader that fits a document takes the password that was used, however
\* long, and gives back the key that was written, as an object of its class
RoundTrips ==
  LET d == made.value
      by == IF made.arg # None /\ made.arg.alg # "NoEncryption" THEN made.arg.password ELSE None
      expected == [made.by EXCEPT !.private = d.private]
  IN  made.what = "document" =>
        IF d.private
        THEN \E r \in {load_der_private_key_bytes(d, by, TRUE), load_pem_private_key(d, by, TRUE),
                       load_ssh_private_key(d, by, TRUE), FromRawPrivate(d)} :
               r.error = "ok" /\ r.obj = expected
        ELSE \E r \in {load_der_public_key_bytes(d), load_pem_public_key(d), LoadOtherPublic(d)} :
               r.error = "ok" /\ r.obj = expected

\* A loader never returns a key that is not the document's, never a private key
\* when a public one was asked for or the reverse, never a point at infinity or
\* on a curve it does not know, and no RSA key that fails its check unless the
\* check was skipped; RSA-PSS keys come out as RSA keys
LoadsOnlySound ==
  last.op \in {"private", "public"} /\ last.out = "ok" =>
    /\ obj.key = made.value.key /\ obj.class = ClassOf(made.value.kind) /\ obj.kind # "RSA_PSS"
    /\ obj.private <=> last.op = "private"
    /\ made.value.flaw \notin {"explicit", "curve", "infinity"}
    /\ made.value.flaw = "rsa" => ~obj.private \/ last.arg[2]
    /\ obj.private => last.arg[1] \in {None, made.value.password}
    /\ obj.private /\ ~made.value.encrypted => last.arg[1] \in {None, Empty}

\* Verification with the arguments of a signing that succeeded succeeds, with
\* the salt length left open too, and a digest may be given for the data
VerifiesWhatItSigns ==
  LET a == last.arg
      b == made.arg
      digest(x) == IF x.algorithm # Nil /\ ~x.algorithm.prehashed THEN Digest(x.algorithm.hash, x.data)
                   ELSE x.data
  IN  /\ last.op = "verify" /\ obj.key = made.by.key /\ digest(a) = digest(b)
      /\ a.algorithm = Nil <=> b.algorithm = Nil
      /\ a.algorithm # Nil => a.algorithm.hash = b.algorithm.hash
      /\ \/ a.padding = b.padding
         \/ a.padding # Nil /\ b.padding # Nil /\ a.padding = [b.padding EXCEPT !.salt = AutoLength]
      => last.out = "ok"

\* Verification succeeds for the signed data only, and under the same padding,
\* hash and mask generation hash
VerifiesNothingElse ==
  LET a == last.arg
      b == made.arg
  IN  last.op = "verify" /\ last.out = "ok" =>
        /\ obj.key = made.by.key
        /\ obj.class = "RSA" => /\ a.padding.name = b.padding.name /\ a.padding.mgf = b.padding.mgf
                                /\ a.algorithm.hash = b.algorithm.hash
        /\ a.algorithm # Nil /\ ~a.algorithm.prehashed /\ ~b.algorithm.prehashed => a.data = b.data

\* decrypt returns the plaintext with the key and the padding arguments of
\* encrypt, an empty label being none.  With another key or other arguments it
\* never returns the plaintext: it fails, or, asked for PKCS1v15, returns bytes
\* that OpenSSL made up, without an error (RsaPrivateKey::decrypt)
DecryptsWhatItEncrypts ==
  LET same == obj.key = made.by.key /\ last.arg.padding = made.arg.padding
  IN  last.op = "decrypt" =>
        /\ same => last.out = Decrypted(made.arg.plaintext)
        /\ last.out.error = "ok" /\ ~same =>
             last.arg.padding.name = "PKCS1v15" /\ last.out = Decrypted(Nil)

\* A private key that was made from numbers, and checked, works: RSA undoes
\* what the public exponent did for every message, and a DSA signature made with x
\* verifies with y
AcceptedKeysWork ==
  LET r == last.arg[1]
  IN  last.op = "numbers" /\ last.out = "ok" =>
        /\ r.alg = "RSA" /\ ~last.arg[2] =>
             \A msg \in 0 .. r.n - 1 : Pow(Pow(msg, r.e, r.n), r.d, r.n) = msg
        /\ r.alg = "DSA" /\ IsPrime(r.q) /\ Pow(r.g, r.q, r.p) = 1 =>
             \A k \in 1 .. r.q - 1, hash \in 0 .. r.q - 1 :
               LET rr == Pow(r.g, k, r.p) % r.q
                   s == ((hash + r.x * rr) * Pow(k, r.q - 2, r.q)) % r.q
                   w == Pow(s, r.q - 2, r.q)
               IN  rr # 0 /\ s # 0 =>
                     ((Pow(r.g, (hash * w) % r.q, r.p) * Pow(r.y, (rr * w) % r.q, r.p)) % r.p) % r.q = rr

\* The checks on numbers refuse no valid key: RSA with the private exponent
\* reduced by either function of the primes
ValidKeysAccepted ==
  LET r == last.arg[1]
  IN  last.op = "numbers" /\ r.alg = "RSA" /\ last.out # "ok" =>
        ~(/\ \A v \in FieldValues(r) : v >= 0
          /\ OpensslChecks(r) /\ r.p > 2 /\ r.q > 2 /\ r.e > 1 /\ r.e < r.n /\ r.d < r.n
          /\ r.iqmp < r.p)

\* Both sides of a key agreement get the same bytes, as many as the modulus has,
\* leading zeros included
SharedSecretsAgree ==
  /\ \A i \in 1 .. 2 : Len(numbers) = 2 /\ numbers[i].alg = "DH" =>
       numbers[i].y = Pow(numbers[i].g, numbers[i].x, numbers[i].p)
  /\ \A i \in 1 .. 2 : secrets[i] # Null /\ secrets[i].error = "ok"
  => /\ secrets[1] = secrets[2]
     /\ numbers[1].alg = "DH" =>
          /\ Len(secrets[1].bytes) = ModulusBytes(numbers[1].p)
          /\ FromBytes(secrets[1].bytes) = Pow(numbers[1].y, numbers[2].x, numbers[1].p)

\* A key gives back the numbers it was made from (py_int_to_bn, then
\* bn_to_py_int), and the bytes of every parameter of a DH key are what DER
\* wants, so that the unwraps of parameter_bytes hold, and are read back as the
\* same numbers
NumbersSurvive ==
  \A i \in DOMAIN numbers :
    /\ PrivateNumbers(numbers[i]) = numbers[i]
    /\ numbers[i].alg = "DH" =>
         LET b == ParameterBytes(numbers[i])
         IN  /\ IsBigUint(b.p) /\ IsBigUint(b.g) /\ (numbers[i].q # Null => IsBigUint(b.q))
             /\ SameParameters(ParametersFrom(b), numbers[i])

\* The loaders read what the serializers wrote, and nothing that is not sound
LoadsWhatWasWritten == RoundTrips /\ LoadsOnlySound

\* verify accepts what sign made under the same arguments, and nothing else
VerifiesExactlyTheSigned == VerifiesWhatItSigns /\ VerifiesNothingElse

\* The numbers that the constructors accept are those of keys that work; keys
\* made of them agree on secrets, and give their numbers back
KeysWork == AcceptedKeysWork /\ ValidKeysAccepted /\ SharedSecretsAgree /\ NumbersSurvive
=============================================================================
