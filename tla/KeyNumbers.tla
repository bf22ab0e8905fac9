----------------------------- MODULE KeyNumbers -----------------------------
(***************************************************************************)
(* Keys made from integers (rsa.rs, dsa.rs, dh.rs, ec.rs, utils.rs): the   *)
(* conversions between Python integers and OpenSSL numbers, the checks of  *)
(* the numbers classes, and key agreement.  The arithmetic is real, on     *)
(* small numbers; the sizes that the code compares with are constants.     *)
(* A curve is the cyclic group of its generator's multiples.               *)
(***************************************************************************)
EXTENDS ByteNumbers, FiniteSets

CONSTANTS
  DsaPBits,             \* {1024, 2048, 3072, 4096}
  DsaQBits,             \* {160, 224, 256}
  MIN_MODULUS_SIZE,     \* 512
  CurveOrder,           \* the order of the curve's generator, a prime
  Null

ASSUME KeyNumbersAssumption ==
  /\ MIN_MODULUS_SIZE \in Nat
  /\ DsaPBits \subseteq Nat /\ DsaQBits \subseteq Nat
  /\ CurveOrder \in Nat \ {0, 1}

Pow(b, x, m) ==
  LET power[i \in 0 .. x] == IF i = 0 THEN 1 % m ELSE (power[i - 1] * b) % m
  IN  power[x]

Divides(a, b) == b % a = 0
IsPrime(p) == p > 1 /\ \A d \in 2 .. p - 1 : ~Divides(d, p)

-----------------------------------------------------------------------------
(* Conversions                                                             *)

\* int.to_bytes raises OverflowError for a negative number, here Null
py_int_to_bn(v) == IF v < 0 THEN Null ELSE FromBytes(ToBytes(v, SignedLength(v)))

bn_to_py_int(v) == FromBytes(ToBytes(v, (BitLength(v) + ByteBits - 1) \div ByteBits))

\* What a key that was made from the integers of r returns for those in F
Returned(r, F) == [f \in DOMAIN r |-> IF f \in F THEN bn_to_py_int(py_int_to_bn(r[f])) ELSE r[f]]

bn_to_big_endian_bytes(v) == ToBytes(v, SignedLength(v))

-----------------------------------------------------------------------------
(* RSA                                                                     *)

check_private_key_components(r) ==
  /\ r.n >= 3
  /\ \A v \in {r.p, r.q, r.dmp1, r.dmq1, r.iqmp, r.d} : v < r.n
  /\ r.e >= 3 /\ r.e < r.n /\ r.e % 2 = 1
  /\ r.dmp1 % 2 = 1 /\ r.dmq1 % 2 = 1
  /\ r.p * r.q = r.n

check_public_key_components(r) == r.n >= 3 /\ r.e >= 3 /\ r.e < r.n /\ r.e % 2 = 1

\* RSA_check_key
OpensslChecks(r) ==
  /\ IsPrime(r.p) /\ IsPrime(r.q) /\ r.n = r.p * r.q
  /\ (r.d * r.e) % (r.p - 1) = 1 % (r.p - 1) /\ (r.d * r.e) % (r.q - 1) = 1 % (r.q - 1)
  /\ r.dmp1 = r.d % (r.p - 1) /\ r.dmq1 = r.d % (r.q - 1)
  /\ (r.iqmp * r.q) % r.p = 1

check_rsa_private_key(r) == OpensslChecks(r) /\ r.p % 2 # 0 /\ r.q % 2 # 0

FieldValues(r) == {r[f] : f \in DOMAIN r \ {"alg"}}

RsaPrivateKey(r, unsafe_skip_rsa_key_validation) ==
  IF ~check_private_key_components(r) THEN "ValueError"
  ELSE IF \E v \in FieldValues(r) : py_int_to_bn(v) = Null THEN "OverflowError"
  ELSE IF ~unsafe_skip_rsa_key_validation /\ ~check_rsa_private_key(r) THEN "ValueError"
  ELSE "ok"

RsaPrivateNumbers(r) == Returned(r, {"p", "q", "d", "dmp1", "dmq1", "iqmp", "e", "n"})

RsaPublicKey(r) == IF check_public_key_components(r) THEN "ok" ELSE "ValueError"

-----------------------------------------------------------------------------
(* DSA                                                                     *)

check_dsa_parameters(r) ==
  /\ BitLength(r.p) \in DsaPBits /\ BitLength(r.q) \in DsaQBits
  /\ r.g > 1 /\ r.g < r.p

check_dsa_private_numbers(r) ==
  /\ check_dsa_parameters(r)
  /\ r.x > 0 /\ r.x < r.q
  /\ r.y = Pow(r.g, r.x, r.p)

DsaPrivateKey(r) == IF check_dsa_private_numbers(r) THEN "ok" ELSE "ValueError"

DsaPrivateNumbers(r) == Returned(r, {"p", "q", "g", "y", "x"})

DsaPublicKey(r) ==
  IF ~check_dsa_parameters(r) THEN "ValueError"
  ELSE IF py_int_to_bn(r.y) = Null THEN "OverflowError" ELSE "ok"

-----------------------------------------------------------------------------
(* Diffie-Hellman                                                          *)

DHParameterNumbers(r) == r.g >= 2 /\ BitLength(r.p) >= MIN_MODULUS_SIZE

\* DH_check: a safe prime when there is no q, else a subgroup of order q
DhChecks(r) ==
  /\ IsPrime(r.p) /\ r.g < r.p - 1
  /\ IF r.q = Null THEN IsPrime((r.p - 1) \div 2)
     ELSE IsPrime(r.q) /\ Divides(r.q, r.p - 1) /\ Pow(r.g, r.q, r.p) = 1

dh_parameters_from_numbers(r) ==
  IF ~DHParameterNumbers(r) \/ ~DhChecks(r) THEN "ValueError" ELSE "ok"

\* That y is the power of the generator is not checked
DHPrivateKey(r) ==
  IF dh_parameters_from_numbers(r) # "ok" THEN "ValueError"
  ELSE IF Null \in {py_int_to_bn(r.y), py_int_to_bn(r.x)} THEN "OverflowError" ELSE "ok"

DHPrivateNumbers(r) == Returned(r, {"p", "g", "y", "x"} \cup IF r.q = Null THEN {} ELSE {"q"})

SameParameters(a, b) == a.p = b.p /\ a.g = b.g /\ a.q = b.q

\* The secret without leading zeros, as OpenSSL derives it
Stripped(z) == ToBytes(z, (BitLength(z) + ByteBits - 1) \div ByteBits)

\* The secret is moved to the end of a buffer as long as the modulus
LeftPadded_Behind(s, n) ==   \* mutant
  s \o [i \in 1 .. n - Len(s) |-> 0]

LeftPadded(s, n) == [i \in 1 .. n - Len(s) |-> 0] \o s

ModulusBytes(p) == (BitLength(p) + ByteBits - 1) \div ByteBits

\* OpenSSL refuses a peer of other parameters and a public value out of range
PeerAcceptable(a, b) == SameParameters(a, b) /\ b.y > 1 /\ b.y < a.p - 1

Secret(error, bytes) == [error |-> error, bytes |-> bytes]

\* The secret is unwrapped, whether or not OpenSSL accepts it
DHExchange(a, b) ==
  LET z == Pow(b.y, a.x, a.p)
  IN  IF ~PeerAcceptable(a, b) THEN Secret("ValueError", << >>)
      ELSE IF z <= 1 \/ z = a.p - 1 THEN Secret("panic", << >>)
      ELSE Secret("ok", LeftPadded(Stripped(z), ModulusBytes(a.p)))

\* parameter_bytes, and from_der_parameters of what it writes
ParameterBytes(r) ==
  [p |-> bn_to_big_endian_bytes(r.p), g |-> bn_to_big_endian_bytes(r.g),
   q |-> IF r.q = Null THEN << >> ELSE bn_to_big_endian_bytes(r.q)]

ParametersFrom(b) ==
  [p |-> FromBytes(b.p), g |-> FromBytes(b.g), q |-> IF b.q = << >> THEN Null ELSE FromBytes(b.q)]

-----------------------------------------------------------------------------
(* Elliptic curves: a point is a multiple of the generator, 0 is infinity, *)
(* and coordinates are given by the point they stand for, Null when it is  *)
(* not on the curve, and by whether one of them is negative                *)

PublicFromNumbers(r) == ~r.negative /\ r.point # Null

EcPrivateKey(r) ==
  IF ~PublicFromNumbers(r) THEN "ValueError"
  ELSE IF py_int_to_bn(r.d) = Null THEN "OverflowError"
  ELSE IF r.d % CurveOrder # r.point THEN "ValueError" ELSE "ok"

EcPrivateNumbers(r) == Returned(r, {"d"})

\* derive_private_key checks the key, so that the value is within the order
DerivePrivateKey(d) ==
  IF py_int_to_bn(d) = Null THEN "OverflowError"
  ELSE IF d \notin 1 .. CurveOrder - 1 THEN "ValueError" ELSE "ok"

EcExchange(a, b) ==
  LET z == (a.d * b.point) % CurveOrder IN IF z = 0 THEN Secret("ValueError", << >>) ELSE Secret("ok", << z >>)
=============================================================================
