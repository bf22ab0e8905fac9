# A TLA+ verification of pyca/cryptography

The repository is a Python package with a Rust core. Python code configures
objects; the Rust code in `src/src/rust` checks arguments, keeps the state of
the objects and calls OpenSSL; X.509 path validation is written in Rust
throughout. This directory models the parts whose correctness is a matter of
control and state (searches, protocols of calls, limits, streaming) and leaves
the cryptographic arithmetic to OpenSSL, which is modelled only by how the code
uses it.

Paths in `PROJECT.json` start at the repository's root, written `src/`; in this
file the verification crate is
`src/src/rust/cryptography-x509-verification/src` and is written `x509v/`.

## The system and its parts

| Part | State | Operations | Models |
| --- | --- | --- | --- |
| Path building (`x509v/lib.rs`, `trust_store.rs`) | recursion of `build_chain_inner`, `Budget`, the loop of `evaluate_constraints` | `verify` | `Paths`, `ChainBuilder`, `PathValidation`, `ChainBuilderProofs` |
| General names (`x509v/types.rs`) | none | constructors, `matches` | `NameTypes`, `NameMatching`, `PolicyProofs` |
| Policies (`x509v/policy/mod.rs`, `extension.rs`) | immutable | `permits_basic`, `permits_ca`, `permits_ee`, `valid_issuer`, `ExtensionPolicy::permits` | `Policy`, `ExtensionPolicy`, `PolicyProofs` |
| Python verification API (`rust/src/x509/verify`) | graph of frozen builders | the builder methods, `build_*_verifier` | `PolicyBuilder`, `PolicyProofs` |
| Cipher contexts (`backend/ciphers.rs`, `ciphers/modes.py`) | EVP context, `updated`, two byte limits | `update`, `update_into`, `authenticate_additional_data`, `finalize`, `finalize_with_tag`, `reset_nonce` | `CipherContext`, `CipherContextProofs` |
| Hash and MAC contexts (`backend/hashes.rs`, `hmac.rs`, `cmac.rs`, `poly1305.rs`) | EVP context, `squeezed`, squeeze limit | `update`, `finalize`, `verify`, `squeeze`, `copy` | `HashContext`, `HashContextProofs` |
| Padding (`padding.rs`) | length seen, buffer of the unpadder | `update`, `finalize` | `Padding`, `CipherContextProofs` |
| One-shot AEADs (`backend/aead.rs`) | the shared key schedule, one EVP context per call | `new`, `encrypt`, `decrypt` | `Aead`, `AeadProofs` |
| Asymmetric keys (`backend/rsa.rs`, `ec.rs`, `dsa.rs`, `dh.rs`, the Edwards and Montgomery curves) | immutable keys | keys from numbers and back, `sign`, `verify`, `recover_data_from_signature`, `encrypt`, `decrypt`, `exchange` | `ByteNumbers`, `KeyNumbers`, `Signatures`, `Keys`, `SigningProofs` |
| Key serialization (`backend/utils.rs`, `keys.rs`, `ssh.py`) | the password callback's record | `private_bytes`, `public_bytes`, the loaders | `KeySerialization`, `Keys`, `SigningProofs` |
| Extensions (`rust/src/x509/extensions.rs`, `common.rs`, `certificate.rs`, `crl.rs`, `sct.rs`) | the cell with the parsed extensions of a document | `encode_extensions`, `parse_and_cache_extensions` | `Asn1Values`, `ExtensionCodec`, `Extensions` |
| Certificates, revocation lists, requests (`x509/base.py`, `rust/src/x509`) | builders with fields that are set once, the cached entries of a revocation list | the setters, `sign`, the loaders, `verify_directly_issued_by`, `is_signature_valid`, indexing | `SignatureAlgorithms`, `DocumentBuilders`, `Documents`, `SigningProofs` |
| OCSP (`x509/ocsp.py`, `rust/src/x509/ocsp*.rs`) | builders | the setters, `build`, `sign`, `build_unsuccessful`, the loaders, the getters | `Ocsp`, `Documents`, `SigningProofs` |
| Fernet and MultiFernet (`fernet.py`) | the list of keys; the clock is outside | `encrypt`, `decrypt`, `extract_timestamp`, `rotate` | `FernetTokens`, `Fernet`, `FernetPromise`, `FernetProofs` |
| KDFs, key wrapping, OTP, PKCS#7 and #12, cipher registry, bindings | | | not modelled, see below |

How they interact: a Python program builds an `ExtensionPolicy` and a
`PolicyBuilder`, which make a verifier; its `verify` runs the path search, which
asks the policy about every certificate, which runs the extension validators,
some of which may be Python callbacks that raise. Names met on the way are
matched by the name types. What the search works on are documents that builders
made: a setter checks its argument, `sign` computes an algorithm identifier from
the key, the hash and the padding, encodes the fields and the extensions and
signs; a receiver goes the other way, from the identifier to the arguments of
`verify`. The contexts are independent of all this; Fernet and the KDFs are
built on them, and a key's `sign` on the hashes.

What is hard here:

* *the search*: one budget shared by all branches, errors that must stop it next
  to errors that must not, checks that hold for a chain only because of a check
  made for another certificate, cycles between certificates, a depth that is
  counted in a `u8`;
* *the protocols of calls*: objects whose methods may be called in any order,
  where a failing call has already changed something;
* *limits and widths*: byte limits, block boundaries, bytes compared without
  branches, prefix lengths of zero, leading zeros of numbers and secrets, two
  digits for a year;
* *two ways through two tables*: what is written by one function is read by
  another, which goes back from an identifier, a bit or a delimiter to a value;
* *time and threads*: MultiFernet reads the clock once per key; an AEAD object
  is used by several threads at once; parsing extensions runs Python code, so
  that a second thread may parse the same document meanwhile.

Everything else runs under the GIL with an exclusive borrow of its object.
There is no persistence, so no crash recovery.
`PROJECT.json` lists the hazards one by one, each at its line.

## How the modules correspond to the code

`PROJECT.json`, under `map`, gives the lines of every definition. The main
choices:

**`NameTypes`** keeps a dotted string as the sequence of its labels, and a label
as a model value with a length, a lower-case form and a flag for legal
characters; IP addresses are bit strings of a parametric width, so that masks of
length zero and masks that are no prefix occur. `NameMatching` is a question and
answer machine that puts every constraint and pattern of an instance to every
name, and states what the answers should be without using the code's algorithm
(suffixes, one label, masked equality).

**`ExtensionPolicy`, `Policy`** are operators: a check returns `Ok` or the kind
of the error, in the order in which the code makes the checks. An extension has
a form (parses, malformed, not convertible to Python), a criticality and an
abstract value; a signature verifies if the key that made it is the issuer's.

**`Paths`** defines certificates, requests and `ValidPath`: which sequences of
certificates answer a request, without a search. **`PathValidation`** is the
abstract specification: `verify` accepts with a valid path, rejects when there
is none (or when a candidate cuts a branch short, the exception that the code
has, see *Where the code and its docs differ*), or gives up on its work limit,
and eventually does one of the three. It is parameterised by what a request, a
valid path and an obstructed request are, so that it says nothing about
certificates.

**`ChainBuilder`** is the search. Its stack has one frame per active call of
`build_chain_inner`; one step is one name constraint evaluation, one candidate
issuer, or one return. The error kinds, the boxing of the last error in
`CandidatesExhausted`, the fatal errors and the budget are the code's.
`ImplementsPathValidation` states that it implements `PathValidation`.

**`PolicyBuilder`** is the graph of objects a Python program may hold: every
method adds an object made from an existing one, or fails.

**`CipherContext`** has one object. Data is a length; OpenSSL is what it was
given (`evp`), how much of a block it keeps back, and when it may fail. An
update is one step for the checks, one per chunk of `1 << 29` bytes, and one for
the return, because a chunk may fail after others went through. `lost` counts
the output dropped in that case.

**`HashContext`** has one object and copies of it. OpenSSL contexts live apart
from the objects, so that aliasing is expressible; a digest is the input it
belongs to. Any OpenSSL call may fail; the five classes differ in what a failure
leaves behind, and the model keeps those differences.

**`Padding`** works on real bytes; the checks without branches work on the set of
the positions of a byte's bits, where or is union. The unpadder is fed from what
the padder has returned so far, or with arbitrary foreign bytes.

**`Aead`** has one object, made for one of the builds of OpenSSL that decide
between the three implementations (a copied context, a context made per call, an
`EVP_AEAD`). A call is a step for the checks, one for the associated data, one
for the data and one for the return, and two threads interleave. A ciphertext is
a sequence of what its bytes depend on, so that a tag verifies exactly for the
key, nonce, associated data and text it was made from. The "lazy" implementation
keeps the caller's key object, whose content may be overwritten between calls.
OpenSSL's own limit on the length of a CCM message (`CcmLengthFits`) is apart
from the checks of `aead.rs`, which are one byte more generous.

**`ByteNumbers`, `KeyNumbers`** compute with real, small numbers in bytes of a
few bits: the component checks of RSA, DSA, DH and EC keys, the conversions to
and from `BIGNUM`, the padding of a shared secret. **`KeySerialization`** keeps
of a document its encoding, container, delimiter, key, flaw and password;
**`Signatures`** of a signature what it was made from and under which settings
of the context. RSA decryption has more than one outcome where OpenSSL has: from
version 3.2 on it answers a PKCS1v15 ciphertext with a wrong padding with bytes
that it makes up (implicit rejection), before that it fails, and which of them
happens is not decided in the code. **`Keys`** makes, writes, reads and uses such
keys; the checks that OpenSSL makes itself are external.

**`Asn1Values`** has the conversions that extensions and documents share:
integers to DER and back, datetimes with and without zones to the two time
formats and back (a datetime counts microseconds, of which there are
`Microseconds` in a tick, an ASN.1 time counts ticks, and `WholeTicks` drops the
rest), names, general names, networks, revocation reasons and
distribution points. **`ExtensionCodec`** encodes and parses every extension the library knows;
**`Extensions`** builds a list of them, or receives a foreign document, and lets
two threads ask for the parsed extensions.

**`SignatureAlgorithms`** is `sign.rs` in both directions. **`DocumentBuilders`**
and **`Ocsp`** are what the builders accept and what the encoders, loaders and
checks do; **`Documents`** runs through the life of a document: setters in any
order, `sign`, damage in transit, loading, checking and reading. A revocation
list takes any `RevokedCertificate` as it is: the ones that
`RevokedCertificateBuilder` builds from arguments it accepts, and the entries of
lists that were loaded (`ExistingEntries`), which nobody checked.

**`FernetTokens`** has tokens with their parts, **`Fernet`** the calls of
MultiFernet, in which each key is a step with its own reading of the clock.
**`FernetPromise`** is the abstract specification: a call is decided at one
instant. The refinement maps a call whose token's key has had its turn to one
that is already refused, whatever keys remain to be tried.

Definitions whose name ends in a suffix such as `_NoLength` and that carry the
comment *mutant* are plausible bugs. They are used by nothing; `PROJECT.json`
names the property that each of them breaks when it takes the place of the
definition below it.

## Runs

| Run | Shows | Bounds |
| --- | --- | --- |
| `name_matching` | the verdicts on DNS names, wildcards, subnets and mailboxes agree with reference definitions | names of up to three labels, empty, overlong, illegal and mixed-case labels included; 2- and 3-bit addresses |
| `chain` | soundness, depth bound, no empty subjects, the end at a fatal error, refinement of `PathValidation` with termination | pools of cross-signed, self-signed, cyclic, wrongly keyed and malformed candidates in every order, and name constraints at every level with a budget of 6 that some searches exhaust; the largest depth of the code's `u8` is 2, so that its overflow happens |
| `policy_builder` | no sequence of calls yields a verifier that drops the mandatory checks or accepts an unknown critical extension | two extension policies, three builders, one verifier |
| `cipher_context` | byte limits, no overrun, completeness, authenticity, additional data first | blocks of 2 bytes, chunks of 3, limits of 5 and 2 bytes, so that an update takes two chunks, leaves part of a block, and reaches a limit |
| `hash_context` | digests, verdicts and streams belong to their object; one answer; squeeze limit | three objects (a copy of a copy), two updates, limit of 2 |
| `padding` | the unpadder holds exactly the last block; accepts exactly well-padded data; round trip | blocks of 1 to 3 bytes (and 0), messages of up to 3 bytes, foreign strings of up to 4, every division into pieces; blocks of 130 and 255 bytes, where pad sizes use the highest bit, with messages of one byte value |
| `aead` | a call seals and opens for its own arguments; nothing but a genuine message is opened; what is sealed is opened, no assertion fails at any length, and OpenSSL refuses what the checks accept at one length of CCM only | two threads; every class on every build; tags of 2 bytes, blocks of 2, lengths of 0, 1 and 3 to 5 bytes, of which 4 is the `max_length` of a CCM nonce and 5 is beyond every limit; messages altered in every part |
| `keys` | encrypted keys are read with their password only; readers read what writers wrote; exactly the signed is verified and the encrypted decrypted; numbers make working keys | all key types, passwords up to and beyond a limit of 3 and a buffer of 4, hashes of 2 and 3 bytes in keys of 7, a PKCS1v15 overhead of 6 instead of 11 bytes, every pair of padding arguments, numbers of up to 12 bits in bytes of 2 bits |
| `extensions` | threads get one object; what is encoded is read back; what was read can be written again and means the same | two threads, lists of up to two extensions, several values of each extension at the edges of its encoding |
| `documents` | nothing is accepted but what was signed; what is signed verifies; fields read back; the views of a revocation list agree | every key type, hash and padding; dates around 1950 and 2050 in two time zones, on ticks of two microseconds and between them; serials up to 9 bits; lists of up to three entries, new ones and ones of an existing list, one of them from before 1950; damage to every part that the checks look at |
| `fernet` | calls are atomic (refinement), rotation keeps the age, genuine tokens are read | rings of up to two keys, three tokens (a rotation of a rotation), a clock of three ticks that moves both ways, timestamps of 2 bits, a skew of one |
| `docs_signature_valid` | the disagreement under *Finding* | as `documents` |

The instances are small because what matters happens in small ones: a backtrack
needs two candidates, an exhausted nested loop two levels, a leak between
branches a pool of three; a leftover block needs one byte less than a block, a
failing chunk a second chunk; aliasing needs one copy or a second thread, and a
copy that outlives its original a second copy; a clock that changes between two
attempts needs two keys. Time, key sizes and algorithms only need values on both
sides of each comparison. Deadlock is checked except where an instance is at
its end after a bounded number of calls (`name_matching`, `aead`, `keys`,
`extensions`, `documents`).

## Fairness

`ChainBuilder!Spec` assumes `WF_vars(Next)`: `verify` is a function that runs on
the caller's thread and is never suspended for good between two of its steps.
The progress of the search from there on, across cycles, is what
`ImplementsPathValidation` shows. `Fernet!Spec` assumes weak fairness of the
attempts of a running call, for the same reason: the loop over the keys goes on
by itself. Nothing is assumed of the clock, of the changes of keys or of the
next call. The other specifications have no fairness, because nothing makes a program call another method: they state
safety only.

## What is proved

The TLAPS theorems hold for every value of the constants: any set of
certificates and requests, any limits, sizes, inputs and numbers of objects or
threads.

* `ChainBuilderProofs`: **`TypeCorrect`** (the depth fits its `u8`, the budget
  does not wrap), **`SearchSound`** (a returned chain is a valid path),
  **`SearchDepth`** (the recursion is at most `max_chain_depth + 2` deep),
  **`SearchSubjects`** (no certificate above the leaf has an empty subject).
  The invariant `SearchInv` says more than any of them. Soundness is a statement
  about the final answer, but the checks that make it true were made in frames
  that are gone by then. So each frame carries what was checked when it was
  pushed (`FrameOK`: signed and permitted at its depth) and what was checked
  since (`FrameChecked`: its name constraints hold for all names below);
  `CursorInv` says how much of the second is done while the loop over the
  subtrees runs; and a successful return carries a path that is valid together
  with the frames that are left. Backtracking pops a frame and keeps the rest.
* In the same module **`SearchImplements`**: the search implements
  `PathValidation!Safety`. Acceptance is soundness, and that the path is one
  over the certificates of the request. Rejection is completeness: if no
  candidate cuts a branch short, no wanted path (valid, and no longer than the
  depth counter can count) exists. `CompleteInv` carries this through the
  search: for every frame, no wanted path that begins with the frames up to it
  goes on with a candidate that its loop has passed (`FrameTried`); a call that
  returned an error excluded the candidate it was made for (`ErrorJustified`,
  with `FrameLinked` saying which one that is); and the flag `permit` is false
  only for a reason (`PermitInv`). Each way to fail then has to be matched with
  a conjunct of `ValidPath`: the constraints, the depth, the policy, the subject
  by which candidates are looked up. **`FatalEndsSearch`** is the action
  property `FatalIsFinal`; its invariant says that a fatal error exists only
  with an empty budget, in a call that returns.
* `PolicyProofs`: lemmas about the checks of a policy: that each returns `Ok` or
  a kind of error that is not fatal, and what a verdict of `Ok` of each implies.
  From them **`ChecksAreMandatory`** and **`UnknownCriticalNeverAccepted`**, for
  every certificate, policy and callback: they hold of all policies, whatever
  builder made them. **`VerifiersRequire`** is about the builders: the policies
  of a verifier themselves require basicConstraints and the SAN, which
  `PolicyDefinition::new` enforces and a default policy satisfies.
* In the same module the names that policies and searches compare, for all
  labels, lengths and address widths: **`DNSNamesMatch`**, **`SubnetsMatch`**,
  **`MailboxesMatch`**. The state (`NamesInv`) is a question and the code's reply
  to it; the work is in the operators. `ZippedLengths`: labels that agree up to
  case have as many characters, so what two names share from the right is as
  long in both, and the name with fewer labels is the shorter one. That is why
  the code may test characters where the RFC counts labels. `LeadingOnesPrefix`
  and `PrefixIffNoHole`: counting ones finds a hole in a mask, because the
  leading ones are a subset of the ones with as many members. `MaskKeepsPrefix`:
  shifting a full word right and left clears all bits but the first ones, for
  shifts of zero and of the whole width too. The sums over labels are recursive
  functions; that they exist and what they add up to is shown by induction in
  the form of a least counterexample (`InductionUpTo`).
* `CipherContextProofs`: **`LimitsHold`** and **`AdditionalDataFirst`**.
  The invariant `ContextInv` adds to the types that an AEAD context that was
  not updated has neither given data to OpenSSL nor has any under way: without
  it the flag `updated` would say nothing about OpenSSL.
  **`BufferHolds`**, **`EveryByteReturned`** and **`DecryptionAuthentic`** rest
  on `FlowInv`, which accounts for every byte: what OpenSSL was fed was returned,
  is in the buffer of the running update, was lost with a failing chunk, or is
  the part of a block that OpenSSL keeps; and the buffer has room for that part
  and the rest of the data. A context that is gone had verified its tag.
* In the same module the padding contexts: **`UnpadderHoldsLastBlock`** and
  **`PaddingsAreCorrect`**, for every block size and any data in any pieces.
  `ComparesInConstantTime` shows that `constant_time_lt` compares, for all pairs
  of bytes: only the highest bits of the two and of their wrapped difference
  matter. `BitsDetermine`, `MismatchIsSeen` and `ChecksExactly` go on to the
  verdict of the whole check. `PaddingInv` adds to the two properties that the
  wire is the message and in the end its padding, and that what was returned
  is whole blocks, without which a rest of less than a block would not be known
  to be the whole data. The round trip follows from the verdict: data ends in
  one padding only (`PaddingsDiffer`).
* `HashContextProofs`: **`DigestsCorrect`**, **`VerdictsCorrect`**,
  **`AnswersOnce`**, **`SqueezesLimited`**. `HashInv` adds that contexts are not
  shared, that a context agrees with its object (and is only finished after a
  squeeze, since an update would start it over), and that an object with a
  context has not answered.
* `AeadProofs`: **`SealsOnlyOwn`**, **`OpensGenuineOnly`**, **`LimitsFit`**, for
  any number of threads. `AeadInv` says that the context of a call in progress
  holds exactly the key, the nonce and the tag of that call and the associated
  data it has fed so far, for each of the three implementations. It leans on
  what keeps the calls apart: the contexts of the object itself are copied and
  never written after `new`. For `LimitsFit` it carries which answers can come
  from which lengths: the length that OpenSSL refuses and the check accepts is
  the one number that is neither above nor below `max_length`.
* `FernetProofs`: **`CallsAreAtomic`**, the refinement of `FernetPromise` step by
  step, and **`RotationKeepsAgeAlways`**. `FernetInv` says that every token that
  was issued is what one key made of its message, its time and an iv that no
  other token has, and that a token presented to a call has the MAC of one that
  was issued. So at most one key of the ring accepts it, and the instant at which
  that key has its turn is the one that decides.
* `SigningProofs`, about keys: **`KeysReadableOnlyWithPassword`**,
  **`KeysLoadWhatWasWritten`**, **`KeysVerifyExactlyTheSigned`**,
  **`KeysDecryptWhatTheyEncrypt`**, for all keys, formats, passwords, paddings and
  hashes. The properties compare what a call answers with the making of its
  input, which is past. `KeysInv` (**`KeysInvariant`**) carries it: the object at
  hand is a key of its class (`ObjInv`), what was made last is what its writer
  makes of the key and the arguments recorded with it (`MadeInv`), and the last
  answer is that of the operation for its arguments (`LastInv`). What remains is
  about the operators: each reader undoes the one writer that fits it, and two
  signature or encryption contexts agree only if the settings that matter do.
  For decryption the theorem says what holds with every OpenSSL: under the
  settings of `encrypt` the plaintext, under others never the plaintext, and no
  error at all only for PKCS1v15.
* In the same module, about documents: **`DocumentsValidOnlyAsSigned`**,
  **`DocumentsSignedVerifies`**, **`DocumentsReadBack`** and
  **`DocumentsCrlViewsAgree`**. `DocumentsInv` (**`DocumentsInvariant`**) says
  that what `sign` or `build` returned came from the builder as it is now with
  arguments that were accepted (`OutputInv`), and that what a receiver loaded is
  that, or a form of it damaged in one part (`DocInv`). Validity is then a matter
  of two tables: the identifier that `compute_signature_algorithm` gives for a
  key, a hash and a padding leads back to arguments of `verify` under which the
  signature verifies, and to no others. What is read back needs two more
  invariants. `DatesInv`: dates are numbers from 1950 on, and a window is in
  order as soon as both of its dates are set, so that it does not matter which
  came first. `ContentsInv`: serial numbers are not negative, revoked
  certificates are ones that were built or loaded, attributes and OCSP answers
  are ones that their encoders take, a
  successful response has an answer, and the cell of a revocation list, once
  filled, holds the entries of the document that was loaded. From these follow,
  for every builder, that each getter returns what the setter was given, dates
  without their microseconds (`TicksInOrder`: dropping these keeps a window in
  order; `TickFrom1950`: and a date on its side of 1950), and that no encoder
  panics unless a loaded entry of the list is dated before 1950 (`EarlyEntry`).
  A list that was signed has no such entry, since the encoding of each of them
  succeeded (`ListEncoded`). The serial numbers need arithmetic that the provers do not
  have: the module proves from the well-foundedness of the natural numbers that
  the recursive function `Two` is defined and that two to the a + b is the
  product of the powers, and from that that `FromBytes` undoes `ToBytes` for the
  length that `SignedLength` gives. For revocation lists it counts the indices of
  a slice, and shows that a lookup by serial number finds the first entry that
  the indices show under that number.
* `Extensions`: **`OneObjectForAll`**, from `CellInv`: a call that has an answer
  has the object in the cell, and a call that is still parsing will find it.

Assumptions: `ContentAssumption` and `RequestAssumption` of `Paths` (what a
certificate and a request consist of), `TestCertsAssumption` (the same of the
certificates put to the verifiers of `PolicyBuilder`), `LimitAssumption`,
`PolicyAssumption`, `LabelAssumption` (which says also that lower case keeps the
length of a label), `StringsAssumption`, `PaddingAssumption`, `SizeAssumption`, `ConfigAssumption`,
`HashAssumption`, `AeadAssumption` and `RequestAssumption` of `Aead`,
`FernetAssumption`, `FernetTokensAssumption`, `ExtensionsAssumption`;
for keys `KeySerializationAssumption` (a password that is accepted fits the
buffer of OpenSSL's callback), `SignaturesAssumption`, `GeneratedAssumption`,
`ForeignAssumption`, `SigningArgsAssumption`, `EncryptionArgsAssumption`,
`NoneAssumption`; for documents `SignatureAlgorithmsAssumption`,
`Asn1ValuesAssumption`, `ByteNumbersAssumption`, `SigningsAssumption`,
`AlgorithmsAssumption`, and `InputsAssumption`, `OcspInputsAssumption` and
`ListInputsAssumption` (the arguments that setters and the views of a revocation
list are tried with, and the entries of lists that were loaded, with a number
that is not negative and a date of any year in either form; numbers have at most
`MaxBits` bits, however many that is).
They say that sizes are positive numbers, that the constants have the shape their comments
give, and that the absent value is none of the others. TLC evaluates all of them
on the instances.

## What is only model-checked

* Liveness: that the search ends (the last conjunct of
  `ImplementsPathValidation`) and that a call of MultiFernet returns, with
  success for a genuine token (`GenuineIsRead`). TLAPS does not treat fairness.
* `KeysWork`: that the numbers the constructors accept make keys that work is
  number theory (RSA and DSA with real numbers).
* `ReadBack` and `Rewritable` of the extensions compare an operator with its
  inverse over whole values of some thirty kinds, several of them folds over
  sequences of data. Only the parts that documents share with them (integers,
  times, revocation entries) are proved, in `SigningProofs`.

## Finding

`docs_signature_valid`: `compute_signature_algorithm` signs with DSA and SHA-384
or SHA-512, but the table from which verification learns the hash
(`hazmat/_oid.py`) ends at SHA-256. A request or a revocation list that is
signed so has `is_signature_valid` False, and such a certificate cannot be
checked with `verify_directly_issued_by`. The documentation says that the method
returns True if the signature is correct. `SignedVerifies` states that this is
the only such gap.

## Where the code and its docs differ

Met while modelling; the models do what the code does.

* A candidate issuer whose extensions cannot be read ends its branch of the
  search (`x509v/lib.rs:371`); a valid path behind it is not found, although
  `docs/x509/verification.rst:164` promises a path if one exists.
* Self-issued intermediates count against `max_chain_depth`
  (`x509v/lib.rs:396`); `verification.rst:268` says that they do not.
* A failed `finalize` leaves a cipher context usable (`ciphers.rs:293`);
  `symmetric-encryption.rst:693` says that it can no longer be used.
* `finalize_with_tag` works with a `min_tag_length` below 4 (`modes.py:236`);
  `symmetric-encryption.rst:777` says that it raises.
* The longest message that the checks of `AESCCM` let through has
  2^(8 (15 - nonce)) bytes (`aead.rs:798`, `:831`: `max_length < len`), one more
  than fits the length field. OpenSSL refuses it, and `encrypt` ends in an
  `InternalError` instead of the `ValueError` of longer messages;
  `docs/hazmat/primitives/aead.rst:463` gives the limit as
  `len(data) < 2 ** (8 * (15 - len(nonce)))`, a comment in
  `tests/hazmat/primitives/test_aead.py:299` as "no more than 65536 bytes when
  nonce is 13 bytes". `RefusedOnlyAtMaxLength` states that this is the only such
  length.
* A padding block size of 0 is documented (`padding.rst:38`) and accepted, and
  is then divided by (`padding.rs:103`).
* The getters of an OCSP response work whenever there are response bytes,
  whatever the status (`ocsp_resp.rs:83`); `docs/x509/ocsp.rst:528` ties them to
  a successful one. `load_der_ocsp_response` wants bytes for a successful status
  and does not refuse them for another.

Other behaviour of the code that the properties have to except, or that a
reader of the models should know:

* A distribution point with an empty list as its full name is written without
  its relative name, an issuing distribution point with both names with the full
  name only, and an empty extended key usage is written and cannot be read.
* An empty set of reasons makes the encoder of distribution points panic.
* The length of a list of signed certificate timestamps wraps at 2^16.
* A revocation list that is sliced with a negative step panics.
* An entry of an existing revocation list can be added to a new one
  (`docs/x509/reference.rst:1284`), and `add_revoked_certificate` looks at
  nothing but its class. When it is dated before 1950, which
  `RevokedCertificateBuilder` refuses, `UtcTime::new(dt).unwrap()`
  (`certificate.rs:967`) panics in `sign`. `PanicsOnEarlyEntriesOnly` states that
  nothing else makes the encoder of a document panic.
* `py_to_datetime` drops the microseconds of a datetime (`common.rs:511`); all
  properties about what is read back are to the second.
* PKCS1v15 decryption of a ciphertext that was made with another padding or for
  another key may succeed with made-up bytes (OpenSSL 3.2 and later, see
  `tests/wycheproof/test_rsa.py:272`).
* DH private numbers are not checked for y = g^x, so that only keys that are
  consistent agree on a secret.
* `OCSPResponse.signature_hash_algorithm` does not know RSA-PSS.

## What is not modelled, and why

* The bytes of DER, PEM, SSH and PKCS encodings. Of an encoding the models keep
  what is told apart by it: which fields, tags, formats, delimiters and lengths.
* PKCS#7 and PKCS#12: builders of the same kind as those in `DocumentBuilders`,
  around long fixed encodings and external encryption.
* Key derivation, key wrapping, one-time passwords: functions of bytes around
  one primitive that a model can only take as opaque; of state they have a flag
  that makes a derivation a once-only call.
* SSH certificates, the iterator over several OCSP answers, RFC 4514 strings,
  fingerprints.
* Subclasses of `RevokedCertificate` that a program defines itself, whose
  getters may return anything.
* The cipher registry: a constant table.
* The conversion of verified chains to Python objects, and getters.
* OpenSSL's arithmetic, and its allocation failures other than the ones
  `HashContext` has.

## Open work

In the order in which it would add most:

1. `ReadBack` for all values: a predicate for the values of each extension as an
   assumption on `Values`, one lemma for each pair of encoder and parser, and an
   induction for the framing of timestamps.
2. `Kdf`: the once-only objects and the counter loops.
3. PKCS#7 and PKCS#12 builders beside `DocumentBuilders`.
