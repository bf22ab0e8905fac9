-------------------------------- MODULE Aead --------------------------------
(***************************************************************************)
(* The one-shot AEAD classes (backend/aead.rs).  One object is used by     *)
(* several threads: each call makes an OpenSSL context of its own, from    *)
(* the object's base contexts or, in the lazy classes, from the key object *)
(* that the program still holds and may have overwritten.                  *)
(*                                                                         *)
(* A byte of a sealed message is a symbol: [kind, of, pos].  A call is one *)
(* step up to the associated data, one step per piece of it, and one for   *)
(* the data; calls of several threads interleave between these steps,      *)
(* since taking a piece out of a list runs Python code.                    *)
(***************************************************************************)
EXTENDS Naturals, Sequences, FiniteSets

CONSTANTS
  Threads,
  Configs,              \* what objects are made: [cls, build, fips, key, tag_length]
  Requests(_, _),       \* the calls a thread makes on an object: [op, nonce, aad, data]
  Overwritten(_),       \* what a program may write over the key object it holds
  TagLength,            \* 16
  CCMTagLengths,        \* {4, 6, ..., 16}
  BlockSize,            \* the block size of OCB
  MaxInt,               \* i32::MAX
  ByteBits,             \* 8
  UsizeBits,            \* the width of usize
  None

Classes == {"ChaCha20Poly1305", "AESGCM", "AESCCM", "AESSIV", "AESOCB3", "AESGCMSIV"}

ASSUME AeadAssumption ==
  /\ TagLength \in Nat \ {0} /\ CCMTagLengths \subseteq Nat \ {0}
  /\ BlockSize \in Nat \ {0, 1} /\ MaxInt \in Nat
  /\ ByteBits \in Nat \ {0} /\ UsizeBits \in Nat \ {0} /\ None \notin Nat
  /\ \A n \in 0 .. 8 * ByteBits :     \* i32::MAX fits in usize
       2 ^ n \in Nat /\ (n >= UsizeBits => MaxInt < 2 ^ n)
  /\ {"enc", "dec"} \cap Threads = {}
  /\ \A f \in Configs : f.cls \in Classes /\ f.fips \in BOOLEAN /\ f.key.len \in Nat

Builds == {"1.1.1", "3.0", "3.2", "3.5", "libressl", "boringssl"}
From300 == {"3.0", "3.2", "3.5"}
From320 == {"3.2", "3.5"}

VARIABLES
  obj,                  \* None, or what new returned: [cls, build, impl, key, tag_len] or an error
  keybuf,               \* the content of the key object that was passed to new
  ctxs,                 \* OpenSSL contexts: the base contexts and those of the calls
  calls                 \* of a thread: [pc, op, nonce, aad, data, fed, bufkey, out]

vars == << obj, keybuf, ctxs, calls >>

-----------------------------------------------------------------------------
(* OpenSSL, by what the code relies on                                     *)

\* A context: its key, and what it was told about the message so far
Context(key) == [key |-> key, nonce |-> None, tag |-> << >>, aad |-> << >>]

BlockOf(cls) == IF cls = "AESOCB3" THEN BlockSize ELSE 1

\* Bytes that an update writes when held bytes were kept back before
Written(held, n, bs) == ((held + n) \div bs) * bs

\* CCM writes the length of the message into the 15 - nonce.len bytes that the
\* nonce leaves of a block: the update with the data fails when it needs more
CcmLengthFits(o, nonce, n) ==
  o.cls = "AESCCM" => n < 2 ^ (ByteBits * (15 - nonce.len))

\* What is sealed, and the bytes it is sealed to
Message(key, nonce, aad, data) == [key |-> key, nonce |-> nonce, aad |-> aad, data |-> data]

Body(m) == [i \in 1 .. Len(m.data) |-> [kind |-> "body", of |-> m, pos |-> i]]
Tag(m, tag_len) == [i \in 1 .. tag_len |-> [kind |-> "tag", of |-> m, pos |-> i]]

\* The plaintexts that OpenSSL may recover from a body that is no ciphertext
\* of the key and nonce are arbitrary: they are represented by None
Authentic(c, body, tag_len) ==
  {m \in {b.of : b \in {body[i] : i \in DOMAIN body} \cup {c.tag[i] : i \in DOMAIN c.tag}} :
     /\ m = Message(c.key, c.nonce, c.aad, m.data)
     /\ body = Body(m) /\ c.tag = Tag(m, tag_len)}

-----------------------------------------------------------------------------
(* The classes: what new checks, and in which order                        *)

AESKeys == {16, 24, 32}

ChaCha20Poly1305_New(f) ==
  IF f.key.len # 32 THEN "ValueError"
  ELSE IF f.build = "boringssl" THEN "aead"
  ELSE IF f.fips THEN "UnsupportedAlgorithm"
  ELSE IF f.build \in {"libressl", "1.1.1"} \cup From320 THEN "evp" ELSE "lazy"

AesGcm_New(f) ==
  IF f.key.len \notin AESKeys THEN "ValueError"
  ELSE IF f.build \in {"libressl", "boringssl", "1.1.1"} \cup From320 THEN "evp" ELSE "lazy"

AesCcm_New(f) ==
  IF f.build = "boringssl" THEN "UnsupportedAlgorithm"
  ELSE IF f.key.len \notin AESKeys THEN "ValueError"
  ELSE IF f.tag_length # None /\ f.tag_length \notin CCMTagLengths THEN "ValueError" ELSE "lazy"

AesSiv_New(f) ==
  IF f.key.len \notin {32, 48, 64} THEN "ValueError"
  ELSE IF f.build \notin From300 \/ f.fips THEN "UnsupportedAlgorithm" ELSE "evp"

AesOcb3_New(f) ==
  IF f.build \in {"libressl", "boringssl"} \/ f.fips THEN "UnsupportedAlgorithm"
  ELSE IF f.key.len \notin AESKeys THEN "ValueError" ELSE "evp"

AesGcmSiv_New(f) ==
  IF f.key.len \notin AESKeys THEN "ValueError"
  ELSE IF f.build = "boringssl" THEN IF f.key.len = 24 THEN "UnsupportedAlgorithm" ELSE "aead"
  ELSE IF f.build \notin From320 \/ f.fips THEN "UnsupportedAlgorithm" ELSE "evp"

Impl(f) ==
  CASE f.cls = "ChaCha20Poly1305" -> ChaCha20Poly1305_New(f)
    [] f.cls = "AESGCM" -> AesGcm_New(f)
    [] f.cls = "AESCCM" -> AesCcm_New(f)
    [] f.cls = "AESSIV" -> AesSiv_New(f)
    [] f.cls = "AESOCB3" -> AesOcb3_New(f)
    [] f.cls = "AESGCMSIV" -> AesGcmSiv_New(f)

IsObject(o) == o # None /\ o.impl \in {"evp", "lazy", "aead"}

NewObject(f) ==
  [cls |-> f.cls, build |-> f.build, impl |-> Impl(f), key |-> f.key,
   tag_len |-> IF f.cls = "AESCCM" /\ f.tag_length # None THEN f.tag_length ELSE TagLength]

\* EvpCipherAead::new makes both base contexts with the key as it is now;
\* LazyEvpCipherAead::new keeps the key object itself
New(f) ==
  /\ obj = None
  /\ obj' = NewObject(f)
  /\ keybuf' = f.key
  /\ ctxs' = [c \in DOMAIN ctxs |-> IF c \in {"enc", "dec"} THEN Context(f.key) ELSE ctxs[c]]
  /\ UNCHANGED calls

\* The program overwrites the key object (a bytearray) that it passed to new
OverwriteKey ==
  /\ IsObject(obj)
  /\ \E k \in Overwritten(keybuf) : keybuf' = k
  /\ UNCHANGED << obj, ctxs, calls >>

-----------------------------------------------------------------------------
(* The classes: what encrypt and decrypt check first                       *)

check_length(n) == IF n > MaxInt THEN "OverflowError" ELSE "ok"

ChaCha20Poly1305_Check(r) == IF r.nonce.len # 12 THEN "ValueError" ELSE "ok"

AesGcm_Check(r) == IF r.nonce.len < 8 \/ r.nonce.len > 128 THEN "ValueError" ELSE "ok"

\* 1usize.checked_shl: None when the shift is as wide as the type
MaxLength(nonce) ==
  LET shift == ByteBits * (15 - nonce.len)
  IN  IF shift >= UsizeBits THEN None ELSE 2 ^ shift

LongerThan(n, max_length) == max_length # None /\ max_length < n

\* saturating_sub
SaturatingSub(a, b) == IF a < b THEN 0 ELSE a - b

AesCcm_Encrypt_Check(r) ==
  IF r.nonce.len < 7 \/ r.nonce.len > 13 THEN "ValueError"
  ELSE IF check_length(Len(r.data)) # "ok" THEN check_length(Len(r.data))
  ELSE IF LongerThan(Len(r.data), MaxLength(r.nonce)) THEN "ValueError" ELSE "ok"

AesCcm_Decrypt_Check_WithTag(o, r) ==   \* mutant
  IF r.nonce.len < 7 \/ r.nonce.len > 13 THEN "ValueError"
  ELSE IF LongerThan(Len(r.data), MaxLength(r.nonce)) THEN "ValueError" ELSE "ok"

AesCcm_Decrypt_Check(o, r) ==
  IF r.nonce.len < 7 \/ r.nonce.len > 13 THEN "ValueError"
  ELSE IF LongerThan(SaturatingSub(Len(r.data), o.tag_len), MaxLength(r.nonce))
       THEN "ValueError" ELSE "ok"

AesSiv_Check(o, r) ==
  IF r.op = "encrypt" /\ o.build # "3.5" /\ r.data = << >> THEN "ValueError" ELSE "ok"

AesOcb3_Check(r) == IF r.nonce.len < 12 \/ r.nonce.len > 15 THEN "ValueError" ELSE "ok"

AesGcmSiv_Check(o, r) ==
  IF r.op = "encrypt" /\ o.build \notin {"3.5", "boringssl"} /\ r.data = << >> THEN "ValueError"
  ELSE IF r.nonce.len # 12 THEN "ValueError" ELSE "ok"

ClassCheck(o, r) ==
  CASE o.cls = "ChaCha20Poly1305" -> ChaCha20Poly1305_Check(r)
    [] o.cls = "AESGCM" -> AesGcm_Check(r)
    [] o.cls = "AESCCM" /\ r.op = "encrypt" -> AesCcm_Encrypt_Check(r)
    [] o.cls = "AESCCM" /\ r.op = "decrypt" -> AesCcm_Decrypt_Check(o, r)
    [] o.cls = "AESSIV" -> AesSiv_Check(o, r)
    [] o.cls = "AESOCB3" -> AesOcb3_Check(r)
    [] o.cls = "AESGCMSIV" -> AesGcmSiv_Check(o, r)

-----------------------------------------------------------------------------
(* The checks that the implementations share                               *)

\* Only plaintexts have their length checked, by all three implementations
EncryptCheck(o, r) == check_length(Len(r.data))

DecryptCheck(o, r) == IF Len(r.data) < o.tag_len THEN "InvalidTag" ELSE "ok"

Check(o, r) ==
  IF ClassCheck(o, r) # "ok" THEN ClassCheck(o, r)
  ELSE IF r.op = "encrypt" THEN EncryptCheck(o, r) ELSE DecryptCheck(o, r)

\* RFC 5297 puts the tag in front, all others put it behind
TagFirst(o) == o.cls = "AESSIV"

SplitTag(o, data) ==
  IF TagFirst(o) THEN SubSeq(data, 1, o.tag_len)
  ELSE SubSeq(data, Len(data) - o.tag_len + 1, Len(data))

SplitBody(o, data) ==
  IF TagFirst(o) THEN SubSeq(data, o.tag_len + 1, Len(data))
  ELSE SubSeq(data, 1, Len(data) - o.tag_len)

Joined(o, body, tag) == IF TagFirst(o) THEN tag \o body ELSE body \o tag

\* The context of a call: a copy of a base context, or a context that is made
\* for the call with the key that the key object holds now
ContextOf_Shared(o, t, op) ==   \* mutant
  IF o.impl # "evp" THEN t ELSE IF op = "encrypt" THEN "enc" ELSE "dec"

ContextOf(o, t, op) == t

FreshContext(o, op) ==
  IF o.impl = "lazy" THEN Context(keybuf) ELSE ctxs[IF op = "encrypt" THEN "enc" ELSE "dec"]

\* encrypt_init and decrypt_init with a nonce start a message
Initialised(o, c, r) ==
  [c EXCEPT !.nonce = r.nonce,
            !.aad = IF r.nonce = None THEN @ ELSE << >>,
            !.tag = IF r.op = "decrypt" THEN SplitTag(o, r.data) ELSE @]

Idle == [pc |-> "idle", op |-> None, nonce |-> None, aad |-> << >>, data |-> << >>,
         fed |-> 0, bufkey |-> None, out |-> None]

Failed(kind) == [kind |-> kind, bytes |-> << >>]
Ok(bytes) == [kind |-> "ok", bytes |-> bytes]

\* Data and lists of associated data are finite, and None is no result
ASSUME RequestAssumption ==
  /\ None # Failed("panic")
  /\ \A f \in Configs, t \in Threads :
       IsObject(NewObject(f)) =>
         \A r \in Requests(t, NewObject(f)) :
           /\ r.op \in {"encrypt", "decrypt"}
           /\ r.data \in Seq({r.data[i] : i \in DOMAIN r.data})
           /\ r.aad \in Seq({r.aad[i] : i \in DOMAIN r.aad})
           /\ \A i \in DOMAIN r.aad : r.aad[i].len \in Nat
           /\ f.cls = "AESCCM" => r.nonce.len \in Nat

Called(r, pc, out) ==
  [pc |-> pc, op |-> r.op, nonce |-> r.nonce, aad |-> r.aad, data |-> r.data,
   fed |-> 0, bufkey |-> keybuf, out |-> out]

StartCall(t, r) ==
  /\ IsObject(obj) /\ calls[t].pc = "idle" /\ r \in Requests(t, obj)
  /\ IF Check(obj, r) # "ok"
     THEN /\ calls' = [calls EXCEPT ![t] = Called(r, "done", Failed(Check(obj, r)))]
          /\ UNCHANGED ctxs
     ELSE /\ calls' = [calls EXCEPT ![t] = Called(r, "aad", None)]
          /\ ctxs' = [ctxs EXCEPT ![ContextOf(obj, t, r.op)] =
                         Initialised(obj, FreshContext(obj, r.op), r)]
  /\ UNCHANGED << obj, keybuf >>

Return(t, out) == calls' = [calls EXCEPT ![t].pc = "done", ![t].out = out]

\* process_aad: the next piece is taken out of the list, which may fail, its
\* length is checked, and it is fed to OpenSSL
process_aad(t, piece) ==
  LET c == ContextOf(obj, t, calls[t].op)
  IN  \/ /\ ~piece.buffer /\ Return(t, Failed("TypeError")) /\ UNCHANGED ctxs
      \/ /\ piece.buffer /\ check_length(piece.len) # "ok"
         /\ Return(t, Failed(check_length(piece.len))) /\ UNCHANGED ctxs
      \/ /\ piece.buffer /\ check_length(piece.len) = "ok"
         /\ ctxs' = [ctxs EXCEPT ![c].aad = Append(@, piece)]
         /\ calls' = [calls EXCEPT ![t].fed = @ + 1]

ProcessAAD(t) ==
  /\ calls[t].pc = "aad" /\ calls[t].fed < Len(calls[t].aad)
  /\ process_aad(t, calls[t].aad[calls[t].fed + 1])
  /\ UNCHANGED << obj, keybuf >>

\* process_data.  A streaming cipher writes all; of a block cipher, the full
\* blocks are fed first, then the rest, which is held back up to cipher_final.
\* The lengths OpenSSL returns are asserted.

Initial(n, bs) == (n \div bs) * bs

AssertsHold(n, bs) ==
  LET initial == Initial(n, bs)
      trailer == n - initial
  IN  /\ Written(0, initial, bs) = initial
      /\ bs > 1 => Written(initial % bs, trailer, bs) = 0

\* CCM checks the tag in the update, the others in cipher_final
FinalCalled_NotStreaming(bs, is_ccm) ==   \* mutant
  bs > 1

FinalCalled(bs, is_ccm) == bs > 1 \/ ~is_ccm

Opened(o, c, body) ==
  LET is_ccm == o.cls = "AESCCM"
      genuine == Authentic(c, body, o.tag_len)
  IN  IF genuine # {} THEN Ok((CHOOSE m \in genuine : TRUE).data)
      ELSE IF is_ccm \/ FinalCalled(BlockOf(o.cls), is_ccm) \/ o.impl = "aead"
      THEN Failed("InvalidTag") ELSE Ok(<< None >>)

Sealed(o, m) == Joined(o, Body(m), Tag(m, o.tag_len))

\* Every error of process_data is turned into InvalidTag when decrypting, and
\* comes out as InternalError when encrypting, a failing assertion is neither.
\* A CCM update that fails leaves no length to be asserted.  Before 3.5, SIV and GCM-SIV fail on empty data.
ProcessData(t) ==
  LET call == calls[t]
      c == ctxs[ContextOf(obj, t, call.op)]
      body == IF call.op = "encrypt" THEN call.data ELSE SplitBody(obj, call.data)
      fits == CcmLengthFits(obj, c.nonce, Len(body))
      fine == fits /\ AssertsHold(Len(body), BlockOf(obj.cls))
      m == Message(c.key, c.nonce, c.aad, call.data)
  IN  /\ call.pc = "aad" /\ call.fed = Len(call.aad)
      /\ \/ ~fits /\ call.op = "encrypt" /\ Return(t, Failed("InternalError"))
         \/ ~fits /\ call.op = "decrypt" /\ Return(t, Failed("InvalidTag"))
         \/ fits /\ ~fine /\ Return(t, Failed("panic"))
         \/ fine /\ call.op = "encrypt" /\ Return(t, Ok(Sealed(obj, m)))
         \/ fine /\ call.op = "decrypt" /\ Return(t, Opened(obj, c, body))
         \/ /\ call.op = "decrypt" /\ body = << >>
            /\ obj.cls \in {"AESSIV", "AESGCMSIV"} /\ obj.build \notin {"3.5", "boringssl"}
            /\ Return(t, Failed("InvalidTag"))
      /\ UNCHANGED << obj, keybuf, ctxs >>

-----------------------------------------------------------------------------
Init ==
  /\ obj = None
  /\ keybuf = None
  /\ ctxs = [c \in Threads \cup {"enc", "dec"} |-> Context(None)]
  /\ calls = [t \in Threads |-> Idle]

Next ==
  \/ \E f \in Configs : New(f)
  \/ OverwriteKey
  \/ \E t \in Threads :
       \/ IsObject(obj) /\ \E r \in Requests(t, obj) : StartCall(t, r)
       \/ ProcessAAD(t)
       \/ ProcessData(t)

Spec == Init /\ [][Next]_vars

-----------------------------------------------------------------------------
(* Properties                                                              *)

\* The key that a call has to use: of a lazy object, what the key object held
\* when the call began; of the others, the key that new was given
KeyOf(call) == IF obj.impl = "lazy" THEN call.bufkey ELSE obj.key

Done(op) == {t \in Threads : calls[t].pc = "done" /\ calls[t].op = op}

\* What encrypt returns is the sealing of the caller's own nonce, associated
\* data and plaintext under the object's key, whatever other threads do with
\* the same object meanwhile, and the length of the plaintext is within the
\* limit (EvpCipherAead::encrypt_with_context on a copied context)
SealsItsOwn ==
  \A t \in Done("encrypt") : calls[t].out.kind = "ok" =>
    /\ calls[t].out.bytes =
         Sealed(obj, Message(KeyOf(calls[t]), calls[t].nonce, calls[t].aad, calls[t].data))
    /\ Len(calls[t].data) <= MaxInt

\* decrypt returns nothing but the plaintext of a message that was sealed with
\* the same key, nonce, associated data and tag length
\* (EvpCipherAead::decrypt_with_context and process_data)
OpensOnlyGenuine ==
  \A t \in Done("decrypt") : calls[t].out.kind = "ok" =>
    calls[t].data =
      Sealed(obj, Message(KeyOf(calls[t]), calls[t].nonce, calls[t].aad, calls[t].out.bytes))

\* What encrypt would return, the checks and OpenSSL letting it pass, decrypt
\* accepts: the limits that the two methods of a class set before OpenSSL is
\* called keep out no ciphertext, at the boundaries too
DecryptsWhatItSeals ==
  \A t \in Done("decrypt") :
    LET call == calls[t]
        m == Message(KeyOf(call), call.nonce, call.aad, SplitBody(obj, call.data))
        plain == [i \in 1 .. Len(m.data) |-> m.data[i].of.data[i]]
        r == [op |-> "encrypt", nonce |-> call.nonce, aad |-> call.aad, data |-> plain]
    IN  /\ Len(call.data) >= obj.tag_len
        /\ \A i \in DOMAIN m.data : m.data[i].kind = "body" /\ i \in DOMAIN m.data[i].of.data
        /\ call.data = Sealed(obj, [m EXCEPT !.data = plain])
        /\ \A i \in DOMAIN call.aad : call.aad[i].buffer /\ call.aad[i].len <= MaxInt
        /\ Check(obj, r) = "ok" /\ CcmLengthFits(obj, call.nonce, Len(plain))
        => call.out = Ok(plain)

\* No assertion about the lengths OpenSSL returns fails, block by block
NoPanic == \A t \in Threads : calls[t].out # Failed("panic")

\* The limits of encrypt are those of OpenSSL, but for one length: max_length,
\* 2^(8 (15 - nonce.len)), passes `max_length < data.len()` although it is the
\* first that CCM refuses (AesCcm::encrypt), and no other call fails that way
RefusedOnlyAtMaxLength ==
  \A t \in Done("encrypt") : calls[t].out = Failed("InternalError") =>
    obj.cls = "AESCCM" /\ Len(calls[t].data) = MaxLength(calls[t].nonce)

\* How the limits of encrypt, of decrypt and of OpenSSL fit each other
BoundariesFit == DecryptsWhatItSeals /\ RefusedOnlyAtMaxLength /\ NoPanic
=============================================================================
