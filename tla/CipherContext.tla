--------------------------- MODULE CipherContext ---------------------------
(***************************************************************************)
(* The contexts Cipher.encryptor and Cipher.decryptor return               *)
(* (backend/ciphers.rs, primitives/ciphers/base.py and modes.py): one      *)
(* object, whose methods are called in any order, around an EVP cipher     *)
(* context of OpenSSL.                                                     *)
(*                                                                         *)
(* Data is represented by its length.  A method runs under the GIL with a  *)
(* mutable borrow of the object, so that no other method runs in between;  *)
(* an update is several steps because it feeds OpenSSL in chunks, any of   *)
(* which may fail.                                                         *)
(***************************************************************************)
EXTENDS Integers

CONSTANTS
  Configs,              \* the contexts: [mode, side, tag, min_tag_length]
  BlockSize,            \* of the block cipher, in bytes
  ChunkSize,            \* 1 << 29
  MaxEncryptedBytes,    \* GCM._MAX_ENCRYPTED_BYTES
  MaxAADBytes,          \* GCM._MAX_AAD_BYTES
  Sealed,               \* the message the right tag belongs to: [aad, data]
  Tags,                 \* the tags a caller may have: [len, right]
  Lengths,              \* the lengths of the data a caller passes
  DataBound             \* bound: bytes fed to a context without a byte limit

ASSUME SizeAssumption ==
  /\ BlockSize \in Nat \ {0}
  /\ ChunkSize \in Nat \ {0}
  /\ MaxEncryptedBytes \in Nat /\ MaxAADBytes \in Nat /\ DataBound \in Nat
  /\ Lengths \subseteq Nat

ASSUME ConfigAssumption ==
  \A c \in Configs : c.side \in {"encrypt", "decrypt"} /\ c.tag \subseteq Tags

VARIABLES
  conf,                 \* py_mode and side
  ctx,                  \* "Some" or "None"
  evp,                  \* what OpenSSL was given: [aad, data, tag, failed].  The tag
                        \* an encryption leaves exists exactly when ctx is None
  updated,
  bytes_remaining,
  aad_bytes_remaining,
  call,                 \* update_into in progress: [rest, written, room]
  out,                  \* bytes the caller has been given for this nonce
  lost,                 \* bytes OpenSSL processed in a call that then failed
  last                  \* the last call: [op, result]

vars == << conf, ctx, evp, updated, bytes_remaining, aad_bytes_remaining, call, out, lost, last >>

Idle == [rest |-> 0, written |-> 0, room |-> 0]

-----------------------------------------------------------------------------
(* Modes                                                                   *)

\* ModeWithAuthenticationTag
IsAEAD(c) == c.mode = "GCM"

\* What reset_nonce supports
Resettable(c) == c.mode \in {"CTR", "ChaCha20"}

\* The contexts that GCM.__init__, validate_for_algorithm and encryptor let a
\* caller make.  A tag is given at most once: in the mode (a set of at most one
\* tag) or to finalize_with_tag.
Makeable(c) ==
  \A t \in c.tag :
    /\ IsAEAD(c) /\ c.side = "decrypt"
    /\ c.min_tag_length >= 4
    /\ t.len >= c.min_tag_length /\ t.len <= 16

\* EVP_CIPHER_CTX_block_size: 1 for the modes that make a stream cipher
EvpBlockSize(c) == IF c.mode = "CBC" THEN BlockSize ELSE 1

\* EVP_CipherUpdate: what it writes for n bytes (a block cipher keeps an
\* incomplete block back), and when it fails: XTS takes whole units only, and
\* after a tag was found wrong the context may refuse to go on
KeptBack == evp.data % EvpBlockSize(conf)
EvpWrites(n) == ((KeptBack + n) \div EvpBlockSize(conf)) * EvpBlockSize(conf)
EvpMayFail(n) == (conf.mode = "XTS" /\ n < BlockSize) \/ evp.failed
EvpMaySucceed(n) == ~(conf.mode = "XTS" /\ n < BlockSize)

\* EVP_CipherFinal: a block cipher without padding needs whole blocks, and a
\* decryption with a tag succeeds only if the tag belongs to what was fed
EvpFinalMaySucceed(t) ==
  /\ KeptBack = 0
  /\ IsAEAD(conf) /\ conf.side = "decrypt" =>
       /\ \A u \in t : u.right
       /\ t # {} /\ [aad |-> evp.aad, data |-> evp.data] = Sealed

EvpFinalMayFail(t) == ~EvpFinalMaySucceed(t) \/ evp.failed

-----------------------------------------------------------------------------
(* The methods                                                             *)

\* CipherContext::new: an EVP context that was given key and nonce only
NewEvp == [aad |-> 0, data |-> 0, tag |-> {}, failed |-> FALSE]

\* create_encryption_ctx, create_decryption_ctx
Init ==
  /\ conf \in {c \in Configs : Makeable(c)}
  /\ ctx = "Some"
  /\ evp = [NewEvp EXCEPT !.tag = conf.tag]
  /\ updated = FALSE
  /\ bytes_remaining = MaxEncryptedBytes
  /\ aad_bytes_remaining = MaxAADBytes
  /\ call = Idle
  /\ out = 0 /\ lost = 0
  /\ last = [op |-> "new", result |-> "ok"]

\* A method is called: no other is running
Calls(op, result) == last.result # "running" /\ last' = [op |-> op, result |-> result]

\* PyAEAD...Context::update: the call counts, and is charged for, whether or not
\* anything below it fails

Exceeds(n, remaining) == n > remaining   \* checked_sub returns None

Charged_Nothing(n) == bytes_remaining   \* mutant: the difference is not stored

Charged(n) == bytes_remaining - n

\* CipherContext::update_into
RoomNeeded_DataOnly(n) == n   \* mutant

RoomNeeded(n) == n + EvpBlockSize(conf) - 1

BeginUpdate(op, n, room) ==
  \/ /\ ctx = "None"
     /\ Calls(op, "AlreadyFinalized")
     /\ UNCHANGED call
  \/ /\ ctx = "Some"
     /\ room < RoomNeeded(n)
     /\ Calls(op, "ValueError")
     /\ UNCHANGED call
  \/ /\ ctx = "Some"
     /\ room >= RoomNeeded(n)
     /\ Calls(op, "running")
     /\ call' = [rest |-> n, written |-> 0, room |-> room]

StartUpdate(op, n, room) ==
  /\ \/ /\ IsAEAD(conf) /\ Exceeds(n, bytes_remaining)
        /\ updated' = TRUE
        /\ Calls(op, "ValueError")
        /\ UNCHANGED << bytes_remaining, call >>
     \/ /\ IsAEAD(conf) /\ ~Exceeds(n, bytes_remaining)
        /\ updated' = TRUE
        /\ bytes_remaining' = Charged(n)
        /\ BeginUpdate(op, n, room)
     \/ /\ ~IsAEAD(conf) /\ evp.data + n <= DataBound
        /\ BeginUpdate(op, n, room)
        /\ UNCHANGED << updated, bytes_remaining >>
  /\ UNCHANGED << conf, ctx, evp, aad_bytes_remaining, out, lost >>

\* update allocates a buffer that is larger by one byte than it has to be
Update(n) == StartUpdate("update", n, n + EvpBlockSize(conf))
UpdateInto(n, room) == StartUpdate("update_into", n, room)

\* One chunk of the data, or the end of them
Chunk == IF call.rest < ChunkSize THEN call.rest ELSE ChunkSize

TotalWritten_Last(n) == EvpWrites(n)   \* mutant: = for +=

TotalWritten(n) == call.written + EvpWrites(n)

UpdateChunk ==
  /\ last.result = "running"
  /\ call.rest > 0
  /\ \/ /\ EvpMaySucceed(Chunk)
        /\ call' = [call EXCEPT !.rest = @ - Chunk, !.written = TotalWritten(Chunk)]
        /\ evp' = [evp EXCEPT !.data = @ + Chunk]
        /\ UNCHANGED << lost, last >>
     \/ /\ EvpMayFail(Chunk)
        /\ call' = Idle
        /\ lost' = lost + call.written
        /\ last' = [last EXCEPT !.result = IF conf.mode = "XTS" THEN "ValueError" ELSE "Error"]
        /\ UNCHANGED evp
  /\ UNCHANGED << conf, ctx, updated, bytes_remaining, aad_bytes_remaining, out >>

UpdateReturns ==
  /\ last.result = "running"
  /\ call.rest = 0
  /\ call' = Idle
  /\ out' = out + call.written
  /\ last' = [last EXCEPT !.result = "ok"]
  /\ UNCHANGED << conf, ctx, evp, updated, bytes_remaining, aad_bytes_remaining, lost >>

\* authenticate_additional_data
AADAllowed_Always == TRUE   \* mutant

AADAllowed == ~updated

AuthenticateAdditionalData(n) ==
  /\ IsAEAD(conf)
  /\ \/ /\ ctx = "None"
        /\ Calls("aad", "AlreadyFinalized")
        /\ UNCHANGED << evp, aad_bytes_remaining >>
     \/ /\ ctx = "Some" /\ ~AADAllowed
        /\ Calls("aad", "AlreadyUpdated")
        /\ UNCHANGED << evp, aad_bytes_remaining >>
     \/ /\ ctx = "Some" /\ AADAllowed /\ Exceeds(n, aad_bytes_remaining)
        /\ Calls("aad", "ValueError")
        /\ UNCHANGED << evp, aad_bytes_remaining >>
     \/ /\ ctx = "Some" /\ AADAllowed /\ ~Exceeds(n, aad_bytes_remaining)
        /\ aad_bytes_remaining' = aad_bytes_remaining - n
        /\ \/ evp' = [evp EXCEPT !.aad = @ + n] /\ Calls("aad", "ok")
           \/ evp.failed /\ UNCHANGED evp /\ Calls("aad", "Error")
  /\ UNCHANGED << conf, ctx, updated, bytes_remaining, call, out, lost >>

\* CipherContext::finalize with the tag t: only a success takes the context away
CipherFinal(op, t) ==
  \/ /\ EvpFinalMaySucceed(t)
     /\ Calls(op, "ok")
     /\ ctx' = "None"
     /\ evp' = [evp EXCEPT !.tag = t]
  \/ /\ EvpFinalMayFail(t)
     /\ \/ IsAEAD(conf) /\ Calls(op, "InvalidTag")
        \/ (~IsAEAD(conf) \/ evp.failed) /\ Calls(op, "ValueError")
     /\ evp' = [evp EXCEPT !.tag = t, !.failed = IsAEAD(conf)]
     /\ UNCHANGED ctx

Finalize ==
  /\ \/ /\ ctx = "None"
        /\ Calls("finalize", "AlreadyFinalized")
        /\ UNCHANGED << ctx, evp >>
     \/ /\ ctx = "Some"
        /\ IsAEAD(conf) /\ conf.side = "decrypt" /\ conf.tag = {}
        /\ Calls("finalize", "ValueError")
        /\ UNCHANGED << ctx, evp >>
     \/ /\ ctx = "Some"
        /\ ~(IsAEAD(conf) /\ conf.side = "decrypt" /\ conf.tag = {})
        /\ CipherFinal("finalize", evp.tag)
  /\ UNCHANGED << conf, updated, bytes_remaining, aad_bytes_remaining, call, out, lost >>

TagFits_AnyLength(t) == t.len <= 16   \* mutant

TagFits(t) == t.len >= conf.min_tag_length /\ t.len <= 16

FinalizeWithTag(t) ==
  /\ IsAEAD(conf) /\ conf.side = "decrypt"
  /\ \/ /\ ctx = "None"
        /\ Calls("finalize_with_tag", "AlreadyFinalized")
        /\ UNCHANGED << ctx, evp >>
     \/ /\ ctx = "Some" /\ (conf.tag # {} \/ ~TagFits(t))
        /\ Calls("finalize_with_tag", "ValueError")
        /\ UNCHANGED << ctx, evp >>
     \/ /\ ctx = "Some" /\ conf.tag = {} /\ TagFits(t)
        /\ CipherFinal("finalize_with_tag", {t})
  /\ UNCHANGED << conf, updated, bytes_remaining, aad_bytes_remaining, call, out, lost >>

\* reset_nonce, with a nonce of the right length or not.  The limits and updated
\* stay as they are: no context that has them can be reset.
ResetNonce(fits) ==
  /\ \/ /\ ctx = "None"
        /\ Calls("reset_nonce", "AlreadyFinalized")
        /\ UNCHANGED << evp, out, lost >>
     \/ /\ ctx = "Some" /\ ~Resettable(conf)
        /\ Calls("reset_nonce", "UnsupportedAlgorithm")
        /\ UNCHANGED << evp, out, lost >>
     \/ /\ ctx = "Some" /\ Resettable(conf) /\ ~fits
        /\ Calls("reset_nonce", "ValueError")
        /\ UNCHANGED << evp, out, lost >>
     \/ /\ ctx = "Some" /\ Resettable(conf) /\ fits
        /\ Calls("reset_nonce", "ok")
        /\ evp' = [evp EXCEPT !.data = 0]
        /\ out' = 0 /\ lost' = 0
  /\ UNCHANGED << conf, ctx, updated, bytes_remaining, aad_bytes_remaining, call >>

\* _advance and _advance_aad, which the tests use to get near the limits: the
\* build checks for overflow and panics
Advance(n) ==
  /\ IsAEAD(conf)
  /\ \/ /\ n <= bytes_remaining
        /\ bytes_remaining' = bytes_remaining - n
        /\ Calls("_advance", "ok")
     \/ n > bytes_remaining /\ UNCHANGED bytes_remaining /\ Calls("_advance", "panic")
  /\ UNCHANGED << conf, ctx, evp, updated, aad_bytes_remaining, call, out, lost >>

AdvanceAAD(n) ==
  /\ IsAEAD(conf)
  /\ \/ /\ n <= aad_bytes_remaining
        /\ aad_bytes_remaining' = aad_bytes_remaining - n
        /\ Calls("_advance_aad", "ok")
     \/ n > aad_bytes_remaining /\ UNCHANGED aad_bytes_remaining /\ Calls("_advance_aad", "panic")
  /\ UNCHANGED << conf, ctx, evp, updated, bytes_remaining, call, out, lost >>

Next ==
  \/ \E n \in Lengths : Update(n) \/ AuthenticateAdditionalData(n) \/ Advance(n) \/ AdvanceAAD(n)
  \/ \E n \in Lengths, room \in 0 .. DataBound : UpdateInto(n, room)
  \/ UpdateChunk \/ UpdateReturns
  \/ Finalize
  \/ \E t \in Tags : FinalizeWithTag(t)
  \/ \E fits \in BOOLEAN : ResetNonce(fits)

Spec == Init /\ [][Next]_vars

-----------------------------------------------------------------------------
(* Properties                                                              *)

Ops == {"new", "update", "update_into", "aad", "finalize", "finalize_with_tag", "reset_nonce",
        "_advance", "_advance_aad"}

Results == {"ok", "running", "AlreadyFinalized", "AlreadyUpdated", "ValueError", "InvalidTag",
            "UnsupportedAlgorithm", "Error", "panic"}

\* The type invariant: the two byte limits never wrap
TypeOK ==
  /\ conf \in Configs
  /\ ctx \in {"Some", "None"}
  /\ evp \in [aad : Nat, data : Nat, tag : SUBSET Tags, failed : BOOLEAN]
  /\ updated \in BOOLEAN
  /\ bytes_remaining \in 0 .. MaxEncryptedBytes
  /\ aad_bytes_remaining \in 0 .. MaxAADBytes
  /\ call \in [rest : Nat, written : Nat, room : Nat]
  /\ out \in Nat /\ lost \in Nat
  /\ last \in [op : Ops, result : Results]
  /\ last.result # "running" => call = Idle

\* The limits on the bytes under one nonce hold over every sequence of calls,
\* failing ones included: what is left of a limit is never more than the limit
\* less what OpenSSL has processed and the update in progress will still feed it
WithinLimits ==
  IsAEAD(conf) =>
    /\ evp.data + call.rest + bytes_remaining <= MaxEncryptedBytes
    /\ evp.aad + aad_bytes_remaining <= MaxAADBytes

\* "SAFETY: We ensure that outbuf is sufficiently large above": no chunk is
\* written past the end of the caller's buffer, whatever part of a block
\* earlier calls left behind
NoOverrun == call.written <= call.room

\* OpenSSL is never given additional data once it was given data
AADFirst == [][evp'.aad # evp.aad => evp.data = 0 /\ ~updated]_vars

\* A context that was finalized has given the caller every byte it was fed,
\* unless an update failed part of the way
MessageComplete == ctx = "None" /\ lost = 0 => out = evp.data

\* A decryption succeeds only with the right tag, of the length the caller asked
\* for, and for the whole of the message the tag belongs to
Authentic ==
  ctx = "None" /\ IsAEAD(conf) /\ conf.side = "decrypt" =>
    /\ \E t \in evp.tag : t.right /\ t.len >= conf.min_tag_length
    /\ [aad |-> evp.aad, data |-> out + lost] = Sealed
=============================================================================
