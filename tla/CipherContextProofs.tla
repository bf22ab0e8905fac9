------------------------- MODULE CipherContextProofs -------------------------
(***************************************************************************)
(* Proofs about the cipher contexts of module CipherContext, for every     *)
(* block size, chunk size, limit and data length; and about the padding    *)
(* contexts of module Padding, for every block size and any data in any    *)
(* pieces.                                                                 *)
(***************************************************************************)
EXTENDS CipherContext, Padding, SequenceTheorems, TLAPS

\* Additional data is only accepted while OpenSSL has no data, and none is on
\* its way
NoDataYet == IsAEAD(conf) /\ ~updated => evp.data = 0 /\ call.rest = 0

ContextInv == TypeOK /\ WithinLimits /\ NoDataYet

LEMMA BlockPositive == ASSUME NEW c PROVE EvpBlockSize(c) \in Nat \ {0}
BY SizeAssumption DEF EvpBlockSize

LEMMA WritesNat ==
  ASSUME evp.data \in Nat, NEW n \in Nat
  PROVE  EvpWrites(n) \in Nat
<1> DEFINE b == EvpBlockSize(conf)
<1>1. b \in Nat \ {0}
  BY BlockPositive
<1>2. KeptBack \in Nat
  BY <1>1 DEF KeptBack
<1> DEFINE q == (KeptBack + n) \div b
<1>3. q \in Nat
  BY <1>1, <1>2
<1> HIDE DEF q, b
<1>4. q * b \in Nat
  BY <1>1, <1>3
<1>5. QED
  BY <1>4 DEF EvpWrites, q, b

LEMMA ChunkType ==
  ASSUME call.rest \in Nat
  PROVE  Chunk \in Nat /\ Chunk <= call.rest
BY SizeAssumption DEF Chunk

LEMMA ContextInit == Init => ContextInv
<1> SUFFICES ASSUME Init PROVE ContextInv
  OBVIOUS
<1>1. conf \in Configs /\ conf.tag \subseteq Tags
  BY ConfigAssumption DEF Init
<1>2. TypeOK
  <2>1. evp \in [aad : Nat, data : Nat, tag : SUBSET Tags, failed : BOOLEAN]
    BY <1>1 DEF Init, NewEvp
  <2>2. call \in [rest : Nat, written : Nat, room : Nat]
    BY DEF Init, Idle
  <2>3. last \in [op : Ops, result : Results]
    BY DEF Init, Ops, Results
  <2>4. /\ bytes_remaining \in 0 .. MaxEncryptedBytes
        /\ aad_bytes_remaining \in 0 .. MaxAADBytes
        /\ out \in Nat /\ lost \in Nat
    BY SizeAssumption DEF Init
  <2>5. call = Idle /\ ctx \in {"Some", "None"} /\ updated \in BOOLEAN
    BY DEF Init
  <2>6. QED
    BY <1>1, <2>1, <2>2, <2>3, <2>4, <2>5 DEF TypeOK
<1>3. WithinLimits /\ NoDataYet
  BY SizeAssumption DEF Init, NewEvp, WithinLimits, NoDataYet, Idle
<1>4. QED
  BY <1>2, <1>3 DEF ContextInv

LEMMA BeginUpdateInv ==
  ASSUME ContextInv, NEW op \in Ops, NEW n \in Nat, NEW room \in Nat, BeginUpdate(op, n, room)
  PROVE  /\ call' \in [rest : Nat, written : Nat, room : Nat]
         /\ last' \in [op : Ops, result : Results]
         /\ last'.result # "running" => call' = Idle
         /\ call'.rest = 0 \/ call'.rest = n
         /\ call = Idle
BY DEF ContextInv, TypeOK, BeginUpdate, Calls, Results, Idle

LEMMA StartUpdateInv ==
  ASSUME ContextInv, NEW op \in Ops, NEW n \in Nat, NEW room \in Nat, StartUpdate(op, n, room)
  PROVE  ContextInv'
<1> USE DEF ContextInv
<1>1. CASE IsAEAD(conf) /\ Exceeds(n, bytes_remaining)
  BY <1>1 DEF StartUpdate, TypeOK, WithinLimits, NoDataYet, Calls, Results
<1>2. CASE IsAEAD(conf) /\ ~Exceeds(n, bytes_remaining)
  <2>1. /\ updated' = TRUE /\ bytes_remaining' = bytes_remaining - n
        /\ bytes_remaining' \in 0 .. MaxEncryptedBytes
        /\ BeginUpdate(op, n, room)
        /\ UNCHANGED << conf, ctx, evp, aad_bytes_remaining, out, lost >>
    BY <1>2, SizeAssumption DEF StartUpdate, Charged, Exceeds, TypeOK
  <2>2. TypeOK'
    BY <2>1, BeginUpdateInv DEF TypeOK
  <2>3. WithinLimits'
    <3>1. call.rest = 0
      BY <2>1, BeginUpdateInv DEF Idle
    <3>2. call'.rest = 0 \/ call'.rest = n
      BY <2>1, BeginUpdateInv
    <3>3. QED
      BY <2>1, <3>1, <3>2, SizeAssumption DEF WithinLimits, TypeOK
  <2>4. QED
    BY <2>1, <2>2, <2>3 DEF NoDataYet
<1>3. CASE ~IsAEAD(conf)
  <2>1. BeginUpdate(op, n, room)
        /\ UNCHANGED << conf, ctx, evp, updated, bytes_remaining, aad_bytes_remaining, out, lost >>
    BY <1>3 DEF StartUpdate
  <2>2. TypeOK'
    BY <2>1, BeginUpdateInv DEF TypeOK
  <2>3. QED
    BY <1>3, <2>1, <2>2 DEF WithinLimits, NoDataYet
<1>4. QED
  BY <1>1, <1>2, <1>3

LEMMA UpdateChunkInv == ContextInv /\ UpdateChunk => ContextInv'
<1> SUFFICES ASSUME ContextInv, UpdateChunk PROVE ContextInv'
  OBVIOUS
<1> USE DEF ContextInv
<1>1. Chunk \in Nat /\ Chunk <= call.rest /\ call.rest \in Nat
  BY ChunkType DEF TypeOK
<1>2. UNCHANGED << conf, ctx, updated, bytes_remaining, aad_bytes_remaining, out >>
  BY DEF UpdateChunk
<1>3. CASE /\ call' = [call EXCEPT !.rest = @ - Chunk, !.written = TotalWritten(Chunk)]
           /\ evp' = [evp EXCEPT !.data = @ + Chunk]
           /\ UNCHANGED << lost, last >> /\ last.result = "running" /\ call.rest > 0
  <2>1. TotalWritten(Chunk) \in Nat
    BY <1>1, WritesNat DEF TotalWritten, TypeOK
  <2>2. call' \in [rest : Nat, written : Nat, room : Nat] /\ call'.rest = call.rest - Chunk
    <3> DEFINE w == TotalWritten(Chunk)
               r == call.rest - Chunk
    <3>1. w \in Nat /\ r \in Nat /\ call' = [[call EXCEPT !.rest = r] EXCEPT !.written = w]
      BY <1>1, <1>3, <2>1 DEF TypeOK
    <3> HIDE DEF w, r
    <3>2. QED
      BY <3>1 DEF TypeOK, r
  <2>3. /\ evp' \in [aad : Nat, data : Nat, tag : SUBSET Tags, failed : BOOLEAN]
        /\ evp'.data = evp.data + Chunk /\ evp'.aad = evp.aad
    BY <1>1, <1>3 DEF TypeOK
  <2>4. TypeOK'
    BY <1>2, <1>3, <2>2, <2>3 DEF TypeOK
  <2>5. WithinLimits'
    BY <1>1, <1>2, <2>2, <2>3, SizeAssumption DEF WithinLimits, TypeOK
  <2>6. NoDataYet'
    BY <1>1, <1>2, <1>3 DEF NoDataYet
  <2>7. QED
    BY <2>4, <2>5, <2>6
<1>4. CASE /\ call' = Idle /\ lost' = lost + call.written
           /\ last' = [last EXCEPT !.result = IF conf.mode = "XTS" THEN "ValueError" ELSE "Error"]
           /\ evp' = evp
  <2>1. last' \in [op : Ops, result : Results]
    BY <1>4 DEF TypeOK, Results
  <2>2. TypeOK'
    BY <1>2, <1>4, <2>1 DEF TypeOK, Idle
  <2>3. QED
    BY <1>2, <1>4, <2>2, SizeAssumption DEF WithinLimits, NoDataYet, Idle, TypeOK
<1>5. QED
  BY <1>3, <1>4 DEF UpdateChunk

LEMMA UpdateReturnsInv == ContextInv /\ UpdateReturns => ContextInv'
<1> SUFFICES ASSUME ContextInv, UpdateReturns PROVE ContextInv'
  OBVIOUS
<1> USE DEF ContextInv
<1>1. /\ UNCHANGED << conf, ctx, evp, updated, bytes_remaining, aad_bytes_remaining, lost >>
      /\ call' = Idle /\ out' = out + call.written /\ call.rest = 0
  BY DEF UpdateReturns
<1>2. last' \in [op : Ops, result : Results]
  BY DEF UpdateReturns, TypeOK, Results
<1>3. TypeOK'
  BY <1>1, <1>2 DEF TypeOK, Idle
<1>4. QED
  BY <1>1, <1>3 DEF WithinLimits, NoDataYet, Idle

\* What a call does that returns at once
LEMMA CallsType ==
  ASSUME NEW op \in Ops, NEW r \in Results, Calls(op, r)
  PROVE  last' \in [op : Ops, result : Results] /\ last'.result = r /\ last.result # "running"
BY DEF Calls

LEMMA AADInv ==
  ASSUME ContextInv, NEW n \in Nat, AuthenticateAdditionalData(n)
  PROVE  ContextInv'
<1> USE DEF ContextInv
<1>1. UNCHANGED << conf, ctx, updated, bytes_remaining, call, out, lost >>
  BY DEF AuthenticateAdditionalData
<1>2. last' \in [op : Ops, result : Results] /\ last.result # "running"
  BY CallsType DEF AuthenticateAdditionalData, Ops, Results
<1>3. CASE UNCHANGED << evp, aad_bytes_remaining >>
  <2>1. TypeOK'
    BY <1>1, <1>2, <1>3 DEF TypeOK
  <2>2. QED
    BY <1>1, <1>3, <2>1 DEF WithinLimits, NoDataYet
<1>4. CASE /\ ~updated /\ ~Exceeds(n, aad_bytes_remaining)
           /\ aad_bytes_remaining' = aad_bytes_remaining - n
           /\ evp' = [evp EXCEPT !.aad = @ + n] \/ evp' = evp
  <2>1. /\ aad_bytes_remaining' \in 0 .. MaxAADBytes
        /\ evp' \in [aad : Nat, data : Nat, tag : SUBSET Tags, failed : BOOLEAN]
        /\ evp'.data = evp.data
        /\ evp'.aad <= evp.aad + n
    BY <1>4, SizeAssumption DEF TypeOK, Exceeds
  <2>2. TypeOK'
    BY <1>1, <1>2, <2>1 DEF TypeOK
  <2>3. WithinLimits'
    BY <1>1, <1>4, <2>1, SizeAssumption DEF WithinLimits, TypeOK
  <2>4. QED
    BY <1>1, <2>1, <2>2, <2>3 DEF NoDataYet
<1>5. QED
  BY <1>3, <1>4 DEF AuthenticateAdditionalData, AADAllowed

\* Finalizing feeds nothing
LEMMA FinalizeInv ==
  ASSUME ContextInv, Finalize \/ \E t \in Tags : FinalizeWithTag(t)
  PROVE  ContextInv'
<1> USE DEF ContextInv
<1>1. UNCHANGED << conf, updated, bytes_remaining, aad_bytes_remaining, call, out, lost >>
  BY DEF Finalize, FinalizeWithTag
<1>2. ASSUME NEW op \in Ops, NEW t \in SUBSET Tags, CipherFinal(op, t)
      PROVE  /\ ctx' \in {"Some", "None"}
             /\ evp' \in [aad : Nat, data : Nat, tag : SUBSET Tags, failed : BOOLEAN]
             /\ evp'.data = evp.data /\ evp'.aad = evp.aad
             /\ last' \in [op : Ops, result : Results] /\ last.result # "running"
  <2>1. IsAEAD(conf) \in BOOLEAN
    BY DEF IsAEAD
  <2>2. last' \in [op : Ops, result : Results] /\ last.result # "running"
    BY <1>2, CallsType DEF CipherFinal, Results
  <2>3. CASE evp' = [evp EXCEPT !.tag = t] /\ ctx' = "None"
    BY <2>2, <2>3 DEF TypeOK
  <2>4. CASE evp' = [evp EXCEPT !.tag = t, !.failed = IsAEAD(conf)] /\ ctx' = ctx
    BY <2>1, <2>2, <2>4 DEF TypeOK
  <2>5. QED
    BY <1>2, <2>3, <2>4 DEF CipherFinal
<1>3. /\ ctx' \in {"Some", "None"}
      /\ evp' \in [aad : Nat, data : Nat, tag : SUBSET Tags, failed : BOOLEAN]
      /\ evp'.data = evp.data /\ evp'.aad = evp.aad
      /\ last' \in [op : Ops, result : Results] /\ last.result # "running"
  <2>1. evp.tag \in SUBSET Tags /\ {"finalize", "finalize_with_tag"} \subseteq Ops
    BY DEF TypeOK, Ops
  <2>2. CASE CipherFinal("finalize", evp.tag)
    BY <1>2, <2>1, <2>2
  <2>3. CASE \E t \in Tags : CipherFinal("finalize_with_tag", {t})
    BY <1>2, <2>1, <2>3
  <2>4. CASE UNCHANGED << ctx, evp >> /\ (\E op \in Ops, r \in Results : Calls(op, r))
    BY <2>4, CallsType DEF TypeOK
  <2>5. QED
    BY <2>2, <2>3, <2>4 DEF Finalize, FinalizeWithTag, Ops, Results
<1>4. TypeOK'
  BY <1>1, <1>3 DEF TypeOK
<1>5. QED
  BY <1>1, <1>3, <1>4 DEF WithinLimits, NoDataYet

LEMMA ResetNonceInv ==
  ASSUME ContextInv, NEW fits, ResetNonce(fits)
  PROVE  ContextInv'
<1> USE DEF ContextInv
<1>1. UNCHANGED << conf, ctx, updated, bytes_remaining, aad_bytes_remaining, call >>
  BY DEF ResetNonce
<1>2. last' \in [op : Ops, result : Results] /\ last.result # "running"
  BY CallsType DEF ResetNonce, Ops, Results
<1>3. CASE UNCHANGED << evp, out, lost >>
  <2>1. TypeOK'
    BY <1>1, <1>2, <1>3 DEF TypeOK
  <2>2. QED
    BY <1>1, <1>3, <2>1 DEF WithinLimits, NoDataYet
<1>4. CASE Resettable(conf) /\ evp' = [evp EXCEPT !.data = 0] /\ out' = 0 /\ lost' = 0
  <2>1. ~IsAEAD(conf)
    BY <1>4 DEF Resettable, IsAEAD
  <2>2. TypeOK'
    BY <1>1, <1>2, <1>4 DEF TypeOK
  <2>3. QED
    BY <1>1, <2>1, <2>2 DEF WithinLimits, NoDataYet
<1>5. QED
  BY <1>3, <1>4 DEF ResetNonce

LEMMA AdvanceInv ==
  ASSUME ContextInv, NEW n \in Nat, Advance(n) \/ AdvanceAAD(n)
  PROVE  ContextInv'
<1> USE DEF ContextInv
<1>1. UNCHANGED << conf, ctx, evp, updated, call, out, lost >>
  BY DEF Advance, AdvanceAAD
<1>2. last' \in [op : Ops, result : Results] /\ last.result # "running"
  BY CallsType DEF Advance, AdvanceAAD, Ops, Results
<1>3. /\ bytes_remaining' \in 0 .. MaxEncryptedBytes /\ bytes_remaining' <= bytes_remaining
      /\ aad_bytes_remaining' \in 0 .. MaxAADBytes /\ aad_bytes_remaining' <= aad_bytes_remaining
  BY SizeAssumption DEF Advance, AdvanceAAD, TypeOK
<1>4. TypeOK'
  BY <1>1, <1>2, <1>3 DEF TypeOK
<1>5. WithinLimits'
  BY <1>1, <1>3, SizeAssumption DEF WithinLimits, TypeOK
<1>6. QED
  BY <1>1, <1>4, <1>5 DEF NoDataYet

LEMMA ContextNext == ContextInv /\ [Next]_vars => ContextInv'
<1> SUFFICES ASSUME ContextInv, [Next]_vars PROVE ContextInv'
  OBVIOUS
<1>1. \A n \in Lengths : n \in Nat
  BY SizeAssumption
<1>2. CASE \E n \in Lengths : Update(n)
  <2>1. PICK n \in Lengths : Update(n)
    BY <1>2
  <2>2. n + EvpBlockSize(conf) \in Nat /\ "update" \in Ops
    BY <1>1, BlockPositive DEF Ops
  <2>3. QED
    BY <1>1, <2>1, <2>2, StartUpdateInv DEF Update
<1>3. CASE \E n \in Lengths, room \in 0 .. DataBound : UpdateInto(n, room)
  <2>1. PICK n \in Lengths, room \in 0 .. DataBound : UpdateInto(n, room)
    BY <1>3
  <2>2. room \in Nat /\ "update_into" \in Ops
    BY SizeAssumption DEF Ops
  <2>3. QED
    BY <1>1, <2>1, <2>2, StartUpdateInv DEF UpdateInto
<1>4. CASE UNCHANGED vars
  BY <1>4 DEF vars, ContextInv, TypeOK, WithinLimits, NoDataYet
<1>5. QED
  BY <1>1, <1>2, <1>3, <1>4, UpdateChunkInv, UpdateReturnsInv, AADInv, FinalizeInv, ResetNonceInv,
     AdvanceInv DEF Next

\* The byte limits of an AEAD context hold over every sequence of calls, for
\* every limit, chunk size and data length, although failing calls are charged
THEOREM LimitsHold == Spec => []WithinLimits
<1>1. ContextInv => WithinLimits
  BY DEF ContextInv
<1>2. QED
  BY <1>1, ContextInit, ContextNext, PTL DEF Spec

\* OpenSSL is never given additional data after data
THEOREM AdditionalDataFirst == Spec => AADFirst
<1>1. ContextInv /\ [Next]_vars => [evp'.aad # evp.aad => evp.data = 0 /\ ~updated]_vars
  <2> SUFFICES ASSUME ContextInv, Next, evp'.aad # evp.aad PROVE evp.data = 0 /\ ~updated
    BY DEF vars
  <2>1. CASE \E n \in Lengths : AuthenticateAdditionalData(n)
    BY <2>1 DEF AuthenticateAdditionalData, AADAllowed, ContextInv, NoDataYet
  <2>2. CASE \/ \E n \in Lengths : Update(n) \/ Advance(n) \/ AdvanceAAD(n)
             \/ \E n \in Lengths, room \in 0 .. DataBound : UpdateInto(n, room)
             \/ UpdateReturns
    BY <2>2 DEF Update, UpdateInto, StartUpdate, Advance, AdvanceAAD, UpdateReturns
  <2>3. CASE UpdateChunk
    BY <2>3 DEF UpdateChunk, ContextInv, TypeOK
  <2>4. CASE Finalize \/ \E t \in Tags : FinalizeWithTag(t)
    BY <2>4 DEF Finalize, FinalizeWithTag, CipherFinal, ContextInv, TypeOK
  <2>5. CASE \E fits \in BOOLEAN : ResetNonce(fits)
    BY <2>5 DEF ResetNonce, ContextInv, TypeOK
  <2>6. QED
    BY <2>1, <2>2, <2>3, <2>4, <2>5 DEF Next
<1>2. QED
  BY <1>1, ContextInit, ContextNext, PTL DEF Spec, AADFirst

-----------------------------------------------------------------------------
(* Blocks                                                                  *)

LEMMA DivMod ==
  ASSUME NEW b \in Nat \ {0}, NEW a \in Nat
  PROVE  /\ a \div b \in Nat /\ a % b \in 0 .. b - 1
         /\ a = (a \div b) * b + (a % b)
<1>1. a % b \in 0 .. b - 1
  OBVIOUS
<1>2. a \div b \in Nat
  OBVIOUS
<1>3. a = b * (a \div b) + (a % b)
  OBVIOUS
<1>4. QED
  BY <1>1, <1>2, <1>3

LEMMA MultipleAtLeast ==
  ASSUME NEW b \in Nat \ {0}, NEW k \in Int, k >= 1
  PROVE  k * b >= b
<1>1. (k - 1) * b >= 0
  OBVIOUS
<1>2. (k - 1) * b = k * b - b
  OBVIOUS
<1>3. QED
  BY <1>1, <1>2

LEMMA RemainderUnique ==
  ASSUME NEW b \in Nat \ {0}, NEW p \in Int, NEW q \in Int,
         NEW r \in 0 .. b - 1, NEW s \in 0 .. b - 1, p * b + r = q * b + s
  PROVE  r = s
<1>1. (p - q) * b = s - r /\ (q - p) * b = r - s
  OBVIOUS
<1>2. ~(p - q >= 1)
  BY <1>1, MultipleAtLeast
<1>3. ~(q - p >= 1)
  BY <1>1, MultipleAtLeast
<1>4. p = q
  BY <1>2, <1>3
<1>5. QED
  BY <1>1, <1>4

\* What a block cipher writes and keeps back of n bytes and the d before them
LEMMA KeepBack ==
  ASSUME NEW b \in Nat \ {0}, NEW d \in Nat, NEW n \in Nat
  PROVE  (((d % b) + n) \div b) * b + ((d + n) % b) = (d % b) + n
<1> DEFINE q == d \div b
           r == d % b
           p == (r + n) \div b
           s == (r + n) % b
           u == (d + n) \div b
           v == (d + n) % b
<1>1. q \in Nat /\ r \in 0 .. b - 1 /\ d = q * b + r
  BY DivMod
<1>2. r + n \in Nat /\ d + n \in Nat
  BY <1>1
<1> HIDE DEF q, r
<1>3. p \in Nat /\ s \in 0 .. b - 1 /\ r + n = p * b + s
  BY <1>2, DivMod
<1>4. u \in Nat /\ v \in 0 .. b - 1 /\ d + n = u * b + v
  BY <1>2, DivMod
<1> HIDE DEF p, s, u, v
<1>5. (q + p) * b = q * b + p * b
  BY <1>1, <1>3
<1>6. (q + p) * b + s = u * b + v
  BY <1>1, <1>3, <1>4, <1>5
<1>7. s = v
  <2>1. q + p \in Int /\ u \in Int
    BY <1>1, <1>3, <1>4
  <2>2. QED
    BY <1>3, <1>4, <1>6, <2>1, RemainderUnique
<1>8. p * b + v = r + n
  BY <1>3, <1>7
<1>9. QED
  BY <1>1, <1>2, <1>3, <1>4, <1>8 DEF r, p, v

-----------------------------------------------------------------------------
(* Where every byte is                                                     *)

\* What OpenSSL was fed was handed to the caller, is about to be, was lost in a
\* call that failed, or is kept back
DataFlow == out + lost + call.written + KeptBack = evp.data

\* The buffer has room for what is kept back and what is still to come
RoomLeft ==
  last.result = "running" => call.written + KeptBack + call.rest <= call.room

\* A context that is gone was not taken away in the middle of an update, nor of
\* a block, and had verified its tag
Finished ==
  ctx = "None" =>
    /\ last.result # "running" /\ KeptBack = 0
    /\ IsAEAD(conf) /\ conf.side = "decrypt" =>
         /\ evp.tag # {} /\ \A t \in evp.tag : t.right
         /\ [aad |-> evp.aad, data |-> evp.data] = Sealed

\* OpenSSL is given no tag that is shorter than the caller asked for
TagsFit ==
  IsAEAD(conf) /\ conf.side = "decrypt" => \A t \in evp.tag : t.len >= conf.min_tag_length

FlowInv == ContextInv /\ DataFlow /\ RoomLeft /\ Finished /\ TagsFit

LEMMA KeptBackType ==
  ASSUME ContextInv
  PROVE  /\ KeptBack \in Nat /\ KeptBack <= EvpBlockSize(conf) - 1
         /\ EvpBlockSize(conf) \in Nat \ {0} /\ evp.data \in Nat
<1>1. EvpBlockSize(conf) \in Nat \ {0} /\ evp.data \in Nat
  BY BlockPositive DEF ContextInv, TypeOK
<1>2. QED
  BY <1>1, DivMod DEF KeptBack

LEMMA FlowInit == Init => FlowInv
<1> SUFFICES ASSUME Init PROVE FlowInv
  OBVIOUS
<1>1. ContextInv
  BY ContextInit
<1>2. evp.data = 0 /\ evp.tag = conf.tag
  BY DEF Init, NewEvp
<1>3. KeptBack = 0
  BY <1>1, <1>2, KeptBackType DEF KeptBack
<1>4. DataFlow /\ RoomLeft /\ Finished
  BY <1>2, <1>3 DEF Init, Idle, DataFlow, RoomLeft, Finished
<1>5. TagsFit
  BY <1>2 DEF Init, Makeable, TagsFit
<1>6. QED
  BY <1>1, <1>4, <1>5 DEF FlowInv

LEMMA StartUpdateFlow ==
  ASSUME FlowInv, NEW op \in Ops, NEW n \in Nat, NEW room \in Nat, StartUpdate(op, n, room)
  PROVE  DataFlow' /\ RoomLeft' /\ Finished' /\ TagsFit'
<1>1. /\ UNCHANGED << conf, ctx, evp, aad_bytes_remaining, out, lost >>
      /\ last.result # "running" /\ call = Idle
  BY DEF StartUpdate, BeginUpdate, Calls, FlowInv, ContextInv, TypeOK
<1>2. KeptBack' = KeptBack
  BY <1>1 DEF KeptBack
<1>3. \/ call' = call /\ last'.result # "running"
      \/ /\ call' = [rest |-> n, written |-> 0, room |-> room]
         /\ room >= n + EvpBlockSize(conf) - 1 /\ ctx = "Some"
  BY DEF StartUpdate, BeginUpdate, Calls, RoomNeeded
<1>4. call'.written = 0
  BY <1>1, <1>3 DEF Idle
<1>5. DataFlow'
  BY <1>1, <1>2, <1>4 DEF FlowInv, DataFlow, Idle
<1>6. RoomLeft'
  BY <1>2, <1>3, KeptBackType DEF FlowInv, RoomLeft
<1>7. Finished' /\ TagsFit'
  BY <1>1, <1>2, <1>3 DEF FlowInv, Finished, TagsFit
<1>8. QED
  BY <1>5, <1>6, <1>7

LEMMA UpdateChunkFlow ==
  ASSUME FlowInv, UpdateChunk
  PROVE  DataFlow' /\ RoomLeft' /\ Finished' /\ TagsFit'
<1>1. /\ call.rest \in Nat /\ call.written \in Nat /\ call.room \in Nat /\ evp.data \in Nat
      /\ out \in Nat /\ lost \in Nat
  BY DEF FlowInv, ContextInv, TypeOK
<1>2. Chunk \in Nat /\ Chunk <= call.rest
  BY <1>1, ChunkType
<1>3. /\ UNCHANGED << conf, ctx, updated, bytes_remaining, aad_bytes_remaining, out >>
      /\ last.result = "running"
  BY DEF UpdateChunk
<1>4. ctx # "None"
  BY <1>3 DEF FlowInv, Finished
<1>5. CASE /\ call' = [call EXCEPT !.rest = @ - Chunk, !.written = TotalWritten(Chunk)]
           /\ evp' = [evp EXCEPT !.data = @ + Chunk]
           /\ UNCHANGED << lost, last >>
  <2> DEFINE w == EvpWrites(Chunk)
  <2>1. w \in Nat
    BY <1>1, <1>2, WritesNat
  <2>2. /\ call'.rest = call.rest - Chunk /\ call'.written = call.written + w
        /\ call'.room = call.room
    <3> DEFINE x == TotalWritten(Chunk)
               y == call.rest - Chunk
    <3>1. x = call.written + w
      BY DEF TotalWritten
    <3> HIDE DEF x, w
    <3>2. call \in [rest : Nat, written : Nat, room : Nat]
      BY DEF FlowInv, ContextInv, TypeOK
    <3>3. call' = [call EXCEPT !.rest = y, !.written = x]
      BY <1>5 DEF x
    <3>4. QED
      BY <3>1, <3>2, <3>3
  <2>3. evp'.data = evp.data + Chunk /\ evp'.tag = evp.tag
    BY <1>5 DEF FlowInv, ContextInv, TypeOK
  <2>4. w + KeptBack' = KeptBack + Chunk
    <3> DEFINE b == EvpBlockSize(conf)
    <3>1. b \in Nat \ {0}
      BY BlockPositive
    <3>2. KeptBack' = (evp.data + Chunk) % b
      BY <1>3, <2>3 DEF KeptBack, EvpBlockSize
    <3>3. KeptBack = evp.data % b /\ w = (((evp.data % b) + Chunk) \div b) * b
      BY DEF KeptBack, EvpWrites
    <3> HIDE DEF b, w
    <3>4. QED
      BY <1>1, <1>2, <3>1, <3>2, <3>3, KeepBack
  <2>5. KeptBack \in Nat /\ KeptBack' \in Nat
    <3>1. EvpBlockSize(conf) \in Nat \ {0} /\ evp.data + Chunk \in Nat
      BY <1>1, <1>2, BlockPositive
    <3>2. KeptBack' = (evp.data + Chunk) % EvpBlockSize(conf)
      BY <1>3, <2>3 DEF KeptBack, EvpBlockSize
    <3>3. QED
      BY <3>1, <3>2, KeptBackType DEF FlowInv
  <2> HIDE DEF w
  <2>6. DataFlow'
    BY <1>1, <1>2, <1>3, <1>5, <2>1, <2>2, <2>3, <2>4, <2>5 DEF FlowInv, DataFlow
  <2>7. RoomLeft'
    BY <1>1, <1>2, <1>3, <1>5, <2>1, <2>2, <2>4, <2>5 DEF FlowInv, RoomLeft
  <2>8. QED
    BY <1>3, <1>4, <2>3, <2>6, <2>7 DEF FlowInv, Finished, TagsFit
<1>6. CASE /\ call' = Idle /\ lost' = lost + call.written
           /\ last' = [last EXCEPT !.result = IF conf.mode = "XTS" THEN "ValueError" ELSE "Error"]
           /\ evp' = evp
  <2>1. last'.result # "running"
    BY <1>6 DEF FlowInv, ContextInv, TypeOK
  <2>2. KeptBack' = KeptBack /\ KeptBack \in Nat
    BY <1>3, <1>6, KeptBackType DEF KeptBack, FlowInv
  <2>3. DataFlow'
    BY <1>1, <1>3, <1>6, <2>2 DEF FlowInv, DataFlow, Idle
  <2>4. QED
    BY <1>3, <1>4, <1>6, <2>1, <2>3 DEF FlowInv, RoomLeft, Finished, TagsFit
<1>7. QED
  BY <1>5, <1>6 DEF UpdateChunk

\* A call that feeds nothing, takes nothing away and starts no update
LEMMA NothingFed ==
  ASSUME FlowInv, UNCHANGED << conf, ctx, call, out, lost >>, last'.result # "running",
         evp'.data = evp.data, evp'.tag = evp.tag, ctx = "None" => evp'.aad = evp.aad
  PROVE  DataFlow' /\ RoomLeft' /\ Finished' /\ TagsFit'
<1>1. KeptBack' = KeptBack
  BY DEF KeptBack
<1>2. QED
  BY <1>1 DEF FlowInv, DataFlow, RoomLeft, Finished, TagsFit

LEMMA FinalFlow ==
  ASSUME FlowInv, NEW op, NEW tag \in SUBSET Tags, ctx = "Some", CipherFinal(op, tag),
         UNCHANGED << conf, call, out, lost >>,
         IsAEAD(conf) /\ conf.side = "decrypt" => \A t \in tag : t.len >= conf.min_tag_length
  PROVE  DataFlow' /\ RoomLeft' /\ Finished' /\ TagsFit'
<1>1. evp'.data = evp.data /\ evp'.aad = evp.aad /\ evp'.tag = tag
  BY DEF CipherFinal, FlowInv, ContextInv, TypeOK
<1>2. KeptBack' = KeptBack
  BY <1>1 DEF KeptBack
<1>3. last'.result # "running"
  BY DEF CipherFinal, Calls
<1>4. Finished'
  <2>1. CASE EvpFinalMaySucceed(tag)
    BY <1>1, <1>2, <1>3, <2>1 DEF EvpFinalMaySucceed, Finished
  <2>2. CASE ctx' = ctx
    BY <2>2 DEF Finished
  <2>3. QED
    BY <2>1, <2>2 DEF CipherFinal
<1>5. QED
  BY <1>1, <1>2, <1>3, <1>4 DEF FlowInv, DataFlow, RoomLeft, TagsFit

LEMMA FlowNext == FlowInv /\ [Next]_vars => FlowInv'
<1> SUFFICES ASSUME FlowInv, [Next]_vars PROVE DataFlow' /\ RoomLeft' /\ Finished' /\ TagsFit'
  BY ContextNext DEF FlowInv
<1>1. \A n \in Lengths : n \in Nat
  BY SizeAssumption
<1>2. CASE \E n \in Lengths : Update(n)
  <2>1. PICK n \in Lengths : Update(n)
    BY <1>2
  <2>2. n + EvpBlockSize(conf) \in Nat /\ "update" \in Ops
    BY <1>1, BlockPositive DEF Ops
  <2>3. QED
    BY <1>1, <2>1, <2>2, StartUpdateFlow DEF Update
<1>3. CASE \E n \in Lengths, room \in 0 .. DataBound : UpdateInto(n, room)
  <2>1. PICK n \in Lengths, room \in 0 .. DataBound : UpdateInto(n, room)
    BY <1>3
  <2>2. room \in Nat /\ "update_into" \in Ops
    BY SizeAssumption DEF Ops
  <2>3. QED
    BY <1>1, <2>1, <2>2, StartUpdateFlow DEF UpdateInto
<1>4. CASE UpdateChunk
  BY <1>4, UpdateChunkFlow
<1>5. CASE UpdateReturns
  <2>1. /\ UNCHANGED << conf, ctx, evp, lost >> /\ call' = Idle /\ out' = out + call.written
        /\ last.result = "running" /\ last'.result = "ok"
    BY <1>5 DEF UpdateReturns, FlowInv, ContextInv, TypeOK
  <2>2. KeptBack' = KeptBack /\ KeptBack \in Nat
    BY <2>1, KeptBackType DEF KeptBack, FlowInv
  <2>3. DataFlow'
    BY <2>1, <2>2 DEF FlowInv, ContextInv, TypeOK, DataFlow, Idle
  <2>4. QED
    BY <2>1, <2>3 DEF FlowInv, RoomLeft, Finished, TagsFit
<1>6. CASE \E n \in Lengths : AuthenticateAdditionalData(n) \/ Advance(n) \/ AdvanceAAD(n)
  <2>1. /\ UNCHANGED << conf, ctx, call, out, lost >> /\ last'.result # "running"
    BY <1>6 DEF AuthenticateAdditionalData, Advance, AdvanceAAD, Calls
  <2>2. /\ evp'.data = evp.data /\ evp'.tag = evp.tag /\ (ctx = "None" => evp'.aad = evp.aad)
    BY <1>6 DEF AuthenticateAdditionalData, Advance, AdvanceAAD, FlowInv, ContextInv, TypeOK
  <2>3. QED
    BY <2>1, <2>2, NothingFed
<1>7. CASE Finalize
  <2>1. CASE ctx = "Some" /\ CipherFinal("finalize", evp.tag)
    <3>1. evp.tag \in SUBSET Tags /\ UNCHANGED << conf, call, out, lost >>
      BY <1>7 DEF Finalize, FlowInv, ContextInv, TypeOK
    <3>2. QED
      BY <2>1, <3>1, FinalFlow DEF FlowInv, TagsFit
  <2>2. CASE UNCHANGED << ctx, evp >> /\ \E r \in {"AlreadyFinalized", "ValueError"} :
                                           Calls("finalize", r)
    BY <1>7, <2>2, NothingFed DEF Finalize, Calls
  <2>3. QED
    BY <1>7, <2>1, <2>2 DEF Finalize
<1>8. CASE \E t \in Tags : FinalizeWithTag(t)
  <2>1. PICK t \in Tags : FinalizeWithTag(t)
    BY <1>8
  <2>2. CASE ctx = "Some" /\ TagFits(t) /\ CipherFinal("finalize_with_tag", {t})
    <3>1. {t} \in SUBSET Tags /\ UNCHANGED << conf, call, out, lost >>
      BY <2>1 DEF FinalizeWithTag
    <3>2. \A u \in {t} : u.len >= conf.min_tag_length
      BY <2>2 DEF TagFits
    <3>3. QED
      BY <2>2, <3>1, <3>2, FinalFlow
  <2>3. CASE UNCHANGED << ctx, evp >> /\ \E r \in {"AlreadyFinalized", "ValueError"} :
                                           Calls("finalize_with_tag", r)
    BY <2>1, <2>3, NothingFed DEF FinalizeWithTag, Calls
  <2>4. QED
    BY <2>1, <2>2, <2>3 DEF FinalizeWithTag
<1>9. CASE \E fits \in BOOLEAN : ResetNonce(fits)
  <2>1. /\ UNCHANGED << conf, ctx, call >> /\ last'.result # "running" /\ last.result # "running"
    BY <1>9 DEF ResetNonce, Calls
  <2>2. CASE UNCHANGED << evp, out, lost >>
    BY <2>1, <2>2, NothingFed
  <2>3. CASE ctx = "Some" /\ evp' = [evp EXCEPT !.data = 0] /\ out' = 0 /\ lost' = 0
    <3>1. evp'.data = 0 /\ evp'.tag = evp.tag
      BY <2>3 DEF FlowInv, ContextInv, TypeOK
    <3>2. KeptBack' = 0
      <4>1. KeptBack' = 0 % EvpBlockSize(conf)
        BY <2>1, <3>1 DEF KeptBack, EvpBlockSize
      <4>2. QED
        BY <4>1, BlockPositive
    <3>3. call'.written = 0
      BY <2>1 DEF FlowInv, ContextInv, TypeOK, Idle
    <3>4. QED
      BY <2>1, <2>3, <3>1, <3>2, <3>3 DEF FlowInv, DataFlow, RoomLeft, Finished, TagsFit
  <2>4. QED
    BY <1>9, <2>2, <2>3 DEF ResetNonce
<1>10. CASE UNCHANGED vars
  BY <1>10 DEF vars, FlowInv, DataFlow, RoomLeft, Finished, TagsFit, KeptBack, EvpBlockSize, IsAEAD
<1>11. QED
  BY <1>2, <1>3, <1>4, <1>5, <1>6, <1>7, <1>8, <1>9, <1>10 DEF Next

LEMMA FlowInvariant == Spec => []FlowInv
BY FlowInit, FlowNext, PTL DEF Spec

\* EVP_CipherUpdate never writes past the end of the buffer, for every block and
\* chunk size and every sequence of calls: what earlier calls left of a block
\* and what is still to be fed always fit into what is left of it.
THEOREM BufferHolds == Spec => []NoOverrun
<1>1. FlowInv => NoOverrun
  <2> SUFFICES ASSUME FlowInv PROVE NoOverrun
    OBVIOUS
  <2>1. call.written \in Nat /\ call.rest \in Nat /\ call.room \in Nat /\ KeptBack \in Nat
    BY KeptBackType DEF FlowInv, ContextInv, TypeOK
  <2>2. CASE last.result = "running"
    BY <2>1, <2>2 DEF FlowInv, RoomLeft, NoOverrun
  <2>3. CASE last.result # "running"
    BY <2>3 DEF FlowInv, ContextInv, TypeOK, Idle, NoOverrun
  <2>4. QED
    BY <2>2, <2>3
<1>2. QED
  BY <1>1, FlowInvariant, PTL

\* A context that was finalized has given the caller every byte it was fed, in
\* whatever pieces they came, unless an update failed part of the way.
THEOREM EveryByteReturned == Spec => []MessageComplete
<1>1. FlowInv => MessageComplete
  <2> SUFFICES ASSUME FlowInv, ctx = "None", lost = 0 PROVE out = evp.data
    BY DEF MessageComplete
  <2>1. call.written = 0 /\ KeptBack = 0 /\ out \in Nat
    BY DEF FlowInv, Finished, ContextInv, TypeOK, Idle
  <2>2. QED
    BY <2>1 DEF FlowInv, DataFlow
<1>2. QED
  BY <1>1, FlowInvariant, PTL

\* A GCM decryption ends well only with the right tag, no shorter than the
\* caller asked for, and for exactly the message that the tag belongs to.
THEOREM DecryptionAuthentic == Spec => []Authentic
<1>1. FlowInv => Authentic
  <2> SUFFICES ASSUME FlowInv, ctx = "None", IsAEAD(conf), conf.side = "decrypt"
               PROVE  /\ \E t \in evp.tag : t.right /\ t.len >= conf.min_tag_length
                      /\ [aad |-> evp.aad, data |-> out + lost] = Sealed
    BY DEF Authentic
  <2>1. call.written = 0 /\ KeptBack = 0 /\ out \in Nat /\ lost \in Nat
    BY DEF FlowInv, Finished, ContextInv, TypeOK, Idle
  <2>2. out + lost = evp.data
    BY <2>1 DEF FlowInv, DataFlow
  <2>3. QED
    BY <2>2 DEF FlowInv, Finished, TagsFit
<1>2. QED
  BY <1>1, FlowInvariant, PTL

-----------------------------------------------------------------------------
(* Padding: the constant-time checks                                       *)

Octets == 0 .. 255

LEMMA BitsOfBounds == Bits(0) = {} /\ Bits(255) = 0 .. 7
<1>1. \A i \in 0 .. 7 : (0 \div Weight[i + 1]) % 2 = 0 /\ (255 \div Weight[i + 1]) % 2 = 1
  BY DEF Weight
<1> QED
  BY <1>1 DEF Bits

LEMMA HighestBit == ASSUME NEW a \in Octets PROVE 7 \in Bits(a) <=> a >= 128
<1>1. 7 \in Bits(a) <=> (a \div 128) % 2 = 1
  BY DEF Bits, Weight
<1> QED
  BY <1>1 DEF Octets

LEMMA WrapsAround ==
  ASSUME NEW a \in Octets, NEW b \in Octets
  PROVE  WrappingSub(a, b) \in Octets /\ WrappingSub(a, b) = IF a < b THEN a - b + 256 ELSE a - b
BY DEF Octets, WrappingSub

\* constant_time_lt compares: whether a byte is less than another is in the
\* highest bits of the two and of their wrapped difference
LEMMA ComparesInConstantTime ==
  ASSUME NEW a \in Octets, NEW b \in Octets
  PROVE  constant_time_lt(a, b) = IF a < b THEN 0 .. 7 ELSE {}
<1> DEFINE d == WrappingSub(a, b)
<1> DEFINE x == Xor(Bits(a), Xor(Bits(a), Bits(b)) \cup Xor(Bits(d), Bits(b)))
<1>1. d \in Octets /\ d = IF a < b THEN a - b + 256 ELSE a - b
  BY WrapsAround
<1>2. (7 \in Bits(a) <=> a >= 128) /\ (7 \in Bits(b) <=> b >= 128) /\ (7 \in Bits(d) <=> d >= 128)
  BY <1>1, HighestBit
<1>3. 7 \in x <=> a < b
  <2> HIDE DEF d
  <2>1. 7 \in x <=> ~(7 \in Bits(a) <=> (~(7 \in Bits(a) <=> 7 \in Bits(b)) \/ ~(7 \in Bits(d) <=> 7 \in Bits(b))))
    BY DEF Xor
  <2> QED
    BY <1>1, <1>2, <2>1 DEF Octets
<1>4. WrappingSub(0, 1) = 255 /\ WrappingSub(0, 0) = 0
  <2>1. 0 \in Octets /\ 1 \in Octets
    BY DEF Octets
  <2> QED
    BY <2>1, WrapsAround
<1>5. constant_time_lt(a, b) = duplicate_msb_to_all(x)
  BY DEF constant_time_lt
<1> QED
  BY <1>3, <1>4, <1>5, BitsOfBounds DEF duplicate_msb_to_all

LEMMA QuotientUnique ==
  ASSUME NEW b \in Nat \ {0}, NEW q \in Nat, NEW r \in 0 .. b - 1
  PROVE  (q * b + r) \div b = q /\ (q * b + r) % b = r
<1>1. q * b + r \in Nat
  OBVIOUS
<1>2. (q * b + r) \div b = q
  BY <1>1
<1>3. (q * b + r) % b = r
  BY <1>1
<1> QED
  BY <1>2, <1>3

LEMMA TwiceTheDivisor ==
  ASSUME NEW w \in Nat \ {0}, NEW p \in Nat, NEW g \in 0 .. 1, NEW e \in 0 .. w - 1
  PROVE  ((p * 2 + g) * w + e) \div (w * 2) = p
<1>1. g * w + e \in 0 .. w * 2 - 1
  <2>1. CASE g = 0
    BY <2>1
  <2>2. CASE g = 1
    BY <2>2
  <2> QED
    BY <2>1, <2>2
<1>2. (p * 2 + g) * w + e = p * (w * 2) + (g * w + e)
  OBVIOUS
<1>3. w * 2 \in Nat \ {0}
  OBVIOUS
<1> QED
  BY <1>1, <1>2, <1>3, QuotientUnique

\* The bits of a quotient, from which a byte is known by its bits
LEMMA HalfOfQuotient ==
  ASSUME NEW n \in Nat, NEW w \in Nat \ {0}
  PROVE  n \div w = 2 * (n \div (w * 2)) + ((n \div w) % 2)
<1>1. /\ n \div w \in Nat /\ n % w \in 0 .. w - 1
      /\ n = (n \div w) * w + (n % w)
  BY DivMod
<1>2. ASSUME NEW k \in Nat
      PROVE  /\ k \div 2 \in Nat /\ k % 2 \in 0 .. 1
             /\ k = (k \div 2) * 2 + (k % 2)
  OBVIOUS
<1>3. ASSUME NEW q \in Nat, NEW e \in 0 .. w - 1 PROVE (q * w + e) \div (w * 2) = q \div 2
  <2>1. PICK p \in Nat, g \in 0 .. 1 : p = q \div 2 /\ q = p * 2 + g
    BY <1>2
  <2>2. ((p * 2 + g) * w + e) \div (w * 2) = p
    BY TwiceTheDivisor
  <2> QED
    BY <2>1, <2>2
<1>4. n \div (w * 2) = (n \div w) \div 2
  BY <1>1, <1>3
<1>5. n \div w = ((n \div w) \div 2) * 2 + ((n \div w) % 2) /\ (n \div w) \div 2 \in Nat
  BY <1>1, <1>2
<1> QED
  BY <1>4, <1>5

LEMMA BitsDetermine ==
  ASSUME NEW a \in Octets, NEW b \in Octets, Bits(a) = Bits(b)
  PROVE  a = b
<1> DEFINE Same(w) == (a \div w) % 2 = (b \div w) % 2
<1>1. a \in Nat /\ b \in Nat
  BY DEF Octets
<1>2. ASSUME NEW i \in 0 .. 7 PROVE Same(Weight[i + 1])
  <2>1. Weight[i + 1] \in {1, 2, 4, 8, 16, 32, 64, 128}
    BY DEF Weight
  <2>2. ASSUME NEW n \in Nat, NEW w \in {1, 2, 4, 8, 16, 32, 64, 128} PROVE (n \div w) % 2 \in {0, 1}
    OBVIOUS
  <2>3. (a \div Weight[i + 1]) % 2 \in {0, 1} /\ (b \div Weight[i + 1]) % 2 \in {0, 1}
    BY <1>1, <2>1, <2>2
  <2>4. (a \div Weight[i + 1]) % 2 = 1 <=> (b \div Weight[i + 1]) % 2 = 1
    BY DEF Bits
  <2> QED
    BY <2>3, <2>4
<1>3. Same(1) /\ Same(2) /\ Same(4) /\ Same(8) /\ Same(16) /\ Same(32) /\ Same(64) /\ Same(128)
  <2> HIDE DEF Same
  <2>1. /\ Same(Weight[0 + 1]) /\ Same(Weight[1 + 1]) /\ Same(Weight[2 + 1]) /\ Same(Weight[3 + 1])
        /\ Same(Weight[4 + 1]) /\ Same(Weight[5 + 1]) /\ Same(Weight[6 + 1]) /\ Same(Weight[7 + 1])
    BY <1>2
  <2> QED
    BY <2>1 DEF Weight
<1>4. a \div 128 = b \div 128
  <2>1. a \div 128 \in 0 .. 1 /\ b \div 128 \in 0 .. 1
    BY DEF Octets
  <2> QED
    BY <1>3, <2>1
<1> DEFINE Agree(w) == a \div w = b \div w
<1>5. ASSUME NEW w \in Nat \ {0}, NEW x \in Nat, x = w * 2, Same(w), Agree(x) PROVE Agree(w)
  <2>1. a \div w = 2 * (a \div (w * 2)) + ((a \div w) % 2) /\ b \div w = 2 * (b \div (w * 2)) + ((b \div w) % 2)
    BY <1>1, HalfOfQuotient
  <2> QED
    BY <1>5, <2>1
<1>6. Agree(1)
  <2> HIDE DEF Same, Agree
  <2>1. /\ 128 = 64 * 2 /\ 64 = 32 * 2 /\ 32 = 16 * 2 /\ 16 = 8 * 2
        /\ 8 = 4 * 2 /\ 4 = 2 * 2 /\ 2 = 1 * 2
    OBVIOUS
  <2>2. Agree(128)
    BY <1>4 DEF Agree
  <2>3. Agree(64)
    BY <1>3, <1>5, <2>1, <2>2
  <2>4. Agree(32)
    BY <1>3, <1>5, <2>1, <2>3
  <2>5. Agree(16)
    BY <1>3, <1>5, <2>1, <2>4
  <2>6. Agree(8)
    BY <1>3, <1>5, <2>1, <2>5
  <2>7. Agree(4)
    BY <1>3, <1>5, <2>1, <2>6
  <2>8. Agree(2)
    BY <1>3, <1>5, <2>1, <2>7
  <2> QED
    BY <1>3, <1>5, <2>1, <2>8
<1> QED
  BY <1>1, <1>6

\* The shifts bring any bit that is set to the lowest
LEMMA MismatchIsSeen == ASSUME NEW m \in SUBSET (0 .. 7) PROVE LowBit(m) <=> m # {}
<1> DEFINE m4 == m \cup ShiftRight(m, 4)
           m2 == m4 \cup ShiftRight(m4, 2)
           m1 == m2 \cup ShiftRight(m2, 1)
<1>1. LowBit(m) <=> 0 \in m1
  BY DEF LowBit
<1>2. 0 \in m1 <=> 0 \in m2 \/ 1 \in m2
  BY DEF ShiftRight
<1>3. (0 \in m2 <=> 0 \in m4 \/ 2 \in m4) /\ (1 \in m2 <=> 1 \in m4 \/ 3 \in m4)
  BY DEF ShiftRight
<1>4. /\ (0 \in m4 <=> 0 \in m \/ 4 \in m) /\ (1 \in m4 <=> 1 \in m \/ 5 \in m)
      /\ (2 \in m4 <=> 2 \in m \/ 6 \in m) /\ (3 \in m4 <=> 3 \in m \/ 7 \in m)
  BY DEF ShiftRight
<1>5. m # {} <=> \/ 0 \in m \/ 1 \in m \/ 2 \in m \/ 3 \in m
                \/ 4 \in m \/ 5 \in m \/ 6 \in m \/ 7 \in m
  <2>1. \A i \in m : i \in {0, 1, 2, 3, 4, 5, 6, 7}
    OBVIOUS
  <2> QED
    BY <2>1
<1> HIDE DEF m1, m2, m4
<1> QED
  BY <1>1, <1>2, <1>3, <1>4, <1>5

\* What the checks accept
EndsWell(a, data, n) ==
  /\ n \in 1 .. Len(data)
  /\ data[Len(data)] = n
  /\ \A i \in 1 .. n - 1 : data[Len(data) - i] = IF a = "PKCS7" THEN n ELSE 0

\* The checks without branches accept exactly the data that ends in a padding
LEMMA ChecksExactly ==
  ASSUME NEW a \in {"PKCS7", "ANSIX923"}, NEW data \in Seq(Octets), Len(data) >= 1, Len(data) <= 255
  PROVE  CheckPadding(a, data) <=> EndsWell(a, data, PadSize(data))
<1> DEFINE n == PadSize(data)
           first == IF a = "PKCS7" THEN 0 ELSE 1
           all == SizeMismatch(data) \cup UNION {BodyMismatch(a, data, i) : i \in first .. Len(data) - 1}
<1>0. \A j \in 1 .. Len(data) : data[j] \in Octets
  BY ElementOfSeq
<1>1. n \in Octets /\ Len(data) \in Octets /\ 0 \in Octets /\ first \in 0 .. 1
  <2>1. Len(data) \in Octets /\ 0 \in Octets
    <3>1. \A k \in Nat : k <= 255 => k \in Octets
      BY DEF Octets
    <3>2. Len(data) \in Nat
      OBVIOUS
    <3> QED
      BY <3>1, <3>2
  <2>2. n \in Octets
    BY <1>0 DEF PadSize
  <2>3. first \in 0 .. 1
    OBVIOUS
  <2> QED
    BY <2>1, <2>2, <2>3
<1>2. ASSUME NEW i \in 0 .. Len(data) - 1
      PROVE  /\ i \in Octets /\ FromEnd(data, i) \in Octets
             /\ FromEnd(data, i) = data[Len(data) - i]
  <2>0. Len(data) \in Nat
    OBVIOUS
  <2>1. Len(data) - i \in 1 .. Len(data) /\ i \in 0 .. 255
    BY <2>0
  <2> QED
    BY <1>0, <2>1 DEF Octets, FromEnd
<1> HIDE DEF n
<1>3. ASSUME NEW k \in Octets PROVE Bits(k) \subseteq 0 .. 7 /\ (Bits(k) = {} <=> k = 0)
  BY <1>1, BitsOfBounds, BitsDetermine DEF Bits
<1>4. SizeMismatch(data) = {} <=> n \in 1 .. Len(data)
  <2>1. SizeMismatch(data) = (0 .. 7 \ constant_time_lt(0, n)) \cup constant_time_lt(Len(data), n)
    BY DEF SizeMismatch, n
  <2>2. constant_time_lt(0, n) = (IF 0 < n THEN 0 .. 7 ELSE {})
        /\ constant_time_lt(Len(data), n) = (IF Len(data) < n THEN 0 .. 7 ELSE {})
    BY <1>1, ComparesInConstantTime
  <2>3. n \in Nat /\ Len(data) \in Nat
    BY <1>1 DEF Octets
  <2>4. SizeMismatch(data) = {} <=> 0 < n /\ ~(Len(data) < n)
    <3>1. 0 .. 7 # {}
      OBVIOUS
    <3> QED
      BY <2>1, <2>2, <3>1
  <2> QED
    BY <2>3, <2>4
<1>5. ASSUME NEW i \in 0 .. Len(data) - 1
      PROVE  BodyMismatch(a, data, i) = {} <=> (i < n => data[Len(data) - i] = IF a = "PKCS7" THEN n ELSE 0)
  <2> DEFINE d == data[Len(data) - i]
  <2>1. BodyMismatch(a, data, i) = constant_time_lt(i, n) \cap
          (IF a = "PKCS7" THEN Xor(Bits(n), Bits(d)) ELSE Bits(d))
    BY <1>2 DEF BodyMismatch, n
  <2>2. constant_time_lt(i, n) = IF i < n THEN 0 .. 7 ELSE {}
    BY <1>1, <1>2, ComparesInConstantTime
  <2>3. d \in Octets
    BY <1>2
  <2> HIDE DEF d
  <2>4. Xor(Bits(n), Bits(d)) = {} <=> n = d
    <3>1. Xor(Bits(n), Bits(d)) = {} <=> Bits(n) = Bits(d)
      BY DEF Xor
    <3> QED
      BY <1>1, <2>3, <3>1, BitsDetermine
  <2>5. Xor(Bits(n), Bits(d)) \subseteq 0 .. 7 /\ Bits(d) \subseteq 0 .. 7 /\ (Bits(d) = {} <=> d = 0)
    BY <1>1, <1>3, <2>3 DEF Xor
  <2>6. CASE a = "PKCS7"
    BY <2>1, <2>2, <2>4, <2>5, <2>6 DEF d
  <2>7. CASE a # "PKCS7"
    BY <2>1, <2>2, <2>5, <2>7 DEF d
  <2> QED
    BY <2>6, <2>7
<1>6. all \in SUBSET (0 .. 7)
  <2>1. \A i \in 0 .. Len(data) - 1 : BodyMismatch(a, data, i) \subseteq 0 .. 7
    BY <1>1, <1>2, ComparesInConstantTime DEF BodyMismatch, n
  <2>2. SizeMismatch(data) \subseteq 0 .. 7
    BY <1>1, ComparesInConstantTime DEF SizeMismatch, n
  <2> QED
    BY <1>1, <2>1, <2>2
<1>7. CheckPadding(a, data) <=> all = {}
  BY <1>6, MismatchIsSeen DEF CheckPadding
<1>8. all = {} <=> /\ SizeMismatch(data) = {}
                  /\ \A i \in first .. Len(data) - 1 : BodyMismatch(a, data, i) = {}
  <2> DEFINE Body(i) == BodyMismatch(a, data, i)
  <2>1. all = SizeMismatch(data) \cup UNION {Body(i) : i \in first .. Len(data) - 1}
    OBVIOUS
  <2> HIDE DEF all, first, Body
  <2>2. all = {} <=> SizeMismatch(data) = {} /\ \A i \in first .. Len(data) - 1 : Body(i) = {}
    BY <2>1
  <2> QED
    BY <2>2 DEF Body
<1>9. first .. Len(data) - 1 \subseteq 0 .. Len(data) - 1
  BY <1>1
<1> HIDE DEF all
<1>10. all = {} <=>
         /\ n \in 1 .. Len(data)
         /\ \A i \in first .. Len(data) - 1 : i < n => data[Len(data) - i] = IF a = "PKCS7" THEN n ELSE 0
  BY <1>4, <1>5, <1>8, <1>9
<1>11. data[Len(data)] = n /\ data[Len(data) - 0] = n
  BY DEF n, PadSize
<1>12. ASSUME n \in 1 .. Len(data)
       PROVE  (\A i \in first .. Len(data) - 1 : i < n => data[Len(data) - i] = IF a = "PKCS7" THEN n ELSE 0)
                <=> \A i \in 1 .. n - 1 : data[Len(data) - i] = IF a = "PKCS7" THEN n ELSE 0
  BY <1>11, <1>12
<1> QED
  BY <1>7, <1>10, <1>11, <1>12 DEF EndsWell, n

\* The padding of n bytes under algorithm a
PaddingOf(a, n) == [i \in 1 .. n |-> IF a = "PKCS7" \/ i = n THEN n ELSE 0]

LEMMA PaddingOfType ==
  ASSUME NEW a, NEW n \in 0 .. 255
  PROVE  PaddingOf(a, n) \in Seq(Octets) /\ Len(PaddingOf(a, n)) = n
<1>1. \A i \in 1 .. n : (IF a = "PKCS7" \/ i = n THEN n ELSE 0) \in Octets
  BY DEF Octets
<1> QED
  BY <1>1 DEF PaddingOf

LEMMA SuffixElements ==
  ASSUME NEW s \in Seq(Octets), NEW t \in Seq(Octets)
  PROVE  IsSuffix(s, t) <=> /\ Len(s) <= Len(t)
                            /\ \A i \in 0 .. Len(s) - 1 : s[Len(s) - i] = t[Len(t) - i]
<1> DEFINE rs == Reverse(s)
           rt == Reverse(t)
<1>1. /\ Len(s) \in Nat /\ Len(t) \in Nat
      /\ rs \in Seq(Octets) /\ Len(rs) = Len(s) /\ \A i \in 1 .. Len(s) : rs[i] = s[Len(s) - i + 1]
      /\ rt \in Seq(Octets) /\ Len(rt) = Len(t) /\ \A i \in 1 .. Len(t) : rt[i] = t[Len(t) - i + 1]
  BY DEF Reverse
<1> HIDE DEF rs, rt
<1>2. IsSuffix(s, t) <=> Len(rs) <= Len(rt) /\ SubSeq(rs, 1, Len(rs)) = SubSeq(rt, 1, Len(rs))
  BY DEF IsSuffix, IsPrefix, rs, rt
<1>3. SubSeq(rs, 1, Len(rs)) = rs
  BY <1>1
<1>4. ASSUME Len(s) <= Len(t)
      PROVE  SubSeq(rt, 1, Len(s)) \in Seq(Octets) /\ Len(SubSeq(rt, 1, Len(s))) = Len(s)
             /\ \A i \in 1 .. Len(s) : SubSeq(rt, 1, Len(s))[i] = rt[i]
  BY <1>1, <1>4
<1>5. ASSUME Len(s) <= Len(t)
      PROVE  rs = SubSeq(rt, 1, Len(s)) <=> \A i \in 1 .. Len(s) : rs[i] = rt[i]
  BY <1>1, <1>4, <1>5, SeqEqual
<1>6. ASSUME Len(s) <= Len(t)
      PROVE  (\A i \in 1 .. Len(s) : rs[i] = rt[i]) <=>
             \A i \in 0 .. Len(s) - 1 : s[Len(s) - i] = t[Len(t) - i]
  <2>1. ASSUME NEW i \in 1 .. Len(s)
        PROVE  rs[i] = s[Len(s) - (i - 1)] /\ rt[i] = t[Len(t) - (i - 1)] /\ i - 1 \in 0 .. Len(s) - 1
    <3>1. Len(s) - i + 1 = Len(s) - (i - 1) /\ Len(t) - i + 1 = Len(t) - (i - 1) /\ i \in 1 .. Len(t)
      BY <1>1, <1>6
    <3> QED
      BY <1>1, <3>1
  <2>2. ASSUME NEW i \in 0 .. Len(s) - 1
        PROVE  i + 1 \in 1 .. Len(s) /\ (i + 1) - 1 = i
    BY <1>1
  <2>3. ASSUME \A i \in 1 .. Len(s) : rs[i] = rt[i], NEW i \in 0 .. Len(s) - 1
        PROVE  s[Len(s) - i] = t[Len(t) - i]
    <3>1. rs[i + 1] = s[Len(s) - ((i + 1) - 1)] /\ rt[i + 1] = t[Len(t) - ((i + 1) - 1)] /\ rs[i + 1] = rt[i + 1]
      BY <2>1, <2>2, <2>3
    <3> QED
      BY <2>2, <3>1
  <2>4. ASSUME \A i \in 0 .. Len(s) - 1 : s[Len(s) - i] = t[Len(t) - i], NEW i \in 1 .. Len(s)
        PROVE  rs[i] = rt[i]
    BY <2>1, <2>4
  <2> QED
    BY <2>3, <2>4
<1> QED
  BY <1>1, <1>2, <1>3, <1>5, <1>6

\* The byte that is i places from the end of a padding, and of a concatenation
LEMMA PaddingFromEnd ==
  ASSUME NEW a, NEW n \in 0 .. 255, NEW i \in 0 .. n - 1
  PROVE  PaddingOf(a, n)[n - i] = IF a = "PKCS7" \/ i = 0 THEN n ELSE 0
BY DEF PaddingOf

LEMMA EndsInPadding ==
  ASSUME NEW a \in {"PKCS7", "ANSIX923"}, NEW v \in Seq(Octets), NEW n \in 1 .. 255
  PROVE  IsSuffix(PaddingOf(a, n), v) <=> EndsWell(a, v, n)
<1> DEFINE p == PaddingOf(a, n)
<1>1. p \in Seq(Octets) /\ Len(p) = n /\ \A i \in 0 .. n - 1 : p[n - i] = IF a = "PKCS7" \/ i = 0 THEN n ELSE 0
  <2>1. n \in 0 .. 255
    OBVIOUS
  <2>2. p \in Seq(Octets) /\ Len(p) = n
    BY <2>1, PaddingOfType
  <2>3. \A i \in 0 .. n - 1 : p[n - i] = IF a = "PKCS7" \/ i = 0 THEN n ELSE 0
    BY <2>1, PaddingFromEnd
  <2> QED
    BY <2>2, <2>3
<1> HIDE DEF p
<1>2. IsSuffix(p, v) <=> n <= Len(v) /\ \A i \in 0 .. n - 1 : p[n - i] = v[Len(v) - i]
  <2>1. p \in Seq(Octets)
    BY <1>1
  <2>2. IsSuffix(p, v) <=> Len(p) <= Len(v) /\ \A i \in 0 .. Len(p) - 1 : p[Len(p) - i] = v[Len(v) - i]
    BY <2>1, SuffixElements
  <2> QED
    BY <1>1, <2>2
<1>3. IsSuffix(p, v) <=> n <= Len(v) /\ \A i \in 0 .. n - 1 : v[Len(v) - i] = IF a = "PKCS7" \/ i = 0 THEN n ELSE 0
  BY <1>1, <1>2
<1>4. Len(v) \in Nat /\ v[Len(v) - 0] = v[Len(v)]
  OBVIOUS
<1>5. (\A i \in 0 .. n - 1 : v[Len(v) - i] = IF a = "PKCS7" \/ i = 0 THEN n ELSE 0) <=>
        /\ v[Len(v)] = n
        /\ \A i \in 1 .. n - 1 : v[Len(v) - i] = IF a = "PKCS7" THEN n ELSE 0
  <2>1. 0 .. n - 1 = {0} \cup 1 .. n - 1
    OBVIOUS
  <2> QED
    BY <1>4, <2>1
<1> QED
  BY <1>3, <1>4, <1>5 DEF EndsWell, p

LEMMA SuffixOfConcatenation ==
  ASSUME NEW s \in Seq(Octets), NEW u \in Seq(Octets), NEW v \in Seq(Octets), Len(s) <= Len(v)
  PROVE  IsSuffix(s, u \o v) <=> IsSuffix(s, v)
<1>1. /\ u \o v \in Seq(Octets) /\ Len(u \o v) = Len(u) + Len(v)
      /\ Len(u) \in Nat /\ Len(v) \in Nat /\ Len(s) \in Nat
  OBVIOUS
<1>2. ASSUME NEW i \in 0 .. Len(s) - 1
      PROVE  (u \o v)[Len(u \o v) - i] = v[Len(v) - i]
  <2>1. Len(u) + Len(v) - i \in 1 .. Len(u) + Len(v) /\ ~(Len(u) + Len(v) - i <= Len(u))
        /\ Len(u) + Len(v) - i - Len(u) = Len(v) - i
    BY <1>1
  <2>2. (u \o v)[Len(u) + Len(v) - i] = v[Len(u) + Len(v) - i - Len(u)]
    BY <2>1, ConcatProperties
  <2> QED
    BY <1>1, <2>1, <2>2
<1>3. /\ IsSuffix(s, u \o v) <=> /\ Len(s) <= Len(u \o v)
                                 /\ \A i \in 0 .. Len(s) - 1 : s[Len(s) - i] = (u \o v)[Len(u \o v) - i]
      /\ IsSuffix(s, v) <=> /\ Len(s) <= Len(v)
                            /\ \A i \in 0 .. Len(s) - 1 : s[Len(s) - i] = v[Len(v) - i]
  <2>1. u \o v \in Seq(Octets)
    BY <1>1
  <2> QED
    BY <2>1, SuffixElements
<1>4. Len(s) <= Len(u \o v)
  BY <1>1
<1> QED
  BY <1>2, <1>3, <1>4

-----------------------------------------------------------------------------
(* Padding: the contexts                                                   *)

PaddingTypeOK ==
  /\ algorithm \in {"PKCS7", "ANSIX923"} /\ block_size \in 0 .. 255
  /\ Alphabet(block_size) \subseteq Octets
  /\ message \in Seq(Octets) /\ wire \in Seq(Octets) /\ plain \in Seq(Octets)
  /\ received \in Nat /\ received <= Len(wire)
  /\ length_seen = {} \/ length_seen = {Len(message)}
  /\ buffer = {} \/ \E v \in Seq(Octets) : buffer = {v}
  /\ unpadded \in {"open", "finalized", "ValueError", "panic"}

\* What the padder has returned is the message, and its padding in the end
WireIsPadded ==
  /\ length_seen # {} => padded = "open"
  /\ padded = "open" /\ origin = "padder" => length_seen # {} /\ wire = message
  /\ padded = "finalized" =>
       block_size > 0 /\ wire = message \o PaddingOf(algorithm, PadLength(Len(message)))

\* An unpadder has its buffer until it is finalized, and has returned whole
\* blocks until then
ReturnsBlocks ==
  /\ buffer = {} <=> unpadded # "open"
  /\ unpadded = "panic" => block_size = 0
  /\ buffer # {} /\ block_size > 0 => \E k \in Nat : Len(plain) = k * block_size

\* AcceptsWellPadded of any state
Accepts(a, bs, verdict, p, r) ==
  verdict \in {"finalized", "ValueError"} /\ bs > 0 =>
    LET Ends == {n \in 1 .. bs : IsSuffix(PaddingOf(a, n), r)} IN
    /\ verdict = "finalized" <=> Len(r) % bs = 0 /\ Ends # {}
    /\ verdict = "finalized" => \E n \in Ends : p \o PaddingOf(a, n) = r

\* HoldsLastBlock of any state
Holds(bs, p, v, r) ==
  /\ p \o v = r
  /\ bs > 0 => /\ Len(v) < 2 * bs
               /\ Len(v) >= bs \/ p = << >>

PaddingInv ==
  /\ PaddingTypeOK /\ WireIsPadded /\ ReturnsBlocks
  /\ HoldsLastBlock /\ AcceptsWellPadded

LEMMA PrefixOf ==
  ASSUME NEW w \in Seq(Octets), NEW n \in Nat, n <= Len(w)
  PROVE  SubSeq(w, 1, n) \in Seq(Octets) /\ Len(SubSeq(w, 1, n)) = n
OBVIOUS

LEMMA PropertiesOfTheState ==
  ASSUME PaddingTypeOK
  PROVE  /\ HoldsLastBlock <=> \A v \in buffer : Holds(block_size, plain, v, Received)
         /\ AcceptsWellPadded <=> Accepts(algorithm, block_size, unpadded, plain, Received)
         /\ Received \in Seq(Octets) /\ Len(Received) = received
<1>1. Received \in Seq(Octets) /\ Len(Received) = received
  BY DEF PaddingTypeOK, Received
<1>2. HoldsLastBlock <=> \A v \in buffer : Holds(block_size, plain, v, Received)
  BY DEF HoldsLastBlock, Holds
<1>3. \A n : Padding(n) = PaddingOf(algorithm, n)
  BY DEF Padding, PaddingOf
<1>4. AcceptsWellPadded <=> Accepts(algorithm, block_size, unpadded, plain, Received)
  BY <1>1, <1>3, Zenon DEF AcceptsWellPadded, Accepts
<1> QED
  BY <1>1, <1>2, <1>4

LEMMA PropertiesOfNextState ==
  ASSUME PaddingTypeOK'
  PROVE  /\ HoldsLastBlock' <=> \A v \in buffer' : Holds(block_size', plain', v, Received')
         /\ AcceptsWellPadded' <=> Accepts(algorithm', block_size', unpadded', plain', Received')
         /\ Received' \in Seq(Octets) /\ Len(Received') = received'
<1>1. Received' \in Seq(Octets) /\ Len(Received') = received'
  <2>1. wire' \in Seq(Octets) /\ received' \in Nat /\ received' <= Len(wire')
    BY DEF PaddingTypeOK
  <2>2. Received' = SubSeq(wire', 1, received')
    BY DEF Received
  <2> QED
    BY <2>1, <2>2, PrefixOf
<1>2. HoldsLastBlock' <=> \A v \in buffer' : Holds(block_size', plain', v, Received')
  BY DEF HoldsLastBlock, Holds
<1>3. AcceptsWellPadded' <=> Accepts(algorithm', block_size', unpadded', plain', Received')
  BY <1>1, Zenon DEF AcceptsWellPadded, Accepts, Padding, PaddingOf
<1> QED
  BY <1>1, <1>2, <1>3

LEMMA PaddingInitial == PaddingInit => PaddingInv
<1> SUFFICES ASSUME PaddingInit PROVE PaddingInv
  OBVIOUS
<1>1. PICK bits \in {b \in BlockSizes : Acceptable(b)} : block_size = bits \div 8
  BY DEF PaddingInit
<1>2. block_size \in 0 .. 255 /\ Alphabet(block_size) \subseteq Octets
  <2>1. bits \in Nat /\ bits <= 2040 /\ bits \in BlockSizes
    BY <1>1, PaddingAssumption DEF Acceptable
  <2>2. bits \div 8 \in 0 .. 255
    BY <2>1
  <2> QED
    BY <1>1, <2>1, <2>2, PaddingAssumption DEF Octets
<1>3. << >> \in Seq(Octets) /\ Len(<< >>) = 0
  OBVIOUS
<1>4. wire \in Seq(Octets)
  <2>1. CASE origin = "padder"
    BY <1>3, <2>1 DEF PaddingInit
  <2>2. CASE origin = "elsewhere"
    <3>1. PICK m \in 0 .. MaxForeign : wire \in [1 .. m -> Alphabet(block_size)]
      BY <2>2 DEF PaddingInit, BoundedSeq, SeqOf
    <3> QED
      BY <1>2, <3>1, PaddingAssumption
  <2> QED
    BY <2>1, <2>2 DEF PaddingInit
<1>5. PaddingTypeOK
  <2>1. message \in Seq(Octets) /\ plain \in Seq(Octets) /\ length_seen = {Len(message)}
    BY <1>3 DEF PaddingInit
  <2>2. \E v \in Seq(Octets) : buffer = {v}
    BY <1>3 DEF PaddingInit
  <2>3. received \in Nat /\ received <= Len(wire)
    BY <1>4 DEF PaddingInit
  <2> QED
    BY <1>2, <1>4, <2>1, <2>2, <2>3 DEF PaddingInit, PaddingTypeOK
<1>6. WireIsPadded
  BY DEF PaddingInit, WireIsPadded
<1>7. ReturnsBlocks
  <2>1. 0 = 0 * block_size
    BY <1>2
  <2> QED
    BY <1>3, <2>1 DEF PaddingInit, ReturnsBlocks
<1>8. AcceptsWellPadded
  BY DEF PaddingInit, AcceptsWellPadded
<1>9. HoldsLastBlock
  <2>1. SubSeq(wire, 1, 0) = << >> /\ << >> \o << >> = << >>
    BY <1>4
  <2> QED
    BY <1>2, <1>3, <2>1 DEF PaddingInit, HoldsLastBlock, Received
<1> QED
  BY <1>5, <1>6, <1>7, <1>8, <1>9 DEF PaddingInv

\* What the unpadder was given does not change when the padder returns more
LEMMA ReceivedIsPrefix ==
  ASSUME NEW w \in Seq(Octets), NEW x \in Seq(Octets), NEW n \in Nat, n <= Len(w)
  PROVE  SubSeq(w \o x, 1, n) = SubSeq(w, 1, n)
<1>1. Len(w) \in Nat
  OBVIOUS
<1>2. CASE n = 0
  BY <1>2, SubSeqEmpty
<1>3. CASE n > 0
  BY <1>1, <1>3, SubSeqOfConcat1
<1> QED
  BY <1>2, <1>3

LEMMA WireGrows ==
  ASSUME PaddingInv, PaddingTypeOK', Received' = Received,
         UNCHANGED << algorithm, block_size, origin, unpadderVars >>
  PROVE  HoldsLastBlock' /\ AcceptsWellPadded' /\ ReturnsBlocks'
<1>1. PaddingTypeOK /\ HoldsLastBlock /\ AcceptsWellPadded /\ ReturnsBlocks
  BY DEF PaddingInv
<1>2. /\ \A v \in buffer : Holds(block_size, plain, v, Received)
      /\ Accepts(algorithm, block_size, unpadded, plain, Received)
  BY <1>1, PropertiesOfTheState
<1>3. /\ HoldsLastBlock' <=> \A v \in buffer' : Holds(block_size', plain', v, Received')
      /\ AcceptsWellPadded' <=> Accepts(algorithm', block_size', unpadded', plain', Received')
  BY PropertiesOfNextState
<1>4. ReturnsBlocks'
  BY <1>1 DEF ReturnsBlocks, unpadderVars
<1> QED
  BY <1>2, <1>3, <1>4, Zenon DEF unpadderVars

LEMMA BoundedSeqType ==
  ASSUME PaddingTypeOK, NEW data \in BoundedSeq(Alphabet(block_size), MaxMessage)
  PROVE  data \in Seq(Octets)
<1>1. PICK m \in 0 .. MaxMessage : data \in [1 .. m -> Alphabet(block_size)]
  BY DEF BoundedSeq, SeqOf
<1> QED
  BY <1>1, PaddingAssumption DEF PaddingTypeOK

LEMMA PadUpdateKeeps ==
  ASSUME PaddingInv, NEW data \in BoundedSeq(Alphabet(block_size), MaxMessage), PadUpdate(data)
  PROVE  PaddingInv'
<1>0. PaddingTypeOK /\ WireIsPadded /\ data \in Seq(Octets)
  BY BoundedSeqType DEF PaddingInv
<1>u. UNCHANGED << algorithm, block_size, origin, unpadderVars >> /\ padded' = padded
  BY DEF PadUpdate
<1>1. CASE length_seen = {}
  <2>1. UNCHANGED << length_seen, message, wire >>
    BY <1>1 DEF PadUpdate
  <2>2. PaddingTypeOK' /\ WireIsPadded' /\ Received' = Received
    BY <1>0, <1>u, <2>1 DEF PaddingTypeOK, WireIsPadded, unpadderVars, PadLength, Received
  <2> QED
    BY <1>u, <2>2, WireGrows DEF PaddingInv
<1>2. CASE length_seen # {}
  <2>1. length_seen = {Len(message)} /\ padded = "open" /\ origin = "padder" /\ wire = message
    BY <1>0, <1>2 DEF PaddingTypeOK, WireIsPadded, PadUpdate
  <2>2. length_seen' = {Len(message) + Len(data)} /\ message' = message \o data /\ wire' = wire \o data
    BY <2>1 DEF PadUpdate, AlreadyFinalized
  <2>3. message \in Seq(Octets) /\ received \in Nat /\ received <= Len(wire)
    BY <1>0 DEF PaddingTypeOK
  <2>4. message \o data \in Seq(Octets) /\ Len(message \o data) = Len(message) + Len(data)
        /\ received <= Len(message \o data)
    BY <1>0, <2>1, <2>3
  <2>5. PaddingTypeOK'
    BY <1>0, <1>u, <2>1, <2>2, <2>3, <2>4 DEF PaddingTypeOK, unpadderVars
  <2>6. WireIsPadded'
    BY <1>u, <2>1, <2>2 DEF WireIsPadded
  <2>7. Received' = Received
    BY <1>0, <1>u, <2>1, <2>2, <2>3, ReceivedIsPrefix DEF Received, unpadderVars
  <2> QED
    BY <1>u, <2>5, <2>6, <2>7, WireGrows DEF PaddingInv
<1> QED
  BY <1>1, <1>2

\* The padding completes the last block, and its length fits in a byte
LEMMA PadLengthFits ==
  ASSUME block_size \in 0 .. 255, block_size > 0, NEW n \in Nat
  PROVE  /\ PadLength(n) \in 1 .. block_size /\ PadLength(n) \in 0 .. 255
         /\ Pad(PadLength(n)) = PaddingOf(algorithm, PadLength(n))
         /\ (n + PadLength(n)) % block_size = 0
<1> DEFINE r == n % block_size
<1>1. r \in 0 .. block_size - 1
  OBVIOUS
<1>2. PadLength(n) = block_size - r
  BY DEF PadLength
<1>3. PadLength(n) \in 1 .. block_size /\ PadLength(n) \in 0 .. 255
  <2> HIDE DEF r
  <2> QED
    BY <1>1, <1>2
<1>4. ASSUME NEW k \in 0 .. 255 PROVE Pad(k) = PaddingOf(algorithm, k)
  BY DEF Pad, PaddingOf
<1>5. (n + PadLength(n)) % block_size = 0
  <2>1. block_size \in Nat \ {0}
    OBVIOUS
  <2>2. n \div block_size \in Nat /\ n = (n \div block_size) * block_size + r
    BY <2>1, DivMod
  <2> HIDE DEF r
  <2>3. ASSUME NEW q \in Nat, n = q * block_size + r PROVE (n + PadLength(n)) % block_size = 0
    <3>1. n + PadLength(n) = (q + 1) * block_size
      BY <1>1, <1>2, <2>3
    <3>2. ((q + 1) * block_size) % block_size = 0
      BY <2>1
    <3> QED
      BY <3>1, <3>2
  <2> QED
    BY <2>2, <2>3
<1> QED
  BY <1>3, <1>4, <1>5

LEMMA PadFinalizeKeeps == ASSUME PaddingInv, PadFinalize PROVE PaddingInv'
<1>0. PaddingTypeOK /\ WireIsPadded
  BY DEF PaddingInv
<1>u. UNCHANGED << algorithm, block_size, origin, unpadderVars >> /\ message' = message
  BY DEF PadFinalize
<1>1. CASE UNCHANGED << length_seen, padded, wire >>
  <2>1. PaddingTypeOK' /\ WireIsPadded' /\ Received' = Received
    BY <1>0, <1>u, <1>1 DEF PaddingTypeOK, WireIsPadded, unpadderVars, PadLength, Received
  <2> QED
    BY <1>u, <2>1, WireGrows DEF PaddingInv
<1>2. CASE block_size = 0 /\ length_seen' = {} /\ padded' = "panic" /\ UNCHANGED wire
  <2>1. PaddingTypeOK' /\ WireIsPadded' /\ Received' = Received
    BY <1>0, <1>u, <1>2 DEF PaddingTypeOK, WireIsPadded, unpadderVars, PadLength, Received
  <2> QED
    BY <1>u, <2>1, WireGrows DEF PaddingInv
<1>3. ASSUME NEW seen \in length_seen, block_size > 0, length_seen' = {}, padded' = "finalized",
             wire' = wire \o Pad(PadLength(seen))
      PROVE  PaddingInv'
  <2>1. seen = Len(message) /\ padded = "open" /\ origin = "padder" /\ wire = message
    BY <1>0, <1>3 DEF PaddingTypeOK, WireIsPadded, PadFinalize
  <2>2. /\ message \in Seq(Octets) /\ received \in Nat /\ received <= Len(wire)
        /\ block_size \in 0 .. 255
    BY <1>0 DEF PaddingTypeOK
  <2> DEFINE p == PaddingOf(algorithm, PadLength(Len(message)))
  <2>3. Len(message) \in Nat
    BY <2>2
  <2>4. PadLength(Len(message)) \in 0 .. 255 /\ Pad(PadLength(Len(message))) = p
    BY <1>3, <2>2, <2>3, PadLengthFits
  <2>5. p \in Seq(Octets)
    BY <2>4, PaddingOfType
  <2>6. wire' = message \o p
    BY <1>3, <2>1, <2>4
  <2>7. PadLength(Len(message))' = PadLength(Len(message))
    BY <1>u DEF PadLength
  <2>8. WireIsPadded'
    BY <1>3, <1>u, <2>6, <2>7 DEF WireIsPadded
  <2> HIDE DEF p
  <2>9. message \o p \in Seq(Octets) /\ received <= Len(message \o p)
    BY <2>1, <2>2, <2>5
  <2>10. PaddingTypeOK'
    BY <1>0, <1>3, <1>u, <2>6, <2>9 DEF PaddingTypeOK, unpadderVars
  <2>11. Received' = Received
    BY <1>u, <2>1, <2>2, <2>5, <2>6, ReceivedIsPrefix DEF Received, unpadderVars
  <2> QED
    BY <1>u, <2>8, <2>10, <2>11, WireGrows DEF PaddingInv
<1> QED
  BY <1>1, <1>2, <1>3 DEF PadFinalize, AlreadyFinalized

\* What stays after the whole blocks but one are returned is a block at least,
\* if there was one, and less than two
LEMMA WholeBlocksReturned ==
  ASSUME block_size \in 0 .. 255, block_size > 0, NEW n \in Nat
  PROVE  LET size == FinishedBlocks(n) * block_size IN
         /\ FinishedBlocks(n) \in Nat /\ size \in Nat /\ size <= n
         /\ n - size < 2 * block_size
         /\ n >= block_size => n - size >= block_size
         /\ n < block_size => size = 0
<1>0. block_size \in Nat \ {0}
  OBVIOUS
<1>1. n \div block_size \in Nat /\ n % block_size \in 0 .. block_size - 1
      /\ n = (n \div block_size) * block_size + (n % block_size)
  BY <1>0, DivMod
<1>2. ASSUME NEW q \in Nat, NEW r \in 0 .. block_size - 1, n = q * block_size + r, FinishedBlocks(n) = SaturatingSub(q, 1)
      PROVE  LET size == FinishedBlocks(n) * block_size IN
             /\ FinishedBlocks(n) \in Nat /\ size \in Nat /\ size <= n
             /\ n - size < 2 * block_size
             /\ n >= block_size => n - size >= block_size
             /\ n < block_size => size = 0
  <2>1. CASE q = 0
    <3>1. FinishedBlocks(n) = 0 /\ 0 * block_size = 0 /\ n = r
      BY <1>0, <1>2, <2>1 DEF SaturatingSub
    <3> QED
      BY <1>0, <3>1
  <2>2. CASE q > 0
    <3>1. FinishedBlocks(n) = q - 1
      BY <1>2, <2>2 DEF SaturatingSub
    <3>2. (q - 1) * block_size = q * block_size - block_size /\ (q - 1) * block_size \in Nat
      BY <1>0, <2>2
    <3>3. n - (q - 1) * block_size = block_size + r
      BY <1>0, <1>2, <3>2
    <3> HIDE DEF SaturatingSub
    <3> QED
      BY <1>0, <2>2, <3>1, <3>2, <3>3
  <2> QED
    BY <2>1, <2>2
<1>3. FinishedBlocks(n) = SaturatingSub(n \div block_size, 1)
  BY DEF FinishedBlocks
<1> QED
  BY <1>1, <1>2, <1>3

LEMMA Associates ==
  ASSUME NEW a \in Seq(Octets), NEW b \in Seq(Octets), NEW c \in Seq(Octets)
  PROVE  (a \o b) \o c = a \o (b \o c)
BY ConcatAssociative

LEMMA UnpadUpdateKeeps ==
  ASSUME PaddingInv, NEW n \in 0 .. Len(wire) - received, UnpadUpdate(n)
  PROVE  PaddingInv'
<1>0. /\ PaddingTypeOK /\ WireIsPadded /\ ReturnsBlocks /\ HoldsLastBlock /\ AcceptsWellPadded
      /\ wire \in Seq(Octets) /\ received \in Nat /\ received <= Len(wire) /\ plain \in Seq(Octets)
      /\ block_size \in 0 .. 255
  BY DEF PaddingInv, PaddingTypeOK
<1>u. UNCHANGED << algorithm, block_size, origin, unpadded, padderVars >>
  BY DEF UnpadUpdate
<1>w. WireIsPadded'
  BY <1>0, <1>u DEF WireIsPadded, padderVars, PadLength
<1>1. CASE buffer = {}
  <2>1. UNCHANGED << buffer, received, plain >>
    BY <1>1 DEF UnpadUpdate
  <2>2. PaddingTypeOK' /\ Received' = Received
    BY <1>0, <1>u, <2>1 DEF PaddingTypeOK, padderVars, Received
  <2> QED
    BY <1>u, <1>w, <2>1, <2>2, WireGrows DEF PaddingInv, unpadderVars
<1>2. ASSUME NEW v, buffer = {v} PROVE PaddingInv'
  <2> DEFINE more == SubSeq(wire, received + 1, received + n)
             ext == v \o more
  <2>1. v \in Seq(Octets) /\ Holds(block_size, plain, v, Received) /\ unpadded = "open"
    BY <1>0, <1>2, PropertiesOfTheState DEF PaddingTypeOK, ReturnsBlocks
  <2>0. \/ block_size = 0 /\ buffer' = {ext} /\ plain' = plain
        \/ block_size > 0 /\ Drain(ext)
    BY <1>2, Zenon DEF UnpadUpdate, AlreadyFinalized
  <2>2. n \in Nat /\ received + n \in Nat /\ received + n <= Len(wire)
    BY <1>0
  <2>3. more \in Seq(Octets)
    BY <1>0, <2>2
  <2>4. Received \o more = SubSeq(wire, 1, received + n)
    <3>1. Len(wire) \in Nat
      BY <1>0
    <3>2. 1 \in 1 .. Len(wire) + 1 /\ received \in 1 - 1 .. Len(wire) /\ received + n \in received .. Len(wire)
      BY <1>0, <2>2, <3>1
    <3> QED
      BY <1>0, <3>2, ConcatAdjacentSubSeq DEF Received
  <2> HIDE DEF more
  <2>5. ext \in Seq(Octets) /\ Len(ext) >= Len(v) /\ plain \o ext = SubSeq(wire, 1, received + n)
    <3>1. ext \in Seq(Octets) /\ Len(ext) >= Len(v)
      BY <2>1, <2>3
    <3>2. plain \o ext = (plain \o v) \o more
      BY <1>0, <2>1, <2>3, Associates
    <3> QED
      BY <2>1, <2>4, <3>1, <3>2 DEF Holds
  <2>6. received' = received + n
    BY <1>2 DEF UnpadUpdate, AlreadyFinalized
  <2>7. Received' = SubSeq(wire, 1, received + n)
    BY <1>u, <2>6 DEF Received, padderVars
  <2> HIDE DEF ext
  <2>8. ASSUME NEW p \in Seq(Octets), NEW w \in Seq(Octets), plain' = p, buffer' = {w},
               Holds(block_size, p, w, Received'), block_size > 0 => \E k \in Nat : Len(p) = k * block_size
        PROVE  PaddingInv'
    <3>1. PaddingTypeOK'
      BY <1>0, <1>u, <2>2, <2>6, <2>8 DEF PaddingTypeOK, padderVars
    <3>2. HoldsLastBlock'
      BY <1>u, <2>8, <3>1, PropertiesOfNextState
    <3>3. ReturnsBlocks'
      BY <1>u, <2>1, <2>8 DEF ReturnsBlocks
    <3>4. AcceptsWellPadded'
      BY <1>u, <2>1 DEF AcceptsWellPadded
    <3> QED
      BY <1>w, <3>1, <3>2, <3>3, <3>4 DEF PaddingInv
  <2>9. CASE block_size = 0
    <3>1. buffer' = {ext} /\ plain' = plain
      BY <2>0, <2>9
    <3>2. Holds(block_size, plain, ext, Received')
      BY <2>5, <2>7, <2>9 DEF Holds
    <3> QED
      BY <1>0, <2>5, <2>8, <2>9, <3>1, <3>2
  <2>10. CASE block_size > 0
    <3> DEFINE size == FinishedBlocks(Len(ext)) * block_size
               back == SubSeq(ext, 1, size)
               rest == SubSeq(ext, size + 1, Len(ext))
    <3>1. buffer' = {rest} /\ plain' = plain \o back
      <4>1. Drain(ext)
        BY <2>0, <2>10
      <4> QED
        BY <4>1, Zenon DEF Drain
    <3>2. Len(ext) \in Nat
      BY <2>5
    <3>3. /\ FinishedBlocks(Len(ext)) \in Nat /\ size \in Nat /\ size <= Len(ext)
          /\ Len(ext) - size < 2 * block_size
          /\ Len(ext) >= block_size => Len(ext) - size >= block_size
          /\ Len(ext) < block_size => size = 0
      BY <1>0, <2>10, <3>2, WholeBlocksReturned
    <3>4. \E k \in Nat : Len(plain) + size = k * block_size
      <4>1. PICK j \in Nat : Len(plain) = j * block_size
        BY <1>0, <1>2, <2>10 DEF ReturnsBlocks
      <4>2. (j + FinishedBlocks(Len(ext))) * block_size = j * block_size + size
        BY <1>0, <3>3
      <4>3. j + FinishedBlocks(Len(ext)) \in Nat
        BY <3>3
      <4> QED
        BY <4>1, <4>2, <4>3
    <3> HIDE DEF size
    <3>5. /\ back \in Seq(Octets) /\ Len(back) = size
          /\ rest \in Seq(Octets) /\ Len(rest) = Len(ext) - size
      BY <2>5, <3>2, <3>3
    <3>6. back \o rest = ext
      <4>1. 1 \in 1 .. Len(ext) + 1 /\ size \in 1 - 1 .. Len(ext) /\ Len(ext) \in size .. Len(ext)
        BY <3>2, <3>3
      <4>2. back \o rest = SubSeq(ext, 1, Len(ext))
        BY <2>5, <4>1, ConcatAdjacentSubSeq
      <4> QED
        BY <2>5, <4>2, SubSeqFull
    <3> HIDE DEF back, rest
    <3>7. plain \o back \in Seq(Octets) /\ Len(plain \o back) = Len(plain) + size
      <4>1. plain \in Seq(Octets) /\ back \in Seq(Octets) /\ Len(back) = size
        BY <1>0, <3>5
      <4> QED
        BY <4>1, ConcatProperties
    <3>8. (plain \o back) \o rest = Received'
      <4>1. (plain \o back) \o rest = plain \o (back \o rest)
        BY <1>0, <3>5, Associates
      <4> QED
        BY <2>5, <2>7, <3>6, <4>1
    <3>9. Len(rest) >= block_size \/ plain \o back = << >>
      <4>1. CASE Len(ext) >= block_size
        BY <3>3, <3>5, <4>1
      <4>2. CASE Len(ext) < block_size
        <5>1. plain = << >>
          BY <1>0, <2>1, <2>5, <2>10, <3>2, <4>2 DEF Holds
        <5>2. Len(plain \o back) = 0
          BY <3>3, <3>7, <4>2, <5>1
        <5> QED
          BY <3>7, <5>2
      <4> QED
        BY <1>0, <3>2, <4>1, <4>2
    <3>10. Holds(block_size, plain \o back, rest, Received')
      BY <3>3, <3>5, <3>8, <3>9 DEF Holds
    <3> QED
      BY <2>8, <3>1, <3>4, <3>5, <3>7, <3>10
  <2> QED
    BY <1>0, <2>9, <2>10
<1> QED
  BY <1>0, <1>1, <1>2 DEF PaddingTypeOK

\* The verdict of finalize on a block and what was returned before it
LEMMA FinalizeAccepts ==
  ASSUME NEW a \in {"PKCS7", "ANSIX923"}, NEW bs \in 1 .. 255, NEW p \in Seq(Octets), NEW v \in Seq(Octets),
         NEW r, Holds(bs, p, v, r), NEW k \in Nat, Len(p) = k * bs
  PROVE  /\ Len(v) # bs \/ ~CheckPadding(a, v) => Accepts(a, bs, "ValueError", p, r)
         /\ Len(v) = bs /\ CheckPadding(a, v) =>
              Accepts(a, bs, "finalized", p \o SubSeq(v, 1, Len(v) - PadSize(v)), r)
<1> DEFINE Ends == {n \in 1 .. bs : IsSuffix(PaddingOf(a, n), r)}
<1>1. r = p \o v /\ Len(v) < 2 * bs /\ (Len(v) >= bs \/ p = << >>)
  BY DEF Holds
<1>2. Len(v) \in Nat /\ Len(p) \in Nat /\ r \in Seq(Octets) /\ Len(r) = k * bs + Len(v)
  <2>1. p \o v \in Seq(Octets) /\ Len(p \o v) = Len(p) + Len(v)
    BY ConcatProperties
  <2> QED
    BY <1>1, <2>1
<1>3. Len(r) % bs = 0 <=> Len(v) = 0 \/ Len(v) = bs
  <2>1. ASSUME NEW m \in Nat, m < 2 * bs
        PROVE  (k * bs + m) % bs = 0 <=> m = 0 \/ m = bs
    <3>0. bs \in Nat \ {0} /\ k * bs + m \in Nat
      OBVIOUS
    <3>1. CASE m < bs
      <4>1. m \in 0 .. bs - 1
        BY <3>1
      <4>2. (k * bs + m) % bs = m
        BY <3>0, <4>1, QuotientUnique
      <4> QED
        BY <3>1, <4>2
    <3>2. CASE m >= bs
      <4>1. k * bs + m = (k + 1) * bs + (m - bs) /\ m - bs \in 0 .. bs - 1 /\ k + 1 \in Nat
        BY <2>1, <3>2
      <4>2. ASSUME NEW j \in Nat, NEW i \in 0 .. bs - 1 PROVE (j * bs + i) % bs = i
        BY <3>0, QuotientUnique
      <4>3. (k * bs + m) % bs = m - bs
        BY <4>1, <4>2
      <4> QED
        BY <3>2, <4>3
    <3> QED
      BY <3>1, <3>2
  <2> QED
    BY <1>1, <1>2, <2>1
<1>4. ASSUME NEW n \in 1 .. bs, Len(v) >= bs
      PROVE  IsSuffix(PaddingOf(a, n), r) <=> EndsWell(a, v, n)
  <2>1. n \in 1 .. 255 /\ n \in 0 .. 255 /\ n <= Len(v)
    BY <1>2, <1>4
  <2>2. PaddingOf(a, n) \in Seq(Octets) /\ Len(PaddingOf(a, n)) = n
    BY <2>1, PaddingOfType
  <2>3. IsSuffix(PaddingOf(a, n), p \o v) <=> IsSuffix(PaddingOf(a, n), v)
    BY <2>1, <2>2, SuffixOfConcatenation
  <2> QED
    BY <1>1, <2>1, <2>3, EndsInPadding
<1>5. ASSUME Len(v) = 0 PROVE Ends = {}
  <2>1. p = << >> /\ Len(r) = 0
    BY <1>1, <1>2, <1>5
  <2>2. ASSUME NEW n \in 1 .. bs PROVE ~IsSuffix(PaddingOf(a, n), r)
    <3>1. n \in 0 .. 255
      OBVIOUS
    <3>2. PaddingOf(a, n) \in Seq(Octets) /\ Len(PaddingOf(a, n)) = n
      BY <3>1, PaddingOfType
    <3> QED
      BY <1>2, <2>1, <3>2, SuffixElements
  <2> QED
    BY <2>2
<1>6. ASSUME Len(v) = bs
      PROVE  /\ CheckPadding(a, v) <=> EndsWell(a, v, PadSize(v))
             /\ \A n : EndsWell(a, v, n) => n = PadSize(v) /\ n \in 1 .. bs
  <2>1. Len(v) >= 1 /\ Len(v) <= 255
    BY <1>6
  <2>2. CheckPadding(a, v) <=> EndsWell(a, v, PadSize(v))
    BY <2>1, ChecksExactly
  <2> QED
    BY <1>6, <2>2 DEF EndsWell, PadSize
<1>7. ASSUME Len(v) # bs \/ ~CheckPadding(a, v) PROVE Accepts(a, bs, "ValueError", p, r)
  <2>1. ~(Len(r) % bs = 0 /\ Ends # {})
    <3>1. CASE Len(v) = 0
      BY <1>5, <3>1
    <3>2. CASE Len(v) = bs
      <4>1. ~CheckPadding(a, v) /\ Len(v) >= bs
        BY <1>2, <1>7, <3>2
      <4>2. \A n \in 1 .. bs : ~IsSuffix(PaddingOf(a, n), r)
        BY <1>4, <1>6, <3>2, <4>1
      <4> QED
        BY <4>2
    <3>3. CASE Len(v) # 0 /\ Len(v) # bs
      BY <1>3, <3>3
    <3> QED
      BY <3>1, <3>2, <3>3
  <2> QED
    BY <2>1 DEF Accepts
<1>8. ASSUME Len(v) = bs, CheckPadding(a, v)
      PROVE  Accepts(a, bs, "finalized", p \o SubSeq(v, 1, Len(v) - PadSize(v)), r)
  <2> DEFINE n == PadSize(v)
             q == SubSeq(v, 1, Len(v) - n)
  <2>1. EndsWell(a, v, n) /\ n \in 1 .. bs /\ Len(v) >= bs
    BY <1>2, <1>6, <1>8
  <2> HIDE DEF n
  <2>2. n \in Ends
    BY <1>4, <2>1
  <2>3. Len(r) % bs = 0
    BY <1>3, <1>8
  <2>4. (p \o q) \o PaddingOf(a, n) = r
    <3>1. n \in 0 .. 255 /\ Len(v) - n \in Nat /\ Len(v) - n <= Len(v)
      BY <1>2, <2>1
    <3>2. q \in Seq(Octets) /\ Len(q) = Len(v) - n /\ \A i \in 1 .. Len(v) - n : q[i] = v[i]
      BY <1>2, <3>1
    <3>3. PaddingOf(a, n) \in Seq(Octets) /\ Len(PaddingOf(a, n)) = n
      BY <3>1, PaddingOfType
    <3>4. ASSUME NEW i \in 1 .. n PROVE v[Len(v) - n + i] = PaddingOf(a, n)[i]
      <4>1. PaddingOf(a, n)[i] = IF a = "PKCS7" \/ i = n THEN n ELSE 0
        BY DEF PaddingOf
      <4>2. CASE i = n
        <5>1. Len(v) - n + i = Len(v)
          BY <1>2, <3>1, <4>2
        <5> QED
          BY <2>1, <4>1, <4>2, <5>1 DEF EndsWell
      <4>3. CASE i # n
        <5>1. n - i \in 1 .. n - 1 /\ Len(v) - (n - i) = Len(v) - n + i
          BY <1>2, <3>1, <4>3
        <5>2. v[Len(v) - (n - i)] = IF a = "PKCS7" THEN n ELSE 0
          BY <2>1, <5>1 DEF EndsWell
        <5> QED
          BY <4>1, <4>3, <5>1, <5>2
      <4> QED
        BY <4>2, <4>3
    <3> HIDE DEF q
    <3>5. q \o PaddingOf(a, n) = v
      <4>1. /\ q \o PaddingOf(a, n) \in Seq(Octets) /\ Len(q \o PaddingOf(a, n)) = Len(v)
            /\ \A i \in 1 .. Len(v) : (q \o PaddingOf(a, n))[i] =
                  IF i <= Len(v) - n THEN q[i] ELSE PaddingOf(a, n)[i - (Len(v) - n)]
        <5> DEFINE b == PaddingOf(a, n)
        <5>1. b \in Seq(Octets) /\ Len(b) = n /\ n \in Nat
          BY <3>1, <3>3
        <5> HIDE DEF b
        <5>2. /\ q \o b \in Seq(Octets) /\ Len(q \o b) = Len(q) + Len(b)
              /\ \A i \in 1 .. Len(q) + Len(b) : (q \o b)[i] = IF i <= Len(q) THEN q[i] ELSE b[i - Len(q)]
          BY <3>2, <5>1, ConcatProperties
        <5>3. Len(q) + Len(b) = Len(v)
          BY <1>2, <3>2, <5>1
        <5>4. \A i \in 1 .. Len(v) : (q \o b)[i] = IF i <= Len(v) - n THEN q[i] ELSE b[i - (Len(v) - n)]
          BY <3>2, <5>2, <5>3
        <5> QED
          BY <5>2, <5>3, <5>4 DEF b
      <4>2. ASSUME NEW i \in 1 .. Len(v) PROVE (q \o PaddingOf(a, n))[i] = v[i]
        <5>1. CASE i <= Len(v) - n
          BY <1>2, <3>1, <3>2, <4>1, <5>1
        <5>2. CASE ~(i <= Len(v) - n)
          <6>1. i - (Len(v) - n) \in 1 .. n /\ Len(v) - n + (i - (Len(v) - n)) = i
            BY <1>2, <3>1, <5>2
          <6> QED
            BY <3>4, <4>1, <5>2, <6>1
        <5> QED
          BY <5>1, <5>2
      <4> QED
        BY <4>1, <4>2, SeqEqual
    <3> QED
      BY <1>1, <3>2, <3>3, <3>5, Associates
  <2> QED
    BY <2>2, <2>3, <2>4 DEF Accepts, n
<1> QED
  BY <1>7, <1>8

LEMMA UnpadFinalizeKeeps == ASSUME PaddingInv, UnpadFinalize PROVE PaddingInv'
<1>0. /\ PaddingTypeOK /\ WireIsPadded /\ ReturnsBlocks /\ HoldsLastBlock /\ AcceptsWellPadded
      /\ wire \in Seq(Octets) /\ received \in Nat /\ received <= Len(wire) /\ plain \in Seq(Octets)
      /\ block_size \in 0 .. 255 /\ algorithm \in {"PKCS7", "ANSIX923"}
  BY DEF PaddingInv, PaddingTypeOK
<1>u. UNCHANGED << algorithm, block_size, origin, received, padderVars >>
  BY DEF UnpadFinalize
<1>w. WireIsPadded' /\ Received' = Received
  BY <1>0, <1>u DEF WireIsPadded, padderVars, PadLength, Received
<1>1. CASE buffer = {}
  <2>1. UNCHANGED << buffer, unpadded, plain >>
    BY <1>1 DEF UnpadFinalize
  <2>2. PaddingTypeOK'
    BY <1>0, <1>u, <2>1 DEF PaddingTypeOK, padderVars
  <2> QED
    BY <1>u, <1>w, <2>1, <2>2, WireGrows DEF PaddingInv, unpadderVars
<1>2. ASSUME NEW v, buffer = {v} PROVE PaddingInv'
  <2>1. v \in Seq(Octets) /\ Holds(block_size, plain, v, Received)
    BY <1>0, <1>2, PropertiesOfTheState DEF PaddingTypeOK
  <2>2. buffer' = {}
    BY <1>2 DEF UnpadFinalize, AlreadyFinalized
  <2>3. \/ Len(v) # block_size /\ unpadded' = "ValueError" /\ plain' = plain
        \/ Len(v) = block_size /\ block_size = 0 /\ unpadded' = "panic" /\ plain' = plain
        \/ Len(v) = block_size /\ block_size > 0 /\ ~CheckPadding(algorithm, v)
           /\ unpadded' = "ValueError" /\ plain' = plain
        \/ Len(v) = block_size /\ block_size > 0 /\ CheckPadding(algorithm, v)
           /\ unpadded' = "finalized" /\ plain' = plain \o SubSeq(v, 1, Len(v) - PadSize(v))
    BY <1>2, Zenon DEF UnpadFinalize, AlreadyFinalized
  <2>4. ASSUME NEW p \in Seq(Octets), plain' = p, NEW verdict \in {"finalized", "ValueError", "panic"},
               unpadded' = verdict, verdict = "panic" => block_size = 0,
               Accepts(algorithm, block_size, verdict, p, Received)
        PROVE  PaddingInv'
    <3>1. PaddingTypeOK'
      BY <1>0, <1>u, <2>2, <2>4 DEF PaddingTypeOK, padderVars
    <3>2. HoldsLastBlock' /\ ReturnsBlocks'
      BY <1>u, <2>2, <2>4 DEF HoldsLastBlock, ReturnsBlocks
    <3>3. AcceptsWellPadded'
      BY <1>u, <1>w, <2>4, <3>1, PropertiesOfNextState
    <3> QED
      BY <1>w, <3>1, <3>2, <3>3 DEF PaddingInv
  <2>5. CASE block_size = 0
    <3>1. ASSUME NEW verdict PROVE Accepts(algorithm, block_size, verdict, plain, Received)
      BY <2>5 DEF Accepts
    <3>2. plain' = plain /\ unpadded' \in {"ValueError", "panic"}
      BY <2>3, <2>5
    <3> QED
      BY <1>0, <2>4, <2>5, <3>1, <3>2
  <2>6. CASE block_size > 0
    <3>1. block_size \in 1 .. 255
      BY <1>0, <2>6
    <3>2. PICK k \in Nat : Len(plain) = k * block_size
      BY <1>0, <1>2, <2>6 DEF ReturnsBlocks
    <3>3. /\ Len(v) # block_size \/ ~CheckPadding(algorithm, v) =>
                Accepts(algorithm, block_size, "ValueError", plain, Received)
          /\ Len(v) = block_size /\ CheckPadding(algorithm, v) =>
                Accepts(algorithm, block_size, "finalized",
                        plain \o SubSeq(v, 1, Len(v) - PadSize(v)), Received)
      BY <1>0, <2>1, <3>1, <3>2, FinalizeAccepts
    <3>4. CASE unpadded' = "ValueError"
      <4>1. plain' = plain /\ Accepts(algorithm, block_size, "ValueError", plain, Received)
        BY <2>3, <3>3, <3>4
      <4> QED
        BY <1>0, <2>4, <3>4, <4>1
    <3>5. CASE unpadded' # "ValueError"
      <4>1. /\ Len(v) = block_size /\ CheckPadding(algorithm, v) /\ unpadded' = "finalized"
            /\ plain' = plain \o SubSeq(v, 1, Len(v) - PadSize(v))
        <5>1. block_size # 0
          BY <3>1
        <5> QED
          BY <2>3, <3>5, <5>1, Zenon
      <4>2. Len(v) >= 1 /\ Len(v) <= 255
        BY <3>1, <4>1
      <4>3. PadSize(v) \in 1 .. Len(v)
        <5>1. EndsWell(algorithm, v, PadSize(v))
          BY <1>0, <2>1, <4>1, <4>2, ChecksExactly
        <5> QED
          BY <5>1 DEF EndsWell
      <4>4. SubSeq(v, 1, Len(v) - PadSize(v)) \in Seq(Octets)
        <5>1. Len(v) \in Nat
          BY <2>1
        <5>2. Len(v) - PadSize(v) \in Nat /\ Len(v) - PadSize(v) <= Len(v)
          BY <4>3, <5>1
        <5> QED
          BY <2>1, <5>2, PrefixOf
      <4>5. plain \o SubSeq(v, 1, Len(v) - PadSize(v)) \in Seq(Octets)
        BY <1>0, <4>4, ConcatProperties
      <4> QED
        BY <2>4, <3>3, <4>1, <4>5
    <3> QED
      BY <3>4, <3>5
  <2> QED
    BY <1>0, <2>5, <2>6
<1> QED
  BY <1>0, <1>1, <1>2 DEF PaddingTypeOK

LEMMA PaddingStep == PaddingInv /\ [PaddingNext]_paddingVars => PaddingInv'
<1> SUFFICES ASSUME PaddingInv, [PaddingNext]_paddingVars PROVE PaddingInv'
  OBVIOUS
<1>1. CASE UNCHANGED paddingVars
  <2>1. UNCHANGED << algorithm, block_size, origin, unpadderVars >> /\ UNCHANGED padderVars
    BY <1>1 DEF paddingVars
  <2>2. PaddingTypeOK' /\ WireIsPadded' /\ Received' = Received
    BY <2>1 DEF PaddingInv, PaddingTypeOK, WireIsPadded, padderVars, unpadderVars, PadLength, Received
  <2> QED
    BY <2>1, <2>2, WireGrows DEF PaddingInv
<1>2. ASSUME NEW data \in BoundedSeq(Alphabet(block_size), MaxMessage), PadUpdate(data) PROVE PaddingInv'
  BY <1>2, PadUpdateKeeps
<1>3. ASSUME PadFinalize PROVE PaddingInv'
  BY <1>3, PadFinalizeKeeps
<1>4. ASSUME NEW n \in 0 .. Len(wire) - received, UnpadUpdate(n) PROVE PaddingInv'
  BY <1>4, UnpadUpdateKeeps
<1>5. ASSUME UnpadFinalize PROVE PaddingInv'
  BY <1>5, UnpadFinalizeKeeps
<1> QED
  BY <1>1, <1>2, <1>3, <1>4, <1>5 DEF PaddingNext

\* A padding is the only end of its data that is one
LEMMA PaddingsDiffer ==
  ASSUME NEW a, NEW s \in Seq(Octets), NEW t \in Seq(Octets), NEW m \in 1 .. 255, NEW n \in 1 .. 255,
         s \o PaddingOf(a, m) = t \o PaddingOf(a, n)
  PROVE  s = t
<1> DEFINE p == PaddingOf(a, m)
           q == PaddingOf(a, n)
<1>1. m \in 0 .. 255 /\ n \in 0 .. 255
  OBVIOUS
<1>2. p \in Seq(Octets) /\ Len(p) = m /\ q \in Seq(Octets) /\ Len(q) = n
  BY <1>1, PaddingOfType
<1>3. p[m] = m /\ q[n] = n
  BY DEF PaddingOf
<1> HIDE DEF p, q
<1>4. /\ Len(s \o p) = Len(s) + m /\ Len(t \o q) = Len(t) + n /\ Len(s) \in Nat /\ Len(t) \in Nat
      /\ (s \o p)[Len(s) + m] = m /\ (t \o q)[Len(t) + n] = n
  <2>1. /\ Len(s \o p) = Len(s) + Len(p)
        /\ \A i \in 1 .. Len(s) + Len(p) : (s \o p)[i] = IF i <= Len(s) THEN s[i] ELSE p[i - Len(s)]
    BY <1>2, ConcatProperties
  <2>2. /\ Len(t \o q) = Len(t) + Len(q)
        /\ \A i \in 1 .. Len(t) + Len(q) : (t \o q)[i] = IF i <= Len(t) THEN t[i] ELSE q[i - Len(t)]
    BY <1>2, ConcatProperties
  <2>3. Len(s) \in Nat /\ Len(t) \in Nat
    OBVIOUS
  <2>4. Len(s) + m \in 1 .. Len(s) + m /\ ~(Len(s) + m <= Len(s)) /\ Len(s) + m - Len(s) = m
    BY <2>3
  <2>5. Len(t) + n \in 1 .. Len(t) + n /\ ~(Len(t) + n <= Len(t)) /\ Len(t) + n - Len(t) = n
    BY <2>3
  <2> QED
    BY <1>2, <1>3, <2>1, <2>2, <2>3, <2>4, <2>5
<1>5. m = n /\ p = q
  <2>1. s \o p = t \o q
    BY DEF p, q
  <2> QED
    BY <1>4, <2>1 DEF p, q
<1>6. s \o p = t \o p
  BY <1>5 DEF p, q
<1>7. Len(s) = Len(t)
  BY <1>4, <1>5, <1>6
<1>8. ASSUME NEW i \in 1 .. Len(s) PROVE s[i] = t[i]
  <2>1. (s \o p)[i] = s[i] /\ (t \o p)[i] = t[i]
    BY <1>2, <1>4, <1>7, ConcatProperties
  <2> QED
    BY <1>6, <2>1
<1> QED
  BY <1>7, <1>8, SeqEqual

\* The message comes back, as its padded form is accepted and has one padding
LEMMA RoundTrips == ASSUME PaddingInv PROVE RoundTrip
<1> SUFFICES ASSUME padded = "finalized"
             PROVE  /\ Len(wire) % block_size = 0
                    /\ received = Len(wire) /\ buffer = {} => unpadded = "finalized" /\ plain = message
  BY DEF RoundTrip
<1> DEFINE n == PadLength(Len(message))
           p == PaddingOf(algorithm, n)
<1>1. /\ block_size \in 0 .. 255 /\ block_size > 0 /\ algorithm \in {"PKCS7", "ANSIX923"}
      /\ message \in Seq(Octets) /\ plain \in Seq(Octets) /\ wire \in Seq(Octets) /\ wire = message \o p
  BY DEF PaddingInv, PaddingTypeOK, WireIsPadded
<1>2. Len(message) \in Nat
  BY <1>1
<1>3. n \in 1 .. block_size /\ n \in 0 .. 255 /\ (Len(message) + n) % block_size = 0
  BY <1>1, <1>2, PadLengthFits
<1> HIDE DEF n
<1>4. p \in Seq(Octets) /\ Len(p) = n
  BY <1>3, PaddingOfType
<1> HIDE DEF p
<1>5. Len(wire) = Len(message) + n
  BY <1>1, <1>4, ConcatProperties
<1>6. ASSUME received = Len(wire), buffer = {} PROVE unpadded = "finalized" /\ plain = message
  <2>1. Received = wire
    BY <1>1, <1>6, SubSeqFull DEF Received
  <2>2. unpadded \in {"finalized", "ValueError"}
    BY <1>1, <1>6 DEF PaddingInv, PaddingTypeOK, ReturnsBlocks
  <2>3. Accepts(algorithm, block_size, unpadded, plain, wire)
    BY <2>1, PropertiesOfTheState DEF PaddingInv
  <2>4. IsSuffix(p, wire)
    <3>1. IsSuffix(p, p)
      BY <1>4, SuffixElements
    <3>2. Len(p) <= Len(p)
      BY <1>3, <1>4
    <3> QED
      BY <1>1, <1>4, <3>1, <3>2, SuffixOfConcatenation
  <2>5. Len(wire) % block_size = 0
    BY <1>3, <1>5
  <2>6. n \in {k \in 1 .. block_size : IsSuffix(PaddingOf(algorithm, k), wire)}
    BY <1>3, <2>4 DEF p
  <2>7. unpadded = "finalized"
    BY <1>1, <2>2, <2>3, <2>5, <2>6 DEF Accepts
  <2>8. PICK m \in 1 .. block_size : plain \o PaddingOf(algorithm, m) = wire
    BY <1>1, <2>3, <2>7 DEF Accepts
  <2>9. m \in 1 .. 255 /\ n \in 1 .. 255
    BY <1>1, <1>3
  <2> QED
    BY <1>1, <2>7, <2>8, <2>9, PaddingsDiffer DEF p
<1> QED
  BY <1>3, <1>5, <1>6

\* The invariant of the padding contexts: the wire is the message and in the end
\* its padding, and the unpadder holds the last block until it is finalized
THEOREM PaddingInvariant == PaddingSpec => []PaddingInv
BY PaddingInitial, PaddingStep, PTL DEF PaddingSpec

\* UnpaddingContext::update returns every block but the last whole one, whatever
\* the pieces it is given
THEOREM UnpadderHoldsLastBlock == PaddingSpec => []HoldsLastBlock
<1>1. PaddingInv => HoldsLastBlock
  BY DEF PaddingInv
<1> QED
  BY <1>1, PaddingInvariant, PTL

\* The unpadders accept exactly the data of whole blocks that ends in a padding,
\* for every byte value and block size, and give back what was padded
THEOREM PaddingsAreCorrect == PaddingSpec => []PaddingCorrect
<1>1. PaddingInv => PaddingCorrect
  BY RoundTrips DEF PaddingInv, PaddingCorrect
<1> QED
  BY <1>1, PaddingInvariant, PTL
=============================================================================
