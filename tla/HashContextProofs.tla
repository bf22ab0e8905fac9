-------------------------- MODULE HashContextProofs --------------------------
(***************************************************************************)
(* Proofs about the hash and MAC contexts of module HashContext, for any   *)
(* number of objects and copies, any input and any digest size.            *)
(***************************************************************************)
EXTENDS HashContext, TLAPS

\* No two objects refer to the same context
OwnContext == \A o \in Objects : ctx[o] \subseteq {o}

\* A context holds what its object was given, is as far as the object's stream,
\* and is only finished once the object was squeezed
ContextAgrees ==
  \A o \in Objects : o \in ctx[o] =>
    /\ evp[o].data = given[o]
    /\ evp[o].taken = stream[o]
    /\ evp[o].finished => squeezed[o]

\* An object that has its context has not answered; one that was not made yet
\* has neither
NotAnswered ==
  \A o \in Objects : /\ o \in ctx[o] => o \in exists /\ answers[o] = 0
                     /\ o \notin exists => answers[o] = 0

HashInv ==
  /\ TypeOK /\ OwnContext /\ ContextAgrees /\ NotAnswered
  /\ DigestOfInput /\ VerdictOfInput /\ OneAnswer /\ SqueezeLimit

LEMMA HashInit == Init => HashInv
<1> SUFFICES ASSUME Init PROVE HashInv
  OBVIOUS
<1> USE HashAssumption
<1>1. NewEvp \in EvpContexts
  BY DEF NewEvp, EvpContexts
<1>2. TypeOK
  <2>1. evp \in [Objects -> EvpContexts]
    BY <1>1 DEF Init
  <2>2. ctx \in [Objects -> SUBSET Objects] /\ exists \subseteq Objects
    BY DEF Init
  <2>3. bytes_remaining \in [Objects -> 0 .. DigestSize] /\ given \in [Objects -> Seq(Chunks)]
    BY DEF Init
  <2>4. QED
    BY <2>1, <2>2, <2>3 DEF Init, TypeOK, Ops, Results
<1>3. OwnContext /\ NotAnswered /\ OneAnswer
  BY DEF Init, OwnContext, NotAnswered, OneAnswer
<1>4. ContextAgrees
  BY DEF Init, ContextAgrees, NewEvp
<1>5. DigestOfInput /\ VerdictOfInput /\ SqueezeLimit
  BY DEF Init, DigestOfInput, VerdictOfInput, SqueezeLimit
<1>6. QED
  BY <1>2, <1>3, <1>4, <1>5 DEF HashInv

\* What a call returns that gives neither a digest nor a verdict
LEMMA PlainReturn ==
  ASSUME NEW op \in Ops, NEW o \in Objects, NEW r \in Results, Returns(op, o, r),
         op \in {"finalize", "squeeze"} => r # "ok",
         op = "verify" => r \notin {"ok", "InvalidSignature"}
  PROVE  /\ last'.op \in Ops /\ last'.obj \in Objects /\ last'.result \in Results
         /\ DigestOfInput' /\ VerdictOfInput'
BY DEF Returns, DigestOfInput, VerdictOfInput

LEMMA UpdateInv ==
  ASSUME HashInv, NEW o \in Objects, NEW d \in Chunks, Update(o, d)
  PROVE  HashInv'
<1> USE HashAssumption DEF HashInv
<1>1. UNCHANGED << kind, exists, ctx, squeezed, bytes_remaining, stream, answers >>
  BY DEF Update
<1>2. /\ last'.op \in Ops /\ last'.obj \in Objects /\ last'.result \in Results
      /\ DigestOfInput' /\ VerdictOfInput'
  BY PlainReturn DEF Update, Ops, Results
<1>3. CASE UNCHANGED << evp, given >>
  BY <1>1, <1>2, <1>3 DEF TypeOK, OwnContext, ContextAgrees, NotAnswered, OneAnswer, SqueezeLimit
<1>4. CASE /\ MayUpdate(o)
           /\ evp' = [c \in Objects |-> IF c \in ctx[o] THEN EvpUpdate(evp[c], d) ELSE evp[c]]
           /\ given' = [given EXCEPT ![o] = Append(@, d)]
  <2>1. o \in ctx[o] /\ \A c \in Objects : c \in ctx[o] <=> c = o
    BY <1>4 DEF MayUpdate, OwnContext
  <2>2. evp[o] \in EvpContexts /\ ~evp[o].finished /\ given[o] \in Seq(Chunks)
    BY <1>4, <2>1 DEF MayUpdate, ContextAgrees, TypeOK
  <2>3. EvpUpdate(evp[o], d) = [evp[o] EXCEPT !.data = Append(@, d)]
    BY <2>2 DEF EvpUpdate
  <2>4. EvpUpdate(evp[o], d) \in EvpContexts
    <3> DEFINE data == Append(evp[o].data, d)
    <3>1. data \in Seq(Chunks)
      BY <2>2 DEF EvpContexts
    <3>2. EvpUpdate(evp[o], d) = [evp[o] EXCEPT !.data = data]
      BY <2>3
    <3> HIDE DEF data
    <3>3. QED
      BY <2>2, <3>1, <3>2 DEF EvpContexts
  <2>5. evp' \in [Objects -> EvpContexts] /\ given' \in [Objects -> Seq(Chunks)]
    BY <1>4, <2>1, <2>2, <2>4 DEF TypeOK
  <2>6. TypeOK'
    BY <1>1, <1>2, <2>5 DEF TypeOK
  <2>7. ContextAgrees'
    <3> SUFFICES ASSUME NEW p \in Objects, p \in ctx'[p]
                 PROVE  /\ evp'[p].data = given'[p]
                        /\ evp'[p].taken = stream'[p]
                        /\ evp'[p].finished => squeezed'[p]
      BY DEF ContextAgrees
    <3>1. CASE p = o
      <4>1. evp'[p] = [evp[o] EXCEPT !.data = Append(@, d)] /\ given'[p] = Append(given[o], d)
        BY <1>4, <2>1, <2>3, <3>1 DEF TypeOK
      <4>2. evp'[p].data = Append(evp[o].data, d) /\ evp'[p].taken = evp[o].taken
            /\ evp'[p].finished = evp[o].finished
        BY <2>2, <4>1 DEF EvpContexts
      <4>3. QED
        BY <1>1, <2>1, <3>1, <4>1, <4>2 DEF ContextAgrees
    <3>2. CASE p # o
      BY <1>1, <1>4, <2>1, <3>2 DEF ContextAgrees, TypeOK
    <3>3. QED
      BY <3>1, <3>2
  <2>8. QED
    BY <1>1, <1>2, <2>6, <2>7 DEF OwnContext, NotAnswered, OneAnswer, SqueezeLimit
<1>5. QED
  BY <1>3, <1>4 DEF Update

\* What finalize and verify do to the objects when OpenSSL answers
LEMMA FinishInv ==
  ASSUME HashInv, NEW o \in Objects, ctx[o] # {}, o \in exists, Finish(o),
         UNCHANGED << kind, exists, squeezed, bytes_remaining, given, stream >>,
         last'.op \in Ops, last'.obj \in Objects, last'.result \in Results,
         DigestOfInput', VerdictOfInput'
  PROVE  HashInv'
<1> USE HashAssumption DEF HashInv
<1>1. o \in ctx[o] /\ answers[o] = 0 /\ \A c \in Objects : c \in ctx[o] <=> c = o
  BY DEF OwnContext, NotAnswered
<1>2. EvpFinish(evp[o]) \in EvpContexts
  BY DEF TypeOK, EvpFinish, EvpContexts
<1>3. evp' \in [Objects -> EvpContexts] /\ \A p \in Objects : p # o => evp'[p] = evp[p]
  BY <1>1, <1>2 DEF Finish, TypeOK
<1>4. /\ ctx' \in [Objects -> SUBSET Objects] /\ ctx'[o] = {}
      /\ \A p \in Objects : p # o => ctx'[p] = ctx[p]
  BY DEF Finish, TypeOK
<1>5. /\ answers' \in [Objects -> Nat] /\ answers'[o] = 1
      /\ \A p \in Objects : p # o => answers'[p] = answers[p]
  BY <1>1 DEF Finish, TypeOK
<1>6. TypeOK'
  BY <1>3, <1>4, <1>5 DEF TypeOK
<1>7. OwnContext' /\ NotAnswered' /\ OneAnswer' /\ SqueezeLimit'
  BY <1>4, <1>5 DEF OwnContext, NotAnswered, OneAnswer, SqueezeLimit
<1>8. ContextAgrees'
  BY <1>3, <1>4 DEF ContextAgrees
<1>9. QED
  BY <1>6, <1>7, <1>8

\* and when it does not, or when the object was finalized
LEMMA NoAnswerInv ==
  ASSUME HashInv, NEW o \in Objects,
         UNCHANGED << kind, exists, evp, squeezed, bytes_remaining, given, stream, answers >>,
         UNCHANGED ctx \/ ctx' = [ctx EXCEPT ![o] = {}],
         last'.op \in Ops, last'.obj \in Objects, last'.result \in Results,
         DigestOfInput', VerdictOfInput'
  PROVE  HashInv'
<1>1. ctx' \in [Objects -> SUBSET Objects] /\ \A p \in Objects : ctx'[p] \subseteq ctx[p]
  BY DEF HashInv, TypeOK
<1>2. TypeOK'
  BY <1>1 DEF HashInv, TypeOK
<1>3. QED
  BY <1>1, <1>2 DEF HashInv, OwnContext, ContextAgrees, NotAnswered, OneAnswer, SqueezeLimit

LEMMA FinalizeInv ==
  ASSUME HashInv, NEW o \in Objects, Finalize(o)
  PROVE  HashInv'
<1>1. UNCHANGED << kind, exists, squeezed, bytes_remaining, given, stream >> /\ o \in exists
  BY DEF Finalize
<1>2. CASE Returns("finalize", o, "AlreadyFinalized") /\ UNCHANGED << ctx, evp, answers >>
  <2>1. /\ last'.op \in Ops /\ last'.obj \in Objects /\ last'.result \in Results
        /\ DigestOfInput' /\ VerdictOfInput'
    BY <1>2, PlainReturn DEF Ops, Results
  <2>2. QED
    BY <1>1, <1>2, <2>1, NoAnswerInv
<1>3. CASE \E result \in {"Error", "panic"} :
             ctx[o] # {} /\ FailedFinish(o, result) /\ Returns("finalize", o, result)
  <2>1. /\ last'.op \in Ops /\ last'.obj \in Objects /\ last'.result \in Results
        /\ DigestOfInput' /\ VerdictOfInput'
    BY <1>3, PlainReturn DEF Ops, Results
  <2>2. /\ UNCHANGED << evp, answers >>
        /\ UNCHANGED ctx \/ ctx' = [ctx EXCEPT ![o] = {}]
    BY <1>3 DEF FailedFinish
  <2>3. QED
    BY <1>1, <2>1, <2>2, NoAnswerInv
<1>4. ASSUME NEW c \in ctx[o], Finish(o),
             last' = [op |-> "finalize", obj |-> o, result |-> "ok", of |-> evp[c].data,
                      from |-> 0, length |-> DigestSize]
      PROVE  HashInv'
  <2>1. c = o /\ evp[c].data = given[o]
    BY <1>4 DEF HashInv, OwnContext, ContextAgrees
  <2>2. DigestOfInput' /\ VerdictOfInput'
    BY <1>1, <1>4, <2>1 DEF DigestOfInput, VerdictOfInput
  <2>3. QED
    BY <1>1, <1>4, <2>2, FinishInv DEF Ops, Results
<1>5. QED
  BY <1>2, <1>3, <1>4 DEF Finalize

LEMMA VerifyInv ==
  ASSUME HashInv, NEW o \in Objects, NEW s \in Signatures, Verify(o, s)
  PROVE  HashInv'
<1>1. UNCHANGED << kind, exists, squeezed, bytes_remaining, given, stream >> /\ o \in exists
  BY DEF Verify
<1>2. CASE Returns("verify", o, "AlreadyFinalized") /\ UNCHANGED << ctx, evp, answers >>
  <2>1. /\ last'.op \in Ops /\ last'.obj \in Objects /\ last'.result \in Results
        /\ DigestOfInput' /\ VerdictOfInput'
    BY <1>2, PlainReturn DEF Ops, Results
  <2>2. QED
    BY <1>1, <1>2, <2>1, NoAnswerInv
<1>3. CASE \E result \in {"Error", "panic"} :
             ctx[o] # {} /\ FailedFinish(o, result) /\ Returns("verify", o, result)
  <2>1. /\ last'.op \in Ops /\ last'.obj \in Objects /\ last'.result \in Results
        /\ DigestOfInput' /\ VerdictOfInput'
    BY <1>3, PlainReturn DEF Ops, Results
  <2>2. /\ UNCHANGED << evp, answers >>
        /\ UNCHANGED ctx \/ ctx' = [ctx EXCEPT ![o] = {}]
    BY <1>3 DEF FailedFinish
  <2>3. QED
    BY <1>1, <2>1, <2>2, NoAnswerInv
<1>4. ASSUME NEW c \in ctx[o], AfterVerify(o, Matches(s, evp[c].data)),
             last' = [op |-> "verify", obj |-> o,
                      result |-> IF Matches(s, evp[c].data) THEN "ok" ELSE "InvalidSignature",
                      of |-> s.of, from |-> 0, length |-> IF s.whole THEN DigestSize ELSE 0]
      PROVE  HashInv'
  <2>1. c = o /\ evp[c].data = given[o]
    BY <1>4 DEF HashInv, OwnContext, ContextAgrees
  <2>2. Matches(s, evp[c].data) <=> s.of = given[o] /\ last'.length = DigestSize
    <3>1. last'.length = IF s.whole THEN DigestSize ELSE 0
      BY <1>4
    <3>2. last'.length = DigestSize <=> s.whole
      BY <3>1, HashAssumption
    <3>3. QED
      BY <2>1, <3>2 DEF Matches
  <2>3. DigestOfInput' /\ VerdictOfInput'
    BY <1>1, <1>4, <2>2 DEF DigestOfInput, VerdictOfInput
  <2>4. Finish(o) /\ last'.op \in Ops /\ last'.obj \in Objects /\ last'.result \in Results
    BY <1>4 DEF AfterVerify, Ops, Results
  <2>5. QED
    BY <1>1, <1>4, <2>3, <2>4, FinishInv
<1>5. QED
  BY <1>2, <1>3, <1>4 DEF Verify

LEMMA SqueezeInv ==
  ASSUME HashInv, NEW o \in Objects, NEW n \in Nat, Squeeze(o, n)
  PROVE  HashInv'
<1> USE HashAssumption DEF HashInv
<1>1. UNCHANGED << kind, exists, ctx, given, answers >> /\ o \in exists
      /\ squeezed' = [squeezed EXCEPT ![o] = TRUE]
  BY DEF Squeeze
<1>2. squeezed' \in [Objects -> BOOLEAN] /\ squeezed'[o]
      /\ \A p \in Objects : squeezed[p] => squeezed'[p]
  BY <1>1 DEF TypeOK
<1>3. OwnContext' /\ NotAnswered' /\ OneAnswer'
  BY <1>1 DEF OwnContext, NotAnswered, OneAnswer
<1>4. CASE Returns("squeeze", o, "ValueError") /\ UNCHANGED << evp, bytes_remaining, stream >>
  <2>1. /\ last'.op \in Ops /\ last'.obj \in Objects /\ last'.result \in Results
        /\ DigestOfInput' /\ VerdictOfInput'
    BY <1>4, PlainReturn DEF Ops, Results
  <2>2. TypeOK'
    BY <1>1, <1>2, <1>4, <2>1 DEF TypeOK
  <2>3. QED
    BY <1>1, <1>2, <1>3, <1>4, <2>1, <2>2 DEF ContextAgrees, SqueezeLimit
<1>5. CASE ~OverLimit(o, n) /\ bytes_remaining' = [bytes_remaining EXCEPT ![o] = @ - n]
  <2>1. /\ bytes_remaining' \in [Objects -> 0 .. DigestSize]
        /\ bytes_remaining'[o] = bytes_remaining[o] - n
        /\ \A p \in Objects : p # o => bytes_remaining'[p] = bytes_remaining[p]
    <3>1. bytes_remaining \in [Objects -> 0 .. DigestSize]
      BY DEF TypeOK
    <3>2. bytes_remaining[o] - n \in 0 .. DigestSize
      BY <1>5, <3>1, HashAssumption DEF OverLimit
    <3>3. QED
      BY <1>5, <3>1, <3>2
  <2>2. CASE Returns("squeeze", o, "panic") /\ UNCHANGED << evp, stream >>
    <3>1. /\ last'.op \in Ops /\ last'.obj \in Objects /\ last'.result \in Results
          /\ DigestOfInput' /\ VerdictOfInput'
      BY <2>2, PlainReturn DEF Ops, Results
    <3>2. TypeOK'
      BY <1>1, <1>2, <2>1, <2>2, <3>1 DEF TypeOK
    <3>3. SqueezeLimit'
      <4> SUFFICES ASSUME NEW p \in exists PROVE stream[p] + bytes_remaining'[p] <= DigestSize
        BY <1>1, <2>2 DEF SqueezeLimit
      <4>1. /\ p \in Objects /\ stream[p] \in Nat /\ bytes_remaining[p] \in Nat
            /\ stream[p] + bytes_remaining[p] <= DigestSize
        BY DEF SqueezeLimit, TypeOK
      <4>2. bytes_remaining'[p] \in Nat /\ bytes_remaining'[p] <= bytes_remaining[p]
        BY <2>1, <4>1
      <4>3. QED
        BY <4>1, <4>2
    <3>4. QED
      BY <1>1, <1>2, <1>3, <2>2, <3>1, <3>2, <3>3 DEF ContextAgrees
  <2>3. ASSUME NEW c \in ctx[o],
               evp' = [evp EXCEPT ![c] = EvpSqueeze(@, n)],
               stream' = [stream EXCEPT ![o] = @ + n],
               last' = [op |-> "squeeze", obj |-> o, result |-> "ok", of |-> evp[c].data,
                        from |-> evp[c].taken, length |-> n]
        PROVE  HashInv'
    <3>1. c = o /\ evp[o].data = given[o] /\ evp[o].taken = stream[o]
      BY <2>3 DEF OwnContext, ContextAgrees
    <3>2. /\ EvpSqueeze(evp[o], n) \in EvpContexts
          /\ EvpSqueeze(evp[o], n).data = evp[o].data
          /\ EvpSqueeze(evp[o], n).taken = evp[o].taken + n
      <4> DEFINE t == evp[o].taken + n
      <4>1. evp[o] \in EvpContexts
        BY DEF TypeOK
      <4>2. evp[o] \in EvpContexts /\ evp[o].taken \in Nat
        BY <4>1 DEF EvpContexts
      <4>3. t \in Nat
        BY <4>2
      <4>4. EvpSqueeze(evp[o], n) = [evp[o] EXCEPT !.taken = t, !.finished = TRUE]
        BY DEF EvpSqueeze
      <4> HIDE DEF t
      <4>5. /\ EvpSqueeze(evp[o], n) \in EvpContexts
            /\ EvpSqueeze(evp[o], n).data = evp[o].data
            /\ EvpSqueeze(evp[o], n).taken = t
        BY <4>2, <4>4, <4>3 DEF EvpContexts
      <4>6. QED
        BY <4>5 DEF t
    <3>3. /\ evp' \in [Objects -> EvpContexts] /\ evp'[o] = EvpSqueeze(evp[o], n)
          /\ \A p \in Objects : p # o => evp'[p] = evp[p]
      BY <2>3, <3>1, <3>2 DEF TypeOK
    <3>4. /\ stream' \in [Objects -> Nat] /\ stream'[o] = stream[o] + n
          /\ \A p \in Objects : p # o => stream'[p] = stream[p]
      <4> DEFINE t == stream[o] + n
      <4>1. stream \in [Objects -> Nat] /\ stream[o] \in Nat
        BY DEF TypeOK
      <4>2. t \in Nat /\ stream' = [stream EXCEPT ![o] = t]
        BY <2>3, <4>1
      <4> HIDE DEF t
      <4>3. /\ stream' \in [Objects -> Nat] /\ stream'[o] = t
            /\ \A p \in Objects : p # o => stream'[p] = stream[p]
        BY <4>1, <4>2
      <4>4. QED
        BY <4>3 DEF t
    <3>5. DigestOfInput' /\ VerdictOfInput'
      BY <1>1, <2>3, <3>1, <3>4 DEF DigestOfInput, VerdictOfInput
    <3>6. TypeOK'
      BY <1>1, <1>2, <2>1, <2>3, <3>3, <3>4 DEF TypeOK, Ops, Results
    <3>7. ContextAgrees'
      BY <1>1, <1>2, <3>1, <3>2, <3>3, <3>4 DEF ContextAgrees
    <3>8. SqueezeLimit'
      <4> SUFFICES ASSUME NEW p \in exists PROVE stream'[p] + bytes_remaining'[p] <= DigestSize
        BY <1>1 DEF SqueezeLimit
      <4>1. /\ p \in Objects /\ stream[p] \in Nat /\ bytes_remaining[p] \in Nat
            /\ stream[p] + bytes_remaining[p] <= DigestSize
        BY DEF SqueezeLimit, TypeOK
      <4>2. CASE p = o
        <5>1. stream'[p] = stream[p] + n /\ bytes_remaining'[p] = bytes_remaining[p] - n
          BY <2>1, <3>4, <4>2
        <5>2. QED
          BY <4>1, <5>1
      <4>3. CASE p # o
        BY <2>1, <3>4, <4>1, <4>3
      <4>4. QED
        BY <4>2, <4>3
    <3>9. QED
      BY <1>3, <3>5, <3>6, <3>7, <3>8
  <2>4. QED
    BY <1>5, <2>2, <2>3 DEF Squeeze, OverLimit
<1>6. QED
  BY <1>4, <1>5 DEF Squeeze

LEMMA CopyInv ==
  ASSUME HashInv, NEW o \in Objects, NEW p \in Objects, Copy(o, p)
  PROVE  HashInv'
<1> USE HashAssumption DEF HashInv
<1>1. UNCHANGED << kind, answers >> /\ o \in exists /\ p \notin exists
  BY DEF Copy
<1>2. /\ last'.op \in Ops /\ last'.obj \in Objects /\ last'.result \in Results
      /\ DigestOfInput' /\ VerdictOfInput'
  BY PlainReturn DEF Copy, Ops, Results
<1>3. CASE UNCHANGED << exists, ctx, evp, squeezed, bytes_remaining, given, stream >>
  BY <1>1, <1>2, <1>3, NoAnswerInv
<1>4. ASSUME NEW c \in ctx[o],
             exists' = exists \cup {p},
             ctx' = [ctx EXCEPT ![p] = CopiedContext(o, p)],
             evp' = [evp EXCEPT ![p] = evp[c]],
             squeezed' = [squeezed EXCEPT ![p] = squeezed[o]],
             bytes_remaining' = [bytes_remaining EXCEPT ![p] = CopiedRemaining(o)],
             given' = [given EXCEPT ![p] = given[o]],
             stream' = [stream EXCEPT ![p] = stream[o]]
      PROVE  HashInv'
  <2>1. c = o /\ o \in ctx[o]
    BY <1>4 DEF OwnContext
  <2>2. /\ ctx' \in [Objects -> SUBSET Objects] /\ ctx'[p] = {p}
        /\ evp' \in [Objects -> EvpContexts] /\ evp'[p] = evp[o]
        /\ squeezed' \in [Objects -> BOOLEAN] /\ squeezed'[p] = squeezed[o]
    BY <1>4, <2>1 DEF TypeOK, CopiedContext
  <2>3. /\ bytes_remaining' \in [Objects -> 0 .. DigestSize]
        /\ bytes_remaining'[p] = bytes_remaining[o]
        /\ given' \in [Objects -> Seq(Chunks)] /\ given'[p] = given[o]
        /\ stream' \in [Objects -> Nat] /\ stream'[p] = stream[o]
    BY <1>4 DEF TypeOK, CopiedRemaining
  <2>4. \A q \in Objects : q # p =>
          /\ ctx'[q] = ctx[q] /\ evp'[q] = evp[q] /\ squeezed'[q] = squeezed[q]
          /\ bytes_remaining'[q] = bytes_remaining[q] /\ given'[q] = given[q] /\ stream'[q] = stream[q]
    BY <1>4 DEF TypeOK
  <2>5. TypeOK'
    BY <1>1, <1>2, <1>4, <2>2, <2>3 DEF TypeOK
  <2>6. OwnContext' /\ NotAnswered' /\ OneAnswer'
    BY <1>1, <1>4, <2>2, <2>4 DEF OwnContext, NotAnswered, OneAnswer
  <2>7. ContextAgrees'
    <3> SUFFICES ASSUME NEW q \in Objects, q \in ctx'[q]
                 PROVE  /\ evp'[q].data = given'[q]
                        /\ evp'[q].taken = stream'[q]
                        /\ evp'[q].finished => squeezed'[q]
      BY DEF ContextAgrees
    <3>1. CASE q = p
      BY <2>1, <2>2, <2>3, <3>1 DEF ContextAgrees
    <3>2. CASE q # p
      BY <2>4, <3>2 DEF ContextAgrees
    <3>3. QED
      BY <3>1, <3>2
  <2>8. SqueezeLimit'
    BY <1>1, <1>4, <2>3, <2>4 DEF SqueezeLimit, TypeOK
  <2>9. QED
    BY <1>2, <2>5, <2>6, <2>7, <2>8
<1>5. QED
  BY <1>3, <1>4 DEF Copy

LEMMA HashNext == HashInv /\ [Next]_vars => HashInv'
<1> SUFFICES ASSUME HashInv, [Next]_vars PROVE HashInv'
  OBVIOUS
<1>1. CASE UNCHANGED vars
  BY <1>1 DEF vars, HashInv, TypeOK, OwnContext, ContextAgrees, NotAnswered, DigestOfInput,
              VerdictOfInput, OneAnswer, SqueezeLimit
<1>2. CASE \E o \in Objects, n \in Lengths : Squeeze(o, n)
  BY <1>2, SqueezeInv, HashAssumption
<1>3. QED
  BY <1>1, <1>2, UpdateInv, FinalizeInv, VerifyInv, CopyInv DEF Next

LEMMA HashInvariant == Spec => []HashInv
BY HashInit, HashNext, PTL DEF Spec

\* Every digest and every squeezed byte belongs to the input of its object, the
\* part it shares with the object it was copied from included
THEOREM DigestsCorrect == Spec => []DigestOfInput
<1>1. HashInv => DigestOfInput
  BY DEF HashInv
<1>2. QED
  BY <1>1, HashInvariant, PTL

\* verify accepts exactly the digest of the object's input
THEOREM VerdictsCorrect == Spec => []VerdictOfInput
<1>1. HashInv => VerdictOfInput
  BY DEF HashInv
<1>2. QED
  BY <1>1, HashInvariant, PTL

\* An object gives at most one digest or verdict, whatever failed before
THEOREM AnswersOnce == Spec => []OneAnswer
<1>1. HashInv => OneAnswer
  BY DEF HashInv
<1>2. QED
  BY <1>1, HashInvariant, PTL

\* No chain of copies gets more than digest_size bytes out of an XOFHash
THEOREM SqueezesLimited == Spec => []SqueezeLimit
<1>1. HashInv => SqueezeLimit
  BY DEF HashInv
<1>2. QED
  BY <1>1, HashInvariant, PTL
==============================================================================
