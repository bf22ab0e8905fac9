----------------------------- MODULE HashContext -----------------------------
(***************************************************************************)
(* The hash and MAC contexts (backend/hashes.rs, hmac.rs, cmac.rs,         *)
(* poly1305.rs): one object and the copies made of it, each around an      *)
(* OpenSSL context of its own.                                             *)
(*                                                                         *)
(* A digest is represented by the input it belongs to.  Contexts live in   *)
(* evp, apart from the objects that refer to them, so that a copy that     *)
(* shared its context could be told from one that does not.  Any call of   *)
(* OpenSSL may fail; one that fails changes nothing.                       *)
(***************************************************************************)
EXTENDS Integers, Sequences

CONSTANTS
  Objects,              \* the objects, and the OpenSSL contexts
  First,                \* the object that is made with new; the others are copies
  Chunks,               \* the data a caller passes to update
  DigestSize,           \* digest_size of the algorithm, the limit of an XOFHash
  Lengths,              \* the lengths a caller squeezes
  Signatures,           \* what a caller verifies: [of, whole]
  MaxInput              \* bound: updates of an object

ASSUME HashAssumption ==
  /\ First \in Objects
  /\ DigestSize \in Nat \ {0} /\ Lengths \subseteq Nat /\ MaxInput \in Nat
  /\ \A s \in Signatures : s.whole \in BOOLEAN

Kinds == {"Hash", "HashOfXOF", "XOFHash", "HMAC", "CMAC", "Poly1305"}

VARIABLES
  kind,
  exists,               \* the objects made so far
  ctx,                  \* of an object: a set of one context, {} for None
  evp,                  \* of a context: [data, taken, finished]
  squeezed,
  bytes_remaining,
  given,                \* what the object, or what it is a copy of, was given
  stream,               \* bytes squeezed from the object and what it is a copy of
  answers,              \* digests and verdicts the object has given
  last                  \* the last call: [op, obj, result, of, from, length]

vars == << kind, exists, ctx, evp, squeezed, bytes_remaining, given, stream, answers, last >>

-----------------------------------------------------------------------------
(* OpenSSL, as the openssl crate wraps it                                  *)

NewEvp == [data |-> << >>, taken |-> 0, finished |-> FALSE]

\* A Hasher that is updated after it was finished starts over
EvpUpdate(c, d) ==
  IF c.finished THEN [data |-> << d >>, taken |-> 0, finished |-> FALSE]
                ELSE [c EXCEPT !.data = Append(@, d)]

EvpFinish(c) == [c EXCEPT !.finished = TRUE]

\* squeeze_xof continues where it stopped
EvpSqueeze(c, n) == [c EXCEPT !.taken = @ + n, !.finished = TRUE]

-----------------------------------------------------------------------------
(* The methods                                                             *)

Init ==
  /\ kind \in Kinds
  /\ exists = {First}
  /\ ctx = [o \in Objects |-> IF o = First THEN {First} ELSE {}]
  /\ evp = [c \in Objects |-> NewEvp]
  /\ squeezed = [o \in Objects |-> FALSE]
  /\ bytes_remaining = [o \in Objects |-> DigestSize]
  /\ given = [o \in Objects |-> << >>]
  /\ stream = [o \in Objects |-> 0]
  /\ answers = [o \in Objects |-> 0]
  /\ last = [op |-> "new", obj |-> First, result |-> "ok", of |-> << >>, from |-> 0, length |-> 0]

Returns(op, o, result) ==
  last' = [op |-> op, obj |-> o, result |-> result, of |-> << >>, from |-> 0, length |-> 0]

\* get_ctx and get_mut_ctx refuse; an XOFHash has no Option but a flag
MayUpdate(o) == ctx[o] # {} /\ ~squeezed[o]

Update(o, d) ==
  /\ o \in exists /\ Len(given[o]) < MaxInput
  /\ \/ ~MayUpdate(o) /\ Returns("update", o, "AlreadyFinalized") /\ UNCHANGED << evp, given >>
     \/ MayUpdate(o) /\ Returns("update", o, "Error") /\ UNCHANGED << evp, given >>
     \/ /\ MayUpdate(o)
        /\ evp' = [c \in Objects |-> IF c \in ctx[o] THEN EvpUpdate(evp[c], d) ELSE evp[c]]
        /\ given' = [given EXCEPT ![o] = Append(@, d)]
        /\ Returns("update", o, "ok")
  /\ UNCHANGED << kind, exists, ctx, squeezed, bytes_remaining, stream, answers >>

\* finalize, which takes the context away when OpenSSL answers.  When it does
\* not, the context stays; Poly1305 alone takes it away then too, unless it is
\* the unwrap that fails.
FailedFinish(o, result) ==
  /\ \/ /\ result = "Error" /\ kind \in {"Hash", "HMAC", "CMAC"} /\ UNCHANGED ctx
     \/ /\ result = "panic" /\ kind \in {"HashOfXOF", "Poly1305"} /\ UNCHANGED ctx
     \/ /\ result = "Error" /\ kind = "Poly1305" /\ ctx' = [ctx EXCEPT ![o] = {}]
  /\ UNCHANGED << evp, answers >>

Finish(o) ==
  /\ evp' = [c \in Objects |-> IF c \in ctx[o] THEN EvpFinish(evp[c]) ELSE evp[c]]
  /\ ctx' = [ctx EXCEPT ![o] = {}]
  /\ answers' = [answers EXCEPT ![o] = @ + 1]

Finalize(o) ==
  /\ o \in exists /\ kind # "XOFHash"
  /\ \/ ctx[o] = {} /\ Returns("finalize", o, "AlreadyFinalized") /\ UNCHANGED << ctx, evp, answers >>
     \/ \E result \in {"Error", "panic"} :
          ctx[o] # {} /\ FailedFinish(o, result) /\ Returns("finalize", o, result)
     \/ \E c \in ctx[o] :
          /\ Finish(o)
          /\ last' = [op |-> "finalize", obj |-> o, result |-> "ok", of |-> evp[c].data,
                      from |-> 0, length |-> DigestSize]
  /\ UNCHANGED << kind, exists, squeezed, bytes_remaining, given, stream >>

\* verify: what it compares with is what finalize returned, which leaves the
\* object finalized whatever comes out of the comparison
AfterVerify_KeptOnMismatch(o, matches) ==   \* mutant
  IF matches THEN Finish(o) ELSE answers' = [answers EXCEPT ![o] = @ + 1] /\ UNCHANGED << ctx, evp >>

AfterVerify(o, matches) == Finish(o)

Matches_Prefix(s, data) == s.of = data   \* mutant: the lengths are not compared

Matches(s, data) == s.whole /\ s.of = data

Verify(o, s) ==
  /\ o \in exists /\ kind \in {"HMAC", "CMAC", "Poly1305"}
  /\ \/ ctx[o] = {} /\ Returns("verify", o, "AlreadyFinalized") /\ UNCHANGED << ctx, evp, answers >>
     \/ \E result \in {"Error", "panic"} :
          ctx[o] # {} /\ FailedFinish(o, result) /\ Returns("verify", o, result)
     \/ \E c \in ctx[o] :
          /\ AfterVerify(o, Matches(s, evp[c].data))
          /\ last' = [op |-> "verify", obj |-> o,
                      result |-> IF Matches(s, evp[c].data) THEN "ok" ELSE "InvalidSignature",
                      of |-> s.of, from |-> 0, length |-> IF s.whole THEN DigestSize ELSE 0]
  /\ UNCHANGED << kind, exists, squeezed, bytes_remaining, given, stream >>

\* squeeze: the flag is set before the limit is looked at

OverLimit(o, n) == n > bytes_remaining[o]

Squeeze(o, n) ==
  /\ o \in exists /\ kind = "XOFHash"
  /\ squeezed' = [squeezed EXCEPT ![o] = TRUE]
  /\ \/ /\ OverLimit(o, n)
        /\ Returns("squeeze", o, "ValueError")
        /\ UNCHANGED << evp, bytes_remaining, stream >>
     \/ /\ ~OverLimit(o, n)
        /\ bytes_remaining' = [bytes_remaining EXCEPT ![o] = @ - n]
        /\ \/ Returns("squeeze", o, "panic") /\ UNCHANGED << evp, stream >>
           \/ \E c \in ctx[o] :
                /\ evp' = [evp EXCEPT ![c] = EvpSqueeze(@, n)]
                /\ stream' = [stream EXCEPT ![o] = @ + n]
                /\ last' = [op |-> "squeeze", obj |-> o, result |-> "ok", of |-> evp[c].data,
                            from |-> evp[c].taken, length |-> n]
  /\ UNCHANGED << kind, exists, ctx, given, answers >>

\* copy: p is the new object, with a context of its own
CopiedContext_Shared(o, p) == ctx[o]   \* mutant: a second reference

CopiedContext(o, p) == {p}

CopiedRemaining_Fresh(o) == DigestSize   \* mutant

CopiedRemaining(o) == bytes_remaining[o]

Copy(o, p) ==
  /\ o \in exists /\ p \notin exists /\ kind # "Poly1305"
  /\ \/ ctx[o] = {} /\ Returns("copy", o, "AlreadyFinalized")
        /\ UNCHANGED << exists, ctx, evp, squeezed, bytes_remaining, given, stream >>
     \/ ctx[o] # {} /\ Returns("copy", o, IF kind \in {"HMAC", "CMAC"} THEN "Error" ELSE "panic")
        /\ UNCHANGED << exists, ctx, evp, squeezed, bytes_remaining, given, stream >>
     \/ \E c \in ctx[o] :
          /\ exists' = exists \cup {p}
          /\ ctx' = [ctx EXCEPT ![p] = CopiedContext(o, p)]
          /\ evp' = [evp EXCEPT ![p] = evp[c]]
          /\ squeezed' = [squeezed EXCEPT ![p] = squeezed[o]]
          /\ bytes_remaining' = [bytes_remaining EXCEPT ![p] = CopiedRemaining(o)]
          /\ given' = [given EXCEPT ![p] = given[o]]
          /\ stream' = [stream EXCEPT ![p] = stream[o]]
          /\ Returns("copy", o, "ok")
  /\ UNCHANGED << kind, answers >>

Next ==
  \/ \E o \in Objects, d \in Chunks : Update(o, d)
  \/ \E o \in Objects : Finalize(o)
  \/ \E o \in Objects, s \in Signatures : Verify(o, s)
  \/ \E o \in Objects, n \in Lengths : Squeeze(o, n)
  \/ \E o, p \in Objects : Copy(o, p)

Spec == Init /\ [][Next]_vars

-----------------------------------------------------------------------------
(* Properties                                                              *)

Ops == {"new", "update", "finalize", "verify", "squeeze", "copy"}
Results == {"ok", "AlreadyFinalized", "ValueError", "InvalidSignature", "Error", "panic"}
EvpContexts == [data : Seq(Chunks), taken : Nat, finished : BOOLEAN]

\* The type invariant.  The limit of an XOFHash never wraps.
TypeOK ==
  /\ kind \in Kinds
  /\ exists \subseteq Objects
  /\ ctx \in [Objects -> SUBSET Objects]
  /\ evp \in [Objects -> EvpContexts]
  /\ squeezed \in [Objects -> BOOLEAN]
  /\ bytes_remaining \in [Objects -> 0 .. DigestSize]
  /\ given \in [Objects -> Seq(Chunks)]
  /\ stream \in [Objects -> Nat]
  /\ answers \in [Objects -> Nat]
  /\ last.op \in Ops /\ last.obj \in Objects /\ last.result \in Results

\* A digest belongs to exactly what its object was given before it was returned,
\* and before that to what the object it was copied from was given until then,
\* whatever is done with the other copies; squeezed bytes go on where the last
\* ones of the object, or of the object it was copied from, ended
DigestOfInput ==
  /\ last.op \in {"finalize", "squeeze"} /\ last.result = "ok" => last.of = given[last.obj]
  /\ last.op = "squeeze" /\ last.result = "ok" => last.from + last.length = stream[last.obj]

\* verify succeeds exactly with the digest of the input, whole
VerdictOfInput ==
  last.op = "verify" /\ last.result \in {"ok", "InvalidSignature"} =>
    (last.result = "ok" <=> last.of = given[last.obj] /\ last.length = DigestSize)

\* An object answers once: neither a failed verification nor a call that failed
\* in OpenSSL leaves an object that can be asked again after it answered
OneAnswer == \A o \in Objects : answers[o] <= 1

\* digest_size limits what can be squeezed from an XOFHash, copies taking what
\* is left of the limit with them
SqueezeLimit == \A o \in exists : stream[o] + bytes_remaining[o] <= DigestSize
==============================================================================
