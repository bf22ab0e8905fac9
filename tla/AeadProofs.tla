----------------------------- MODULE AeadProofs -----------------------------
(***************************************************************************)
(* Proofs about the one-shot AEAD classes of module Aead, for any number   *)
(* of threads, any requests and any limits: calls on one object do not get *)
(* into each other's way, nothing but genuine messages is opened, and what *)
(* encrypt returns is accepted by decrypt.                                 *)
(***************************************************************************)
EXTENDS Aead, TLAPS, SequenceTheorems

-----------------------------------------------------------------------------
(* The inductive invariant                                                 *)

IsContext(c) == c = [key |-> c.key, nonce |-> c.nonce, tag |-> c.tag, aad |-> c.aad]

IsCall(c) ==
  c = [pc |-> c.pc, op |-> c.op, nonce |-> c.nonce, aad |-> c.aad, data |-> c.data,
       fed |-> c.fed, bufkey |-> c.bufkey, out |-> c.out]

\* No call writes to the base contexts, so that they stay as new made them
ObjectInv ==
  IsObject(obj) =>
    /\ \E f \in Configs : obj = NewObject(f)
    /\ ctxs["enc"] = Context(obj.key) /\ ctxs["dec"] = Context(obj.key)

\* A call was made with a request, on an object
Asked(t) ==
  /\ IsObject(obj)
  /\ \E r \in Requests(t, obj) :
       /\ calls[t].op = r.op /\ calls[t].nonce = r.nonce
       /\ calls[t].aad = r.aad /\ calls[t].data = r.data
       /\ calls[t].pc = "aad" => Check(obj, r) = "ok"

\* The context of a running call has the key, the nonce and the tag of that
\* call, and as much of the associated data as the call has fed
ContextInv(t) ==
  calls[t].pc = "aad" =>
    /\ calls[t].fed \in 0 .. Len(calls[t].aad) /\ calls[t].out = None
    /\ ctxs[t].key = KeyOf(calls[t]) /\ ctxs[t].nonce = calls[t].nonce
    /\ ctxs[t].aad = SubSeq(calls[t].aad, 1, calls[t].fed)
    /\ calls[t].op = "decrypt" => ctxs[t].tag = SplitTag(obj, calls[t].data)

Structure ==
  /\ DOMAIN ctxs = Threads \cup {"enc", "dec"} /\ \A c \in DOMAIN ctxs : IsContext(ctxs[c])
  /\ DOMAIN calls = Threads /\ calls = [t \in Threads |-> calls[t]]
  /\ ctxs = [c \in Threads \cup {"enc", "dec"} |-> ctxs[c]]
  /\ \A t \in Threads :
       /\ IsCall(calls[t]) /\ calls[t].pc \in {"idle", "aad", "done"}
       /\ calls[t].pc # "idle" => Asked(t)
       /\ ContextInv(t)

\* What the properties say of one call c of the object o
KeyFor(o, c) == IF o.impl = "lazy" THEN c.bufkey ELSE o.key

MessageOf(o, c, data) == Message(KeyFor(o, c), c.nonce, c.aad, data)

SealsOwn(o, c) ==
  c.op = "encrypt" /\ c.out.kind = "ok" =>
    c.out.bytes = Sealed(o, MessageOf(o, c, c.data)) /\ Len(c.data) <= MaxInt

OpensGenuine(o, c) ==
  c.op = "decrypt" /\ c.out.kind = "ok" => c.data = Sealed(o, MessageOf(o, c, c.out.bytes))

\* The call's data is what encrypt would return for the plaintext p
SealedByEncrypt(o, c, p) ==
  /\ c.data = Sealed(o, MessageOf(o, c, p))
  /\ p \in Seq({p[i] : i \in DOMAIN p})
  /\ \A i \in DOMAIN c.aad : c.aad[i].buffer /\ c.aad[i].len <= MaxInt
  /\ Check(o, [op |-> "encrypt", nonce |-> c.nonce, aad |-> c.aad, data |-> p]) = "ok"
  /\ CcmLengthFits(o, c.nonce, Len(p))

OpensSealed(o, c) ==
  c.op = "decrypt" => \A p : SealedByEncrypt(o, c, p) => c.out = Ok(p)

\* OpenSSL refuses a plaintext only at the limit of CCM
RefusedAtLimit(o, c) ==
  c.op = "encrypt" /\ c.out = Failed("InternalError") =>
    o.cls = "AESCCM" /\ Len(c.data) = MaxLength(c.nonce)

Right(o, c) ==
  SealsOwn(o, c) /\ OpensGenuine(o, c) /\ OpensSealed(o, c) /\ RefusedAtLimit(o, c)

Results(o, c) ==
  /\ c.pc = "done" => Right(o, c)
  /\ c.out # Failed("panic")

AeadInv == ObjectInv /\ Structure /\ \A t \in Threads : Results(obj, calls[t])

-----------------------------------------------------------------------------
(* Objects, requests and messages                                          *)

LEMMA ObjectTypes ==
  ASSUME ObjectInv, IsObject(obj)
  PROVE  /\ obj.cls \in Classes /\ obj.tag_len \in Nat \ {0}
         /\ \A t \in Threads : \A r \in Requests(t, obj) :
              /\ r.op \in {"encrypt", "decrypt"}
              /\ r.data \in Seq({r.data[i] : i \in DOMAIN r.data})
              /\ r.aad \in Seq({r.aad[i] : i \in DOMAIN r.aad})
              /\ \A i \in DOMAIN r.aad : r.aad[i].len \in Nat
              /\ obj.cls = "AESCCM" => r.nonce.len \in Nat
<1>1. PICK f \in Configs : obj = NewObject(f)
  BY DEF ObjectInv
<1>2. obj.cls \in Classes
  BY <1>1, AeadAssumption DEF NewObject
<1>3. obj.tag_len \in Nat \ {0}
  <2>1. CASE f.cls = "AESCCM" /\ f.tag_length # None
    <3>1. Impl(f) \in {"evp", "lazy", "aead"}
      BY <1>1 DEF IsObject, NewObject
    <3>2. Impl(f) = AesCcm_New(f)
      BY <2>1 DEF Impl
    <3>3. f.tag_length \in CCMTagLengths
      BY <2>1, <3>1, <3>2 DEF AesCcm_New
    <3>4. QED
      BY <1>1, <2>1, <3>3, AeadAssumption DEF NewObject
  <2>2. CASE ~(f.cls = "AESCCM" /\ f.tag_length # None)
    BY <1>1, <2>2, AeadAssumption DEF NewObject
  <2>3. QED
    BY <2>1, <2>2
<1>4. obj.cls = f.cls
  BY <1>1 DEF NewObject
<1>5. QED
  BY <1>1, <1>2, <1>3, <1>4, RequestAssumption

\* The data and the associated data of a call
Bytes(t) == {calls[t].data[i] : i \in DOMAIN calls[t].data}
Pieces(t) == {calls[t].aad[i] : i \in DOMAIN calls[t].aad}

LEMMA AskedTypes ==
  ASSUME ObjectInv, NEW t \in Threads, Asked(t)
  PROVE  /\ calls[t].op \in {"encrypt", "decrypt"}
         /\ calls[t].data \in Seq(Bytes(t)) /\ calls[t].aad \in Seq(Pieces(t))
         /\ \A i \in DOMAIN calls[t].aad : calls[t].aad[i].len \in Nat
         /\ obj.cls \in Classes /\ obj.tag_len \in Nat \ {0}
<1>1. IsObject(obj)
  BY DEF Asked
<1>2. PICK r \in Requests(t, obj) :
        /\ calls[t].op = r.op /\ calls[t].aad = r.aad /\ calls[t].data = r.data
  BY DEF Asked
<1>3. /\ r.op \in {"encrypt", "decrypt"}
      /\ r.data \in Seq({r.data[i] : i \in DOMAIN r.data})
      /\ r.aad \in Seq({r.aad[i] : i \in DOMAIN r.aad})
      /\ \A i \in DOMAIN r.aad : r.aad[i].len \in Nat
  BY <1>1, ObjectTypes
<1>4. calls[t].data \in Seq(Bytes(t))
  BY <1>2, <1>3 DEF Bytes
<1>5. calls[t].aad \in Seq(Pieces(t))
  BY <1>2, <1>3 DEF Pieces
<1>6. QED
  BY <1>1, <1>2, <1>3, <1>4, <1>5, ObjectTypes

\* The two parts of a concatenation
LEMMA ConcatParts ==
  ASSUME NEW S, NEW b \in Seq(S), NEW g \in Seq(S)
  PROVE  /\ Len(b \o g) = Len(b) + Len(g)
         /\ SubSeq(b \o g, 1, Len(b)) = b
         /\ SubSeq(b \o g, Len(b) + 1, Len(b) + Len(g)) = g
<1>1. PICK x \in Nat, y \in Nat : x = Len(b) /\ y = Len(g)
  OBVIOUS
<1>2. PICK c \in Seq(S) : c = b \o g
  BY ConcatProperties
<1>3. /\ Len(c) = x + y
      /\ \A i \in 1 .. x + y : c[i] = IF i <= x THEN b[i] ELSE g[i - x]
  BY <1>1, <1>2, ConcatProperties
<1>4. \A i \in 1 .. x + y : c[i] \in S
  BY <1>3, ElementOfSeq
<1>5. SubSeq(c, 1, x) = b
  <2>1. PICK u : u = SubSeq(c, 1, x)
    OBVIOUS
  <2>2. \A i \in 1 .. x : c[i] \in S
    BY <1>1, <1>4
  <2>3. /\ u \in Seq(S) /\ Len(u) = IF 1 <= x THEN x - 1 + 1 ELSE 0
        /\ \A i \in 1 .. x - 1 + 1 : u[i] = c[1 + i - 1]
    BY <1>1, <2>1, <2>2, SubSeqProperties
  <2>4. Len(u) = x
    BY <1>1, <2>3
  <2>5. \A i \in 1 .. x : u[i] = c[i]
    BY <1>1, <2>3
  <2>6. \A i \in 1 .. x : c[i] = b[i]
    BY <1>1, <1>3
  <2>7. \A i \in 1 .. Len(u) : u[i] = b[i]
    BY <2>4, <2>5, <2>6
  <2>8. QED
    BY <1>1, <2>1, <2>3, <2>4, <2>7, SeqEqual
<1>6. SubSeq(c, x + 1, x + y) = g
  <2>1. PICK u : u = SubSeq(c, x + 1, x + y)
    OBVIOUS
  <2>2. \A i \in x + 1 .. x + y : c[i] \in S
    BY <1>1, <1>4
  <2>3. /\ u \in Seq(S) /\ Len(u) = IF x + 1 <= x + y THEN (x + y) - (x + 1) + 1 ELSE 0
        /\ \A i \in 1 .. (x + y) - (x + 1) + 1 : u[i] = c[(x + 1) + i - 1]
    BY <1>1, <2>1, <2>2, SubSeqProperties
  <2>4. Len(u) = y /\ (x + y) - (x + 1) + 1 = y
    BY <1>1, <2>3
  <2>5. ASSUME NEW i \in 1 .. y PROVE u[i] = g[i]
    <3>1. (x + 1) + i - 1 = x + i /\ x + i \in 1 .. x + y /\ ~(x + i <= x) /\ (x + i) - x = i
      BY <1>1
    <3>2. u[i] = c[x + i]
      BY <2>3, <2>4, <3>1
    <3>3. c[x + i] = g[(x + i) - x]
      BY <1>3, <3>1
    <3>4. QED
      BY <3>1, <3>2, <3>3
  <2>6. QED
    BY <1>1, <2>1, <2>3, <2>4, <2>5, SeqEqual
<1>7. QED
  BY <1>1, <1>2, <1>3, <1>5, <1>6

\* A body and a tag are told apart by the length of the tag
LEMMA SplitJoined ==
  ASSUME NEW S, NEW o, NEW b \in Seq(S), NEW g \in Seq(S), Len(g) = o.tag_len
  PROVE  /\ SplitBody(o, Joined(o, b, g)) = b /\ SplitTag(o, Joined(o, b, g)) = g
         /\ Len(Joined(o, b, g)) = Len(b) + o.tag_len
<1>1. /\ SubSeq(b \o g, 1, Len(b)) = b /\ SubSeq(b \o g, Len(b) + 1, Len(b) + Len(g)) = g
      /\ SubSeq(g \o b, 1, Len(g)) = g /\ SubSeq(g \o b, Len(g) + 1, Len(b) + Len(g)) = b
      /\ Len(b \o g) = Len(b) + Len(g) /\ Len(g \o b) = Len(b) + Len(g)
  <2>1. Len(b) + Len(g) = Len(g) + Len(b)
    OBVIOUS
  <2>2. /\ Len(b \o g) = Len(b) + Len(g) /\ SubSeq(b \o g, 1, Len(b)) = b
        /\ SubSeq(b \o g, Len(b) + 1, Len(b) + Len(g)) = g
    BY ConcatParts, Zenon
  <2>3. /\ Len(g \o b) = Len(g) + Len(b) /\ SubSeq(g \o b, 1, Len(g)) = g
        /\ SubSeq(g \o b, Len(g) + 1, Len(g) + Len(b)) = b
    BY ConcatParts, Zenon
  <2>4. QED
    BY <2>1, <2>2, <2>3, Zenon
<1>2. Len(b) \in Nat /\ Len(g) \in Nat
  OBVIOUS
<1>3. CASE TagFirst(o)
  BY <1>1, <1>2, <1>3 DEF SplitBody, SplitTag, Joined
<1>4. CASE ~TagFirst(o)
  <2>1. /\ Len(b \o g) - o.tag_len = Len(b)
        /\ Len(b \o g) - o.tag_len + 1 = Len(b) + 1
    <3> DEFINE x == Len(b)
               y == o.tag_len
               w == Len(b \o g)
    <3>1. x \in Nat /\ y \in Nat /\ w = x + y
      BY <1>1, <1>2
    <3> HIDE DEF x, y, w
    <3>2. w - y = x /\ w - y + 1 = x + 1
      BY <3>1
    <3>3. QED
      BY <3>2 DEF x, y, w
  <2>2. Joined(o, b, g) = b \o g
    BY <1>4 DEF Joined
  <2>3. SplitBody(o, b \o g) = b
    BY <1>1, <1>4, <2>1, Zenon DEF SplitBody
  <2>4. SplitTag(o, b \o g) = g
    BY <1>1, <1>4, <2>1, Zenon DEF SplitTag
  <2>5. QED
    BY <1>1, <2>2, <2>3, <2>4
<1>5. QED
  BY <1>3, <1>4

LEMMA CutInTwo ==
  ASSUME NEW S, NEW d \in Seq(S), NEW n \in 0 .. Len(d)
  PROVE  /\ SubSeq(d, 1, n) \o SubSeq(d, n + 1, Len(d)) = d
         /\ SubSeq(d, 1, n) \in Seq(S) /\ Len(SubSeq(d, 1, n)) = n
         /\ SubSeq(d, n + 1, Len(d)) \in Seq(S) /\ Len(SubSeq(d, n + 1, Len(d))) = Len(d) - n
<1> DEFINE a == SubSeq(d, 1, n)
           z == SubSeq(d, n + 1, Len(d))
<1>1. Len(d) \in Nat /\ n \in Nat /\ n <= Len(d) /\ \A i \in 1 .. Len(d) : d[i] \in S
  OBVIOUS
<1>2. a \in Seq(S) /\ Len(a) = n /\ \A i \in 1 .. n : a[i] = d[i]
  OBVIOUS
<1>3. z \in Seq(S) /\ Len(z) = Len(d) - n /\ \A i \in 1 .. Len(d) - n : z[i] = d[n + i]
  OBVIOUS
<1> HIDE DEF a, z
<1>4. a \o z \in Seq(S) /\ Len(a \o z) = Len(d)
  <2>1. a \o z \in Seq(S) /\ Len(a \o z) = Len(a) + Len(z)
    BY <1>2, <1>3, ConcatProperties
  <2>2. Len(a) + Len(z) = Len(d)
    BY <1>1, <1>2, <1>3
  <2>3. QED
    BY <2>1, <2>2
<1>5. ASSUME NEW i \in 1 .. Len(a \o z) PROVE (a \o z)[i] = d[i]
  <2>1. CASE i <= n
    BY <1>1, <1>2, <1>3, <1>4, <2>1
  <2>2. CASE i > n
    <3>1. (a \o z)[i] = z[i - n]
      BY <1>1, <1>2, <1>3, <1>4, <2>2
    <3>2. i - n \in 1 .. Len(d) - n /\ n + (i - n) = i
      BY <1>1, <1>4, <2>2
    <3>3. QED
      BY <1>3, <3>1, <3>2
  <2>3. QED
    BY <1>1, <1>4, <2>1, <2>2
<1>6. a \o z = d
  BY <1>4, <1>5, SeqEqual
<1>7. QED
  BY <1>2, <1>3, <1>6 DEF a, z

LEMMA JoinedSplit ==
  ASSUME NEW S, NEW o, NEW d \in Seq(S), o.tag_len \in Nat, o.tag_len <= Len(d)
  PROVE  /\ Joined(o, SplitBody(o, d), SplitTag(o, d)) = d
         /\ SplitBody(o, d) \in Seq(S) /\ Len(SplitBody(o, d)) = Len(d) - o.tag_len
<1>1. /\ Len(d) \in Nat /\ o.tag_len \in 0 .. Len(d) /\ Len(d) - o.tag_len \in 0 .. Len(d)
      /\ Len(d) - (Len(d) - o.tag_len) = o.tag_len
  OBVIOUS
<1>2. CASE TagFirst(o)
  BY <1>1, <1>2, CutInTwo DEF SplitBody, SplitTag, Joined
<1>3. CASE ~TagFirst(o)
  BY <1>1, <1>3, CutInTwo DEF SplitBody, SplitTag, Joined
<1>4. QED
  BY <1>2, <1>3

LEMMA MessageWith ==
  ASSUME NEW k, NEW n, NEW a, NEW d, NEW p
  PROVE  [Message(k, n, a, d) EXCEPT !.data = p] = Message(k, n, a, p)
BY DEF Message

LEMMA SealedTypes ==
  ASSUME NEW m, NEW n \in Nat, Len(m.data) \in Nat
  PROVE  \E S : /\ Body(m) \in Seq(S) /\ Len(Body(m)) = Len(m.data)
                /\ Tag(m, n) \in Seq(S) /\ Len(Tag(m, n)) = n
                /\ n > 0 => Tag(m, n)[1].of = m
<1> DEFINE S == [kind : {"body", "tag"}, of : {m}, pos : Nat]
<1>1. Body(m) \in Seq(S) /\ Len(Body(m)) = Len(m.data)
  BY DEF Body
<1>2. Tag(m, n) \in Seq(S) /\ Len(Tag(m, n)) = n
  BY DEF Tag
<1>3. n > 0 => Tag(m, n)[1].of = m
  BY DEF Tag
<1>4. QED
  BY <1>1, <1>2, <1>3

\* The streaming and the block path write as many bytes as they assert
LEMMA QuotientUnique ==
  ASSUME NEW b \in Nat \ {0}, NEW q \in Nat, NEW r \in Nat, r < b
  PROVE  (q * b + r) \div b = q /\ (q * b + r) % b = r
<1>1. q * b + r \in Nat
  OBVIOUS
<1>2. (q * b + r) \div b = q
  BY <1>1
<1>3. (q * b + r) % b = r
  BY <1>1
<1>4. QED
  BY <1>2, <1>3

LEMMA AssertionsHold ==
  ASSUME NEW n \in Nat, NEW b \in Nat \ {0}
  PROVE  AssertsHold(n, b)
<1> DEFINE q == n \div b
           i == q * b
           r == n - i
<1>1. q \in Nat
  OBVIOUS
<1>2. n % b \in Nat /\ n % b < b /\ n = q * b + (n % b)
  OBVIOUS
<1> HIDE DEF q
<1>3. i \in Nat /\ r \in Nat /\ r < b
  BY <1>1, <1>2
<1>4. i \div b = q /\ i % b = 0
  BY <1>1, QuotientUnique
<1>5. r \div b = 0
  <2>1. r = 0 * b + r
    BY <1>3
  <2>2. QED
    BY <1>3, <2>1, QuotientUnique
<1> HIDE DEF r
<1>6. Written(0, i, b) = i
  <2>1. 0 + i = i
    BY <1>3
  <2>2. QED
    BY <1>4, <2>1 DEF Written
<1>7. Written(i % b, r, b) = 0
  <2>1. (i % b) + r = r
    BY <1>3, <1>4
  <2>2. QED
    BY <1>5, <2>1 DEF Written
<1>8. Initial(n, b) = i
  BY DEF Initial, q
<1>9. QED
  BY <1>6, <1>7, <1>8 DEF AssertsHold, r

LEMMA BlockOfType == BlockOf(obj.cls) \in Nat \ {0}
BY AeadAssumption DEF BlockOf

-----------------------------------------------------------------------------
LEMMA ResultsSuffice ==
  ASSUME AeadInv
  PROVE  SealsItsOwn /\ OpensOnlyGenuine /\ BoundariesFit
<1>1. SealsItsOwn
  BY DEF AeadInv, Results, Right, SealsOwn, SealsItsOwn, Done, KeyOf, KeyFor, MessageOf
<1>2. OpensOnlyGenuine
  BY DEF AeadInv, Results, Right, OpensGenuine, OpensOnlyGenuine, Done, KeyOf, KeyFor, MessageOf
<1>3. NoPanic
  BY DEF AeadInv, Results, NoPanic
<1>4. DecryptsWhatItSeals
  <2> SUFFICES ASSUME NEW t \in Done("decrypt")
               PROVE  LET call == calls[t]
                          m == Message(KeyOf(call), call.nonce, call.aad, SplitBody(obj, call.data))
                          plain == [i \in 1 .. Len(m.data) |-> m.data[i].of.data[i]]
                          r == [op |-> "encrypt", nonce |-> call.nonce, aad |-> call.aad,
                                data |-> plain]
                      IN  /\ Len(call.data) >= obj.tag_len
                          /\ call.data = Sealed(obj, [m EXCEPT !.data = plain])
                          /\ \A i \in DOMAIN call.aad : call.aad[i].buffer /\ call.aad[i].len <= MaxInt
                          /\ Check(obj, r) = "ok" /\ CcmLengthFits(obj, call.nonce, Len(plain))
                          => call.out = Ok(plain)
    BY Zenon DEF DecryptsWhatItSeals
  <2> DEFINE call == calls[t]
             m == Message(KeyOf(call), call.nonce, call.aad, SplitBody(obj, call.data))
             plain == [i \in 1 .. Len(m.data) |-> m.data[i].of.data[i]]
             r == [op |-> "encrypt", nonce |-> call.nonce, aad |-> call.aad, data |-> plain]
  <2> SUFFICES ASSUME Len(call.data) >= obj.tag_len,
                      call.data = Sealed(obj, [m EXCEPT !.data = plain]),
                      \A i \in DOMAIN call.aad : call.aad[i].buffer /\ call.aad[i].len <= MaxInt,
                      Check(obj, r) = "ok", CcmLengthFits(obj, call.nonce, Len(plain))
               PROVE  call.out = Ok(plain)
    OBVIOUS
  <2>1. t \in Threads /\ Asked(t) /\ call.op = "decrypt" /\ OpensSealed(obj, call)
    BY DEF Done, AeadInv, Structure, Results, Right
  <2>2. [m EXCEPT !.data = plain] = MessageOf(obj, call, plain)
    <3> HIDE DEF plain
    <3>1. [m EXCEPT !.data = plain] = Message(KeyOf(call), call.nonce, call.aad, plain)
      BY MessageWith
    <3>2. QED
      BY <3>1 DEF MessageOf, KeyOf, KeyFor
  <2>3. Len(m.data) \in Nat
    <3>1. call.data \in Seq(Bytes(t)) /\ obj.tag_len \in Nat
      BY <2>1, AskedTypes DEF AeadInv
    <3>2. SplitBody(obj, call.data) \in Seq(Bytes(t))
      BY <3>1, JoinedSplit
    <3>3. m.data = SplitBody(obj, call.data)
      BY DEF Message
    <3> HIDE DEF m
    <3>4. QED
      BY <3>2, <3>3, LenProperties
  <2>4. plain \in Seq({plain[i] : i \in DOMAIN plain})
    <3> HIDE DEF m
    <3>1. DOMAIN plain = 1 .. Len(m.data)
      OBVIOUS
    <3> HIDE DEF plain
    <3>2. plain \in [1 .. Len(m.data) -> {plain[i] : i \in DOMAIN plain}]
      <4>1. plain = [i \in 1 .. Len(m.data) |-> plain[i]]
        BY DEF plain
      <4>2. QED
        BY <3>1, <4>1
    <3>3. QED
      BY <2>3, <3>2
  <2> HIDE DEF m, plain
  <2>5. SealedByEncrypt(obj, call, plain)
    BY <2>2, <2>4 DEF SealedByEncrypt
  <2>6. QED
    BY <2>1, <2>5 DEF OpensSealed
<1>5. RefusedOnlyAtMaxLength
  BY DEF AeadInv, Results, Right, RefusedAtLimit, RefusedOnlyAtMaxLength, Done
<1>6. QED
  BY <1>1, <1>2, <1>3, <1>4, <1>5 DEF BoundariesFit

-----------------------------------------------------------------------------
(* Opening                                                                 *)

\* What is opened was sealed with the key, the nonce and the associated data of
\* the context, to this very body and tag
LEMMA OpenedIsGenuine ==
  ASSUME NEW o, NEW c, NEW body, Opened(o, c, body).kind = "ok"
  PROVE  \E d : /\ Opened(o, c, body) = Ok(d)
                /\ body = Body(Message(c.key, c.nonce, c.aad, d))
                /\ c.tag = Tag(Message(c.key, c.nonce, c.aad, d), o.tag_len)
<1> DEFINE genuine == Authentic(c, body, o.tag_len)
<1>1. genuine # {}
  BY DEF Opened, FinalCalled, Failed
<1> DEFINE m == CHOOSE x \in genuine : TRUE
<1>2. m \in genuine
  BY <1>1
<1>3. /\ m = Message(c.key, c.nonce, c.aad, m.data)
      /\ body = Body(m) /\ c.tag = Tag(m, o.tag_len)
  <2> HIDE DEF m
  <2>1. QED
    BY <1>2 DEF Authentic
<1>4. Opened(o, c, body) = Ok(m.data)
  BY <1>1 DEF Opened
<1> HIDE DEF m
<1>5. QED
  BY <1>3, <1>4

\* And what was sealed with them is opened
LEMMA GenuineIsOpened ==
  ASSUME NEW o, NEW c, NEW d, o.tag_len \in Nat \ {0}, Len(d) \in Nat,
         c.tag = Tag(Message(c.key, c.nonce, c.aad, d), o.tag_len)
  PROVE  Opened(o, c, Body(Message(c.key, c.nonce, c.aad, d))) = Ok(d)
<1> DEFINE m == Message(c.key, c.nonce, c.aad, d)
           genuine == Authentic(c, Body(m), o.tag_len)
<1>1. m.data = d
  BY DEF Message
<1>2. 1 \in DOMAIN c.tag /\ c.tag[1].of = m
  <2> HIDE DEF m
  <2>1. c.tag = [i \in 1 .. o.tag_len |-> [kind |-> "tag", of |-> m, pos |-> i]]
    BY DEF Tag, m
  <2>2. 1 \in 1 .. o.tag_len
    OBVIOUS
  <2>3. QED
    BY <2>1, <2>2
<1> HIDE DEF m
<1>3. m \in genuine
  BY <1>1, <1>2 DEF Authentic, m
<1>4. \A x \in genuine : x = m
  <2> SUFFICES ASSUME NEW x \in genuine PROVE x = m
    OBVIOUS
  <2>1. c.tag = Tag(x, o.tag_len)
    BY DEF Authentic
  <2>2. c.tag[1].of = x
    <3>1. c.tag = [i \in 1 .. o.tag_len |-> [kind |-> "tag", of |-> x, pos |-> i]]
      BY <2>1 DEF Tag
    <3>2. 1 \in 1 .. o.tag_len
      OBVIOUS
    <3>3. QED
      BY <3>1, <3>2
  <2>3. QED
    BY <1>2, <2>2
<1> HIDE DEF genuine
<1>5. (CHOOSE x \in genuine : TRUE) = m
  BY <1>3, <1>4
<1>6. Opened(o, c, Body(m)) = Ok((CHOOSE x \in genuine : TRUE).data)
  BY <1>3 DEF Opened, genuine
<1>7. QED
  BY <1>1, <1>5, <1>6 DEF m

\* The parts of data that encrypt would return
LEMMA SealedParts ==
  ASSUME NEW o, NEW c, NEW p, o.tag_len \in Nat \ {0}, SealedByEncrypt(o, c, p)
  PROVE  /\ SplitBody(o, c.data) = Body(MessageOf(o, c, p))
         /\ SplitTag(o, c.data) = Tag(MessageOf(o, c, p), o.tag_len)
         /\ Len(p) \in Nat /\ Len(Body(MessageOf(o, c, p))) = Len(p)
         /\ Len(c.data) = Len(p) + o.tag_len
<1> DEFINE m == MessageOf(o, c, p)
           b == Body(m)
           g == Tag(m, o.tag_len)
<1>1. m.data = p
  BY DEF MessageOf, Message
<1>2. c.data = Joined(o, b, g) /\ Len(p) \in Nat
  BY DEF SealedByEncrypt, Sealed
<1> HIDE DEF m
<1>3. PICK S : b \in Seq(S) /\ Len(b) = Len(p) /\ g \in Seq(S) /\ Len(g) = o.tag_len
  BY <1>1, <1>2, SealedTypes
<1> HIDE DEF b, g
<1>4. /\ SplitBody(o, Joined(o, b, g)) = b /\ SplitTag(o, Joined(o, b, g)) = g
      /\ Len(Joined(o, b, g)) = Len(b) + o.tag_len
  BY <1>3, SplitJoined
<1>5. QED
  BY <1>2, <1>3, <1>4 DEF b, g, m

\* The checks of decrypt let pass what those of encrypt let pass
LEMMA ChecksFit ==
  ASSUME NEW o, NEW c, NEW p, o.tag_len \in Nat \ {0}, o.cls \in Classes, SealedByEncrypt(o, c, p),
         NEW r, r.op = "decrypt", r.nonce = c.nonce, r.data = c.data
  PROVE  /\ Check(o, r) = "ok"
         /\ o.cls \in {"AESSIV", "AESGCMSIV"} /\ p = << >> => o.build \in {"3.5", "boringssl"}
<1> DEFINE e == [op |-> "encrypt", nonce |-> c.nonce, aad |-> c.aad, data |-> p]
<1>1. Check(o, e) = "ok"
  BY DEF SealedByEncrypt
<1>2. /\ e.op = "encrypt" /\ e.nonce = r.nonce /\ e.data = p
  OBVIOUS
<1>3. ClassCheck(o, e) = "ok"
  BY <1>1 DEF Check
<1>4. Len(r.data) = Len(p) + o.tag_len /\ Len(p) \in Nat
  BY SealedParts
<1> HIDE DEF e
<1>5. DecryptCheck(o, r) = "ok"
  BY <1>4 DEF DecryptCheck
<1>6. SaturatingSub(Len(r.data), o.tag_len) = Len(p)
  BY <1>4 DEF SaturatingSub
<1>7. ClassCheck(o, r) = "ok"
  <2>1. CASE o.cls = "ChaCha20Poly1305"
    BY <1>2, <1>3, <2>1 DEF ClassCheck, ChaCha20Poly1305_Check
  <2>2. CASE o.cls = "AESGCM"
    BY <1>2, <1>3, <2>2 DEF ClassCheck, AesGcm_Check
  <2>3. CASE o.cls = "AESCCM"
    <3>1. AesCcm_Encrypt_Check(e) = "ok"
      BY <1>2, <1>3, <2>3 DEF ClassCheck
    <3>2. /\ ~(e.nonce.len < 7 \/ e.nonce.len > 13)
          /\ ~LongerThan(Len(e.data), MaxLength(e.nonce))
      BY <3>1 DEF AesCcm_Encrypt_Check
    <3>3. AesCcm_Decrypt_Check(o, r) = "ok"
      BY <1>2, <1>6, <3>2 DEF AesCcm_Decrypt_Check
    <3>4. QED
      BY <2>3, <3>3 DEF ClassCheck
  <2>4. CASE o.cls = "AESSIV"
    BY <2>4 DEF ClassCheck, AesSiv_Check
  <2>5. CASE o.cls = "AESOCB3"
    BY <1>2, <1>3, <2>5 DEF ClassCheck, AesOcb3_Check
  <2>6. CASE o.cls = "AESGCMSIV"
    BY <1>2, <1>3, <2>6 DEF ClassCheck, AesGcmSiv_Check
  <2>7. QED
    BY <2>1, <2>2, <2>3, <2>4, <2>5, <2>6 DEF Classes
<1>8. o.cls \in {"AESSIV", "AESGCMSIV"} /\ p = << >> => o.build \in {"3.5", "boringssl"}
  BY <1>2, <1>3 DEF ClassCheck, AesSiv_Check, AesGcmSiv_Check
<1>9. QED
  BY <1>5, <1>7, <1>8 DEF Check

\* A check ends well or with one of three exceptions
LEMMA CheckKinds ==
  ASSUME ObjectInv, IsObject(obj), NEW r, r.op \in {"encrypt", "decrypt"}
  PROVE  Check(obj, r) \in {"ok", "ValueError", "OverflowError", "InvalidTag"}
<1>1. obj.cls \in Classes
  BY ObjectTypes
<1>2. ClassCheck(obj, r) \in {"ok", "ValueError", "OverflowError", "InvalidTag"}
  BY <1>1 DEF Classes, ClassCheck, ChaCha20Poly1305_Check, AesGcm_Check, AesCcm_Encrypt_Check,
       AesCcm_Decrypt_Check, AesSiv_Check, AesOcb3_Check, AesGcmSiv_Check, check_length
<1>3. QED
  BY <1>2 DEF Check, EncryptCheck, DecryptCheck, check_length

-----------------------------------------------------------------------------
(* Every step keeps the invariant                                          *)

LEMMA AeadInit == Init => AeadInv
<1> SUFFICES ASSUME Init PROVE AeadInv
  OBVIOUS
<1>1. ObjectInv
  BY DEF Init, ObjectInv, IsObject
<1>2. \A t \in Threads : calls[t] = Idle
  BY DEF Init
<1>3. Idle.pc = "idle" /\ Idle.out = None /\ IsCall(Idle)
  BY DEF Idle, IsCall
<1>4. \A c \in DOMAIN ctxs : IsContext(ctxs[c])
  BY DEF Init, Context, IsContext
<1>5. Structure
  BY <1>2, <1>3, <1>4 DEF Init, Structure, ContextInv
<1>6. \A t \in Threads : Results(obj, calls[t])
  BY <1>2, <1>3, RequestAssumption DEF Results
<1>7. QED
  BY <1>1, <1>5, <1>6 DEF AeadInv

\* What holds of a call holds as long as its object, the call and its context
\* are not touched
LEMMA AskedKept ==
  ASSUME NEW t \in Threads, obj' = obj, calls'[t] = calls[t], Asked(t)
  PROVE  Asked(t)'
BY DEF Asked

LEMMA ContextKept ==
  ASSUME NEW t \in Threads, obj' = obj, calls'[t] = calls[t], ctxs'[t] = ctxs[t], ContextInv(t)
  PROVE  ContextInv(t)'
BY DEF ContextInv, KeyOf

LEMMA NewInv ==
  ASSUME AeadInv, NEW f \in Configs, New(f)
  PROVE  AeadInv'
<1>1. ~IsObject(obj)
  BY DEF New, IsObject
<1>2. \A t \in Threads : calls[t].pc = "idle" /\ calls'[t] = calls[t]
  BY <1>1 DEF AeadInv, Structure, Asked, New
<1>3. /\ DOMAIN ctxs = Threads \cup {"enc", "dec"}
      /\ ctxs' = [c \in DOMAIN ctxs |-> IF c \in {"enc", "dec"} THEN Context(f.key) ELSE ctxs[c]]
  BY DEF AeadInv, Structure, New
<1>4. obj' = NewObject(f) /\ obj'.key = f.key
  BY DEF New, NewObject
<1>5. ObjectInv'
  BY <1>3, <1>4 DEF ObjectInv
<1>6. IsContext(Context(f.key))
  BY DEF IsContext, Context
<1>7. \A c \in DOMAIN ctxs' : IsContext(ctxs'[c])
  BY <1>3, <1>6 DEF AeadInv, Structure
<1>8. Structure'
  <2>1. calls' = calls
    BY DEF New
  <2>2. DOMAIN ctxs' = DOMAIN ctxs /\ ctxs' = [c \in Threads \cup {"enc", "dec"} |-> ctxs'[c]]
    BY <1>3
  <2>3. \A t \in Threads : ContextInv(t)'
    BY <1>2 DEF ContextInv
  <2>4. \A t \in Threads : IsCall(calls'[t]) /\ calls'[t].pc = "idle"
    BY <1>2 DEF AeadInv, Structure
  <2>5. DOMAIN calls' = Threads /\ calls' = [t \in Threads |-> calls'[t]]
    BY <2>1 DEF AeadInv, Structure
  <2>6. DOMAIN ctxs' = Threads \cup {"enc", "dec"}
    BY <1>3, <2>2
  <2>7. QED
    BY <1>7, <2>2, <2>3, <2>4, <2>5, <2>6 DEF Structure
<1>9. \A t \in Threads : Results(obj', calls'[t])
  BY <1>2 DEF AeadInv, Results
<1>10. QED
  BY <1>5, <1>8, <1>9 DEF AeadInv

LEMMA OverwriteInv == AeadInv /\ (OverwriteKey \/ UNCHANGED vars) => AeadInv'
<1> SUFFICES ASSUME AeadInv, OverwriteKey \/ UNCHANGED vars PROVE AeadInv'
  OBVIOUS
<1>1. UNCHANGED << obj, ctxs, calls >>
  BY DEF OverwriteKey, vars
<1>2. ObjectInv'
  BY <1>1 DEF AeadInv, ObjectInv
<1>3. \A t \in Threads : /\ calls[t].pc # "idle" => Asked(t)'
                         /\ ContextInv(t)'
  BY <1>1, AskedKept, ContextKept DEF AeadInv, Structure
<1>4. Structure'
  BY <1>1, <1>3 DEF AeadInv, Structure
<1>5. QED
  BY <1>1, <1>2, <1>4 DEF AeadInv

\* A step of one thread that leaves the base contexts alone
LEMMA ThreadStep ==
  ASSUME AeadInv, NEW t \in Threads, NEW call, NEW ctx, obj' = obj,
         calls' = [calls EXCEPT ![t] = call], ctxs' = [ctxs EXCEPT ![t] = ctx],
         IsCall(call), IsContext(ctx), call.pc \in {"aad", "done"},
         Asked(t)', ContextInv(t)', Results(obj, call)
  PROVE  AeadInv'
<1>1. t \in DOMAIN ctxs /\ t # "enc" /\ t # "dec"
  BY AeadAssumption DEF AeadInv, Structure
<1>2. /\ calls'[t] = call /\ \A u \in Threads \ {t} : calls'[u] = calls[u]
      /\ DOMAIN calls' = Threads /\ calls' = [u \in Threads |-> calls'[u]]
  BY DEF AeadInv, Structure
<1>3. /\ ctxs'[t] = ctx /\ \A c \in DOMAIN ctxs : c # t => ctxs'[c] = ctxs[c]
      /\ DOMAIN ctxs' = DOMAIN ctxs
      /\ ctxs' = [c \in Threads \cup {"enc", "dec"} |-> ctxs'[c]]
  BY <1>1 DEF AeadInv, Structure
<1>4. ObjectInv'
  BY <1>1, <1>3 DEF AeadInv, ObjectInv, Structure
<1>5. \A c \in DOMAIN ctxs' : IsContext(ctxs'[c])
  BY <1>3 DEF AeadInv, Structure
<1>6. ASSUME NEW u \in Threads
      PROVE  /\ IsCall(calls'[u]) /\ calls'[u].pc \in {"idle", "aad", "done"}
             /\ calls'[u].pc # "idle" => Asked(u)'
             /\ ContextInv(u)' /\ Results(obj', calls'[u])
  <2>1. CASE u = t
    BY <1>2, <2>1
  <2>2. CASE u # t
    <3>1. calls'[u] = calls[u] /\ ctxs'[u] = ctxs[u]
      BY <1>2, <1>3, <2>2 DEF AeadInv, Structure
    <3>2. /\ IsCall(calls[u]) /\ calls[u].pc \in {"idle", "aad", "done"}
          /\ calls[u].pc # "idle" => Asked(u)
          /\ ContextInv(u) /\ Results(obj, calls[u])
      BY DEF AeadInv, Structure
    <3>3. QED
      BY <3>1, <3>2, AskedKept, ContextKept
  <2>3. QED
    BY <2>1, <2>2
<1>7. Structure'
  BY <1>2, <1>3, <1>5, <1>6 DEF AeadInv, Structure
<1>8. QED
  BY <1>4, <1>6, <1>7 DEF AeadInv

LEMMA StartCallInv ==
  ASSUME AeadInv, NEW t \in Threads, NEW r \in Requests(t, obj), StartCall(t, r)
  PROVE  AeadInv'
<1>1. IsObject(obj) /\ obj' = obj /\ calls[t].pc = "idle" /\ ObjectInv
  BY DEF StartCall, AeadInv
<1>2. /\ r.op \in {"encrypt", "decrypt"} /\ obj.cls \in Classes /\ obj.tag_len \in Nat \ {0}
      /\ r.aad \in Seq({r.aad[i] : i \in DOMAIN r.aad})
  BY <1>1, ObjectTypes
<1>3. t \in DOMAIN ctxs /\ DOMAIN ctxs = Threads \cup {"enc", "dec"} /\ DOMAIN calls = Threads
      /\ \A c \in DOMAIN ctxs : IsContext(ctxs[c])
  BY DEF AeadInv, Structure
<1>4. CASE Check(obj, r) # "ok"
  <2> DEFINE call == Called(r, "done", Failed(Check(obj, r)))
  <2>1. calls' = [calls EXCEPT ![t] = call] /\ ctxs' = ctxs
    BY <1>4 DEF StartCall
  <2>2. /\ IsCall(call) /\ call.pc = "done" /\ call.op = r.op /\ call.nonce = r.nonce
        /\ call.aad = r.aad /\ call.data = r.data /\ call.out = Failed(Check(obj, r))
    BY DEF Called, IsCall
  <2> HIDE DEF call
  <2>3. calls'[t] = call
    BY <1>3, <2>1
  <2>4. Asked(t)'
    BY <1>1, <2>2, <2>3 DEF Asked
  <2>5. ContextInv(t)'
    BY <2>2, <2>3 DEF ContextInv
  <2>6. call.out.kind # "ok" /\ call.out # Failed("panic") /\ call.out # Failed("InternalError")
    <3>1. Check(obj, r) # "panic" /\ Check(obj, r) # "InternalError"
      BY <1>1, <1>2, CheckKinds
    <3>2. QED
      BY <1>4, <2>2, <3>1 DEF Failed
  <2>7. OpensSealed(obj, call)
    <3>1. ASSUME NEW p, call.op = "decrypt", SealedByEncrypt(obj, call, p) PROVE FALSE
      BY <1>2, <1>4, <2>2, <3>1, ChecksFit
    <3>2. QED
      BY <3>1 DEF OpensSealed
  <2>8. Results(obj, call)
    BY <2>6, <2>7 DEF Results, Right, SealsOwn, OpensGenuine, RefusedAtLimit
  <2>9. ctxs' = [ctxs EXCEPT ![t] = ctxs[t]] /\ IsContext(ctxs[t])
    BY <1>3, <2>1 DEF AeadInv, Structure
  <2>10. QED
    BY <1>1, <2>1, <2>2, <2>4, <2>5, <2>8, <2>9, ThreadStep
<1>5. CASE Check(obj, r) = "ok"
  <2> DEFINE call == Called(r, "aad", None)
             fresh == FreshContext(obj, r.op)
             ctx == Initialised(obj, fresh, r)
  <2>1. calls' = [calls EXCEPT ![t] = call] /\ ctxs' = [ctxs EXCEPT ![t] = ctx]
    BY <1>5 DEF StartCall, ContextOf
  <2>2. /\ IsCall(call) /\ call.pc = "aad" /\ call.op = r.op /\ call.nonce = r.nonce
        /\ call.aad = r.aad /\ call.data = r.data /\ call.out = None /\ call.fed = 0
        /\ call.bufkey = keybuf
    BY DEF Called, IsCall
  <2>3. /\ fresh = Context(IF obj.impl = "lazy" THEN keybuf ELSE obj.key)
    BY <1>1 DEF FreshContext, ObjectInv
  <2>4. /\ IsContext(ctx) /\ ctx.nonce = r.nonce /\ ctx.aad = << >>
        /\ ctx.key = (IF obj.impl = "lazy" THEN keybuf ELSE obj.key)
        /\ r.op = "decrypt" => ctx.tag = SplitTag(obj, r.data)
    <3> DEFINE k == IF obj.impl = "lazy" THEN keybuf ELSE obj.key
               n == r.nonce
               g == IF r.op = "decrypt" THEN SplitTag(obj, r.data) ELSE fresh.tag
               a == IF r.nonce = None THEN fresh.aad ELSE << >>
    <3>1. fresh = [key |-> k, nonce |-> None, tag |-> << >>, aad |-> << >>]
      BY <2>3 DEF Context
    <3>2. ctx = [fresh EXCEPT !.nonce = n, !.aad = a, !.tag = g]
      BY DEF Initialised
    <3>3. a = << >>
      BY <3>1
    <3> HIDE DEF ctx, fresh, k, n, g, a
    <3>4. ctx = [key |-> k, nonce |-> n, tag |-> g, aad |-> a]
      BY <3>1, <3>2
    <3>5. QED
      BY <3>3, <3>4 DEF IsContext, k, n, g
  <2> HIDE DEF call, ctx, fresh
  <2>5. calls'[t] = call /\ ctxs'[t] = ctx
    BY <1>3, <2>1
  <2>6. Asked(t)'
    BY <1>1, <1>5, <2>2, <2>5 DEF Asked
  <2>7. ContextInv(t)'
    <3>1. Len(r.aad) \in Nat /\ SubSeq(r.aad, 1, 0) = << >>
      BY <1>2
    <3>2. KeyOf(calls[t])' = ctx.key
      BY <1>1, <2>2, <2>4, <2>5 DEF KeyOf
    <3>3. /\ calls'[t].fed \in 0 .. Len(calls'[t].aad) /\ calls'[t].out = None
          /\ ctxs'[t].aad = SubSeq(calls'[t].aad, 1, calls'[t].fed)
      <4>1. 0 \in 0 .. Len(r.aad)
        BY <3>1
      <4>2. QED
        BY <2>2, <2>4, <2>5, <3>1, <4>1, Zenon
    <3>4. /\ ctxs'[t].key = KeyOf(calls[t])' /\ ctxs'[t].nonce = calls'[t].nonce
          /\ calls'[t].op = "decrypt" => ctxs'[t].tag = SplitTag(obj', calls'[t].data)
      BY <1>1, <2>2, <2>4, <2>5, <3>2
    <3>5. QED
      BY <3>3, <3>4 DEF ContextInv
  <2>8. Results(obj, call)
    BY <2>2, RequestAssumption DEF Results
  <2>9. QED
    BY <1>1, <2>1, <2>2, <2>4, <2>6, <2>7, <2>8, ThreadStep
<1>6. QED
  BY <1>4, <1>5

LEMMA RunningCall ==
  ASSUME AeadInv, NEW t \in Threads, calls[t].pc = "aad"
  PROVE  /\ ObjectInv /\ IsObject(obj) /\ IsCall(calls[t]) /\ Asked(t) /\ ContextInv(t)
         /\ Results(obj, calls[t]) /\ IsContext(ctxs[t]) /\ t \in DOMAIN calls /\ t \in DOMAIN ctxs
         /\ calls[t].op \in {"encrypt", "decrypt"}
         /\ calls[t].data \in Seq(Bytes(t)) /\ calls[t].aad \in Seq(Pieces(t))
         /\ \A i \in DOMAIN calls[t].aad : calls[t].aad[i].len \in Nat
         /\ obj.cls \in Classes /\ obj.tag_len \in Nat \ {0}
         /\ \E r \in Requests(t, obj) :
              /\ calls[t].op = r.op /\ calls[t].nonce = r.nonce
              /\ calls[t].aad = r.aad /\ calls[t].data = r.data /\ Check(obj, r) = "ok"
         /\ obj.cls = "AESCCM" => calls[t].nonce.len \in Nat
<1>1. /\ ObjectInv /\ IsCall(calls[t]) /\ Asked(t) /\ ContextInv(t) /\ Results(obj, calls[t])
      /\ IsContext(ctxs[t]) /\ t \in DOMAIN calls /\ t \in DOMAIN ctxs
  BY DEF AeadInv, Structure
<1>2. obj.cls = "AESCCM" => calls[t].nonce.len \in Nat
  BY <1>1, ObjectTypes DEF Asked
<1>3. QED
  BY <1>1, <1>2, AskedTypes DEF Asked

\* A running call returns, with an answer that is right
LEMMA ReturnInv ==
  ASSUME AeadInv, NEW t \in Threads, calls[t].pc = "aad", NEW out, Return(t, out),
         UNCHANGED << obj, keybuf, ctxs >>, out # Failed("panic"),
         \A c : /\ c.pc = "done" /\ c.out = out
                /\ c.op = calls[t].op /\ c.nonce = calls[t].nonce /\ c.aad = calls[t].aad
                /\ c.data = calls[t].data /\ c.bufkey = calls[t].bufkey
                => Right(obj, c)
  PROVE  AeadInv'
<1> DEFINE c == [calls[t] EXCEPT !.pc = "done", !.out = out]
<1>1. calls' = [calls EXCEPT ![t] = c]
  BY RunningCall DEF Return
<1>2. /\ IsCall(c) /\ c.pc = "done" /\ c.out = out
      /\ c.op = calls[t].op /\ c.nonce = calls[t].nonce /\ c.aad = calls[t].aad
      /\ c.data = calls[t].data /\ c.bufkey = calls[t].bufkey
  <2> DEFINE d == calls[t]
  <2>1. d = [pc |-> d.pc, op |-> d.op, nonce |-> d.nonce, aad |-> d.aad, data |-> d.data,
             fed |-> d.fed, bufkey |-> d.bufkey, out |-> d.out]
    BY RunningCall DEF IsCall
  <2>0. c = [d EXCEPT !.pc = "done", !.out = out]
    OBVIOUS
  <2> HIDE DEF c, d
  <2>2. c = [pc |-> "done", op |-> d.op, nonce |-> d.nonce, aad |-> d.aad, data |-> d.data,
             fed |-> d.fed, bufkey |-> d.bufkey, out |-> out]
    BY <2>0, <2>1
  <2>3. QED
    BY <2>2 DEF IsCall, d
<1> HIDE DEF c
<1>3. calls'[t] = c /\ obj' = obj
  BY <1>1, RunningCall
<1>4. Results(obj, c)
  BY <1>2 DEF Results
<1>5. Asked(t)'
  BY <1>2, <1>3, RunningCall DEF Asked
<1>6. ContextInv(t)'
  BY <1>2, <1>3 DEF ContextInv
<1>7. ctxs' = [ctxs EXCEPT ![t] = ctxs[t]] /\ IsContext(ctxs[t])
  BY RunningCall DEF AeadInv, Structure
<1>8. QED
  BY <1>1, <1>2, <1>3, <1>4, <1>5, <1>6, <1>7, ThreadStep

LEMMA ProcessAADInv ==
  ASSUME AeadInv, NEW t \in Threads, ProcessAAD(t)
  PROVE  AeadInv'
<1> DEFINE call == calls[t]
           piece == call.aad[call.fed + 1]
<1>1. /\ call.pc = "aad" /\ call.fed < Len(call.aad) /\ process_aad(t, piece)
      /\ UNCHANGED << obj, keybuf >>
  BY DEF ProcessAAD
<1>2. /\ call.fed \in 0 .. Len(call.aad) /\ call.aad \in Seq(Pieces(t)) /\ Len(call.aad) \in Nat
      /\ call.fed + 1 \in 1 .. Len(call.aad) /\ DOMAIN call.aad = 1 .. Len(call.aad)
      /\ piece.len \in Nat
  BY <1>1, RunningCall DEF ContextInv
<1>3. CASE \E kind \in {"TypeError", "OverflowError"} :
             /\ ~(piece.buffer /\ piece.len <= MaxInt)
             /\ Return(t, Failed(kind)) /\ UNCHANGED ctxs
  <2>1. PICK kind \in {"TypeError", "OverflowError"} :
             /\ ~(piece.buffer /\ piece.len <= MaxInt)
             /\ Return(t, Failed(kind)) /\ UNCHANGED ctxs
    BY <1>3
  <2>2. /\ Failed(kind).kind # "ok" /\ Failed(kind) # Failed("panic")
        /\ Failed(kind) # Failed("InternalError")
    BY DEF Failed
  <2>3. ASSUME NEW c, c.out = Failed(kind), c.aad = call.aad
        PROVE  Right(obj, c)
    <3>1. ASSUME NEW p, SealedByEncrypt(obj, c, p) PROVE FALSE
      BY <1>2, <2>1, <2>3, <3>1 DEF SealedByEncrypt
    <3>2. QED
      BY <2>2, <2>3, <3>1 DEF Right, SealsOwn, OpensGenuine, OpensSealed, RefusedAtLimit
  <2>4. QED
    BY <1>1, <2>1, <2>2, <2>3, ReturnInv
<1>4. CASE /\ ctxs' = [ctxs EXCEPT ![t].aad = Append(@, piece)]
           /\ calls' = [calls EXCEPT ![t].fed = @ + 1]
  <2> DEFINE c == [call EXCEPT !.fed = call.fed + 1]
             x == [ctxs[t] EXCEPT !.aad = Append(ctxs[t].aad, piece)]
  <2>1. calls' = [calls EXCEPT ![t] = c] /\ ctxs' = [ctxs EXCEPT ![t] = x]
    BY <1>1, <1>4, RunningCall
  <2>2. /\ IsCall(c) /\ c.pc = "aad" /\ c.op = call.op /\ c.nonce = call.nonce
        /\ c.aad = call.aad /\ c.data = call.data /\ c.out = call.out
        /\ c.fed = call.fed + 1 /\ c.bufkey = call.bufkey
    <3> DEFINE n == call.fed + 1
    <3>1. call = [pc |-> call.pc, op |-> call.op, nonce |-> call.nonce, aad |-> call.aad,
                  data |-> call.data, fed |-> call.fed, bufkey |-> call.bufkey, out |-> call.out]
      BY <1>1, RunningCall DEF IsCall
    <3> HIDE DEF call, n
    <3>2. c = [pc |-> call.pc, op |-> call.op, nonce |-> call.nonce, aad |-> call.aad,
               data |-> call.data, fed |-> n, bufkey |-> call.bufkey, out |-> call.out]
      BY <3>1 DEF n
    <3> HIDE DEF c
    <3>3. QED
      BY <1>1, <3>2 DEF IsCall, n
  <2>3. /\ IsContext(x) /\ x.key = ctxs[t].key /\ x.nonce = ctxs[t].nonce /\ x.tag = ctxs[t].tag
        /\ x.aad = Append(ctxs[t].aad, piece)
    <3> DEFINE y == ctxs[t]
               a == Append(y.aad, piece)
    <3>1. y = [key |-> y.key, nonce |-> y.nonce, tag |-> y.tag, aad |-> y.aad]
      BY <1>1, RunningCall DEF IsContext
    <3> HIDE DEF y, a, piece
    <3>2. x = [key |-> y.key, nonce |-> y.nonce, tag |-> y.tag, aad |-> a]
      BY <3>1 DEF y, a
    <3> HIDE DEF x
    <3>3. QED
      BY <3>2 DEF IsContext, y, a
  <2> HIDE DEF c, x
  <2>4. calls'[t] = c /\ ctxs'[t] = x /\ obj' = obj
    BY <1>1, <2>1, RunningCall
  <2>5. Asked(t)'
    BY <1>1, <2>2, <2>4, RunningCall DEF Asked
  <2>6. x.aad = SubSeq(c.aad, 1, c.fed)
    <3>1. ctxs[t].aad = SubSeq(call.aad, 1, call.fed)
      BY <1>1, RunningCall DEF ContextInv
    <3> DEFINE a == call.aad
               n == call.fed
    <3>2. a \in Seq(Pieces(t)) /\ n \in 0 .. Len(a) - 1 /\ Len(a) \in Nat
      BY <1>1, <1>2
    <3> HIDE DEF a, n
    <3>3. Append(SubSeq(a, 1, n), a[n + 1]) = SubSeq(a, 1, n + 1)
      BY <3>2
    <3>4. QED
      BY <2>2, <2>3, <3>1, <3>3 DEF a, n
  <2>7. ContextInv(t)'
    <3>1. KeyOf(calls[t])' = KeyOf(calls[t])
      BY <2>2, <2>4 DEF KeyOf
    <3>2. /\ x.key = KeyOf(call) /\ x.nonce = call.nonce /\ call.out = None
          /\ call.op = "decrypt" => x.tag = SplitTag(obj, call.data)
      BY <1>1, <2>3, RunningCall DEF ContextInv
    <3>3. c.fed \in 0 .. Len(c.aad)
      BY <1>2, <2>2
    <3>4. QED
      BY <2>2, <2>4, <2>6, <3>1, <3>2, <3>3 DEF ContextInv
  <2>8. Results(obj, c)
    BY <1>1, <2>2, RunningCall DEF Results
  <2>9. QED
    BY <2>1, <2>2, <2>3, <2>4, <2>5, <2>7, <2>8, ThreadStep
<1>5. CASE ~piece.buffer
  BY <1>1, <1>3, <1>5 DEF process_aad
<1>6. CASE piece.buffer /\ piece.len > MaxInt
  <2>1. check_length(piece.len) = "OverflowError" /\ ~(piece.len <= MaxInt)
    BY <1>2, <1>6, AeadAssumption DEF check_length
  <2>2. Return(t, Failed("OverflowError")) /\ UNCHANGED ctxs
    BY <1>1, <1>6, <2>1 DEF process_aad
  <2>3. QED
    BY <1>3, <2>1, <2>2
<1>7. CASE piece.buffer /\ piece.len <= MaxInt
  <2>1. check_length(piece.len) = "ok"
    BY <1>2, <1>7, AeadAssumption DEF check_length
  <2>2. QED
    BY <1>1, <1>4, <1>7, <2>1 DEF process_aad, ContextOf
<1>8. QED
  BY <1>2, <1>5, <1>6, <1>7, AeadAssumption

\* Once all the associated data is fed, the context stands for the message
LEMMA ContextReady ==
  ASSUME AeadInv, NEW t \in Threads, calls[t].pc = "aad", calls[t].fed = Len(calls[t].aad)
  PROVE  \A d : Message(ctxs[t].key, ctxs[t].nonce, ctxs[t].aad, d) = MessageOf(obj, calls[t], d)
<1>1. ctxs[t].key = KeyFor(obj, calls[t]) /\ ctxs[t].nonce = calls[t].nonce
  BY RunningCall DEF ContextInv, KeyFor, KeyOf
<1>2. ctxs[t].aad = calls[t].aad
  <2> DEFINE a == calls[t].aad
  <2>1. a \in Seq(Pieces(t)) /\ ctxs[t].aad = SubSeq(a, 1, Len(a))
    BY RunningCall DEF ContextInv
  <2> HIDE DEF a
  <2>2. SubSeq(a, 1, Len(a)) = a
    BY <2>1
  <2>3. QED
    BY <2>1, <2>2 DEF a
<1>3. QED
  BY <1>1, <1>2 DEF MessageOf

\* A message that encrypt returns is the one it was asked to seal
LEMMA EncryptRight ==
  ASSUME AeadInv, NEW t \in Threads, calls[t].pc = "aad", calls[t].op = "encrypt",
         NEW c, c.out = Ok(Sealed(obj, MessageOf(obj, calls[t], calls[t].data))),
         c.op = calls[t].op, c.nonce = calls[t].nonce, c.aad = calls[t].aad,
         c.data = calls[t].data, c.bufkey = calls[t].bufkey
  PROVE  Right(obj, c)
<1>1. MessageOf(obj, c, c.data) = MessageOf(obj, calls[t], calls[t].data)
  BY DEF MessageOf, KeyFor
<1>2. PICK r \in Requests(t, obj) : r.op = "encrypt" /\ r.data = c.data /\ Check(obj, r) = "ok"
  BY RunningCall
<1>3. check_length(Len(c.data)) = "ok"
  BY <1>2 DEF Check, EncryptCheck
<1>4. Len(c.data) <= MaxInt
  <2>1. Len(c.data) \in Nat
    BY RunningCall
  <2>2. QED
    BY <1>3, <2>1, AeadAssumption DEF check_length
<1>5. c.out.bytes = Sealed(obj, MessageOf(obj, c, c.data))
  BY <1>1 DEF Ok
<1>6. c.out # Failed("InternalError")
  BY DEF Ok, Failed
<1>7. QED
  BY <1>4, <1>5, <1>6 DEF Right, SealsOwn, OpensGenuine, OpensSealed, RefusedAtLimit

\* decrypt opens what is genuine and nothing else
LEMMA DecryptRight ==
  ASSUME AeadInv, NEW t \in Threads, calls[t].pc = "aad", calls[t].fed = Len(calls[t].aad),
         calls[t].op = "decrypt",
         NEW c, c.out = Opened(obj, ctxs[t], SplitBody(obj, calls[t].data)),
         c.op = calls[t].op, c.nonce = calls[t].nonce, c.aad = calls[t].aad,
         c.data = calls[t].data, c.bufkey = calls[t].bufkey
  PROVE  Right(obj, c)
<1> DEFINE x == ctxs[t]
           body == SplitBody(obj, c.data)
<1>1. \A d : Message(x.key, x.nonce, x.aad, d) = MessageOf(obj, c, d)
  BY ContextReady DEF MessageOf, KeyFor
<1>2. x.tag = SplitTag(obj, c.data) /\ obj.tag_len \in Nat \ {0}
  BY RunningCall DEF ContextInv
<1>3. c.data \in Seq(Bytes(t)) /\ obj.tag_len <= Len(c.data)
  <2>1. PICK r \in Requests(t, obj) : r.op = "decrypt" /\ r.data = c.data /\ Check(obj, r) = "ok"
    BY RunningCall
  <2>2. ~(Len(c.data) < obj.tag_len)
    BY <2>1 DEF Check, DecryptCheck
  <2>3. c.data \in Seq(Bytes(t)) /\ Len(c.data) \in Nat
    BY RunningCall
  <2>4. QED
    BY <1>2, <2>2, <2>3
<1>4. Joined(obj, body, x.tag) = c.data
  BY <1>2, <1>3, JoinedSplit
<1>5. OpensGenuine(obj, c)
  <2> SUFFICES ASSUME c.out.kind = "ok"
               PROVE  c.data = Sealed(obj, MessageOf(obj, c, c.out.bytes))
    BY DEF OpensGenuine
  <2>1. PICK d : /\ Opened(obj, x, body) = Ok(d)
                 /\ body = Body(Message(x.key, x.nonce, x.aad, d))
                 /\ x.tag = Tag(Message(x.key, x.nonce, x.aad, d), obj.tag_len)
    BY OpenedIsGenuine
  <2>2. c.out.bytes = d
    BY <2>1 DEF Ok
  <2>3. QED
    BY <1>1, <1>4, <2>1, <2>2 DEF Sealed
<1>6. ASSUME NEW p, SealedByEncrypt(obj, c, p) PROVE c.out = Ok(p)
  <2>1. /\ body = Body(Message(x.key, x.nonce, x.aad, p))
        /\ x.tag = Tag(Message(x.key, x.nonce, x.aad, p), obj.tag_len) /\ Len(p) \in Nat
    BY <1>1, <1>2, <1>6, SealedParts
  <2>2. Opened(obj, x, Body(Message(x.key, x.nonce, x.aad, p))) = Ok(p)
    BY <1>2, <2>1, GenuineIsOpened
  <2>3. QED
    BY <2>1, <2>2
<1>7. QED
  BY <1>5, <1>6 DEF Right, SealsOwn, OpensSealed, RefusedAtLimit

\* Where OpenSSL fails on empty data, encrypt seals no empty data
LEMMA EmptyRight ==
  ASSUME AeadInv, NEW t \in Threads, calls[t].pc = "aad", calls[t].op = "decrypt",
         SplitBody(obj, calls[t].data) = << >>,
         obj.cls \in {"AESSIV", "AESGCMSIV"}, obj.build \notin {"3.5", "boringssl"},
         NEW c, c.out = Failed("InvalidTag"),
         c.op = calls[t].op, c.nonce = calls[t].nonce, c.aad = calls[t].aad,
         c.data = calls[t].data, c.bufkey = calls[t].bufkey
  PROVE  Right(obj, c)
<1>1. c.out.kind # "ok"
  BY DEF Failed
<1>2. ASSUME NEW p, SealedByEncrypt(obj, c, p) PROVE FALSE
  <2>1. obj.tag_len \in Nat \ {0} /\ obj.cls \in Classes
    BY RunningCall
  <2>2. Len(p) = 0
    <3>1. SplitBody(obj, c.data) = Body(MessageOf(obj, c, p)) /\ Len(Body(MessageOf(obj, c, p))) = Len(p)
      BY <1>2, <2>1, SealedParts
    <3>2. Len(<< >>) = 0
      OBVIOUS
    <3>3. QED
      BY <3>1, <3>2
  <2>3. p = << >>
    <3>1. p \in Seq({p[i] : i \in DOMAIN p})
      BY <1>2 DEF SealedByEncrypt
    <3>2. QED
      BY <2>2, <3>1
  <2>4. QED
    BY <1>2, <2>1, <2>3, ChecksFit
<1>3. QED
  BY <1>1, <1>2 DEF Right, SealsOwn, OpensGenuine, OpensSealed, RefusedAtLimit

\* The check of encrypt lets one length pass that does not fit, the first one
LEMMA LimitRight ==
  ASSUME AeadInv, NEW t \in Threads, calls[t].pc = "aad", calls[t].op = "encrypt",
         ~CcmLengthFits(obj, calls[t].nonce, Len(calls[t].data))
  PROVE  obj.cls = "AESCCM" /\ Len(calls[t].data) = MaxLength(calls[t].nonce)
<1> DEFINE n == Len(calls[t].data)
           k == calls[t].nonce.len
           shift == ByteBits * (15 - k)
<1>1. obj.cls = "AESCCM" /\ ~(n < 2 ^ shift)
  BY DEF CcmLengthFits
<1>2. n \in Nat /\ k \in Nat
  BY <1>1, RunningCall
<1>3. PICK r \in Requests(t, obj) :
        /\ r.op = "encrypt" /\ r.nonce = calls[t].nonce /\ r.data = calls[t].data
        /\ Check(obj, r) = "ok"
  BY RunningCall
<1>4. AesCcm_Encrypt_Check(r) = "ok"
  BY <1>1, <1>3 DEF Check, ClassCheck
<1>5. /\ k \in 7 .. 13 /\ n <= MaxInt /\ ~LongerThan(n, MaxLength(calls[t].nonce))
  <2>1. /\ ~(r.nonce.len < 7 \/ r.nonce.len > 13) /\ check_length(Len(r.data)) = "ok"
        /\ ~LongerThan(Len(r.data), MaxLength(r.nonce))
    BY <1>4 DEF AesCcm_Encrypt_Check
  <2>2. ~(n > MaxInt)
    BY <1>3, <2>1 DEF check_length
  <2>3. MaxInt \in Nat
    BY AeadAssumption
  <2>4. QED
    BY <1>2, <1>3, <2>1, <2>2, <2>3
<1>6. shift \in 0 .. 8 * ByteBits
  <2>1. 15 - k \in 2 .. 8 /\ ByteBits \in Nat
    BY <1>5, AeadAssumption
  <2> DEFINE l == 15 - k
  <2>2. l \in {2, 3, 4, 5, 6, 7, 8}
    BY <2>1
  <2> HIDE DEF l
  <2>3. ByteBits * l \in 0 .. 8 * ByteBits
    BY <2>1, <2>2
  <2>4. QED
    BY <2>3 DEF l
<1>7. MaxLength(calls[t].nonce) = IF shift >= UsizeBits THEN None ELSE 2 ^ shift
  BY DEF MaxLength
<1> HIDE DEF n, k, shift
<1>8. 2 ^ shift \in Nat /\ (shift >= UsizeBits => MaxInt < 2 ^ shift)
  BY <1>6, AeadAssumption
<1>9. MaxInt \in Nat
  BY AeadAssumption
<1>10. ~(shift >= UsizeBits)
  BY <1>1, <1>2, <1>5, <1>8, <1>9
<1>11. MaxLength(calls[t].nonce) = 2 ^ shift
  BY <1>7, <1>10
<1>12. ~(2 ^ shift < n)
  <2>1. 2 ^ shift # None
    BY <1>8, AeadAssumption
  <2>2. QED
    BY <1>5, <1>11, <2>1 DEF LongerThan
<1>13. n = 2 ^ shift
  BY <1>1, <1>2, <1>8, <1>12
<1>14. QED
  BY <1>1, <1>11, <1>13 DEF n

LEMMA ProcessDataInv ==
  ASSUME AeadInv, NEW t \in Threads, ProcessData(t)
  PROVE  AeadInv'
<1> DEFINE call == calls[t]
           body == IF call.op = "encrypt" THEN call.data ELSE SplitBody(obj, call.data)
<1>1. call.pc = "aad" /\ call.fed = Len(call.aad) /\ UNCHANGED << obj, keybuf, ctxs >>
  BY DEF ProcessData
<1>2. AssertsHold(Len(body), BlockOf(obj.cls))
  <2>1. Len(call.data) \in Nat /\ call.data \in Seq(Bytes(t)) /\ obj.tag_len \in Nat
    BY <1>1, RunningCall
  <2>2. call.op # "encrypt" => Len(SplitBody(obj, call.data)) \in Nat
    <3> SUFFICES ASSUME call.op # "encrypt" PROVE Len(SplitBody(obj, call.data)) \in Nat
      OBVIOUS
    <3>1. PICK r \in Requests(t, obj) : r.op = "decrypt" /\ r.data = call.data /\ Check(obj, r) = "ok"
      BY <1>1, RunningCall
    <3>2. ~(Len(call.data) < obj.tag_len)
      BY <3>1 DEF Check, DecryptCheck
    <3>3. SplitBody(obj, call.data) \in Seq(Bytes(t))
      BY <2>1, <3>2, JoinedSplit
    <3>4. QED
      BY <3>3
  <2>3. Len(body) \in Nat
    BY <2>1, <2>2
  <2>4. QED
    BY <2>3, AssertionsHold, BlockOfType
<1>3. CASE /\ call.op = "encrypt"
           /\ Return(t, Ok(Sealed(obj, Message(ctxs[t].key, ctxs[t].nonce, ctxs[t].aad, call.data))))
  <2> DEFINE out == Ok(Sealed(obj, MessageOf(obj, calls[t], calls[t].data)))
  <2>1. Return(t, out)
    BY <1>1, <1>3, ContextReady
  <2>2. out # Failed("panic")
    BY DEF Ok, Failed
  <2> HIDE DEF out
  <2>3. ASSUME NEW c, c.pc = "done", c.out = out, c.op = call.op, c.nonce = call.nonce,
               c.aad = call.aad, c.data = call.data, c.bufkey = call.bufkey
        PROVE  Right(obj, c)
    BY <1>1, <1>3, <2>3, EncryptRight DEF out
  <2>4. QED
    BY <1>1, <2>1, <2>2, <2>3, ReturnInv
<1>4. CASE call.op = "decrypt" /\ Return(t, Opened(obj, ctxs[t], SplitBody(obj, call.data)))
  <2> DEFINE out == Opened(obj, ctxs[t], SplitBody(obj, call.data))
  <2>1. out # Failed("panic")
    BY DEF Opened, Ok, Failed
  <2> HIDE DEF out
  <2>2. ASSUME NEW c, c.pc = "done", c.out = out, c.op = call.op, c.nonce = call.nonce,
               c.aad = call.aad, c.data = call.data, c.bufkey = call.bufkey
        PROVE  Right(obj, c)
    BY <1>1, <1>4, <2>2, DecryptRight DEF out
  <2>3. Return(t, out)
    BY <1>4 DEF out
  <2>4. QED
    BY <1>1, <2>1, <2>2, <2>3, ReturnInv
<1>5. CASE /\ call.op = "decrypt" /\ SplitBody(obj, call.data) = << >>
           /\ obj.cls \in {"AESSIV", "AESGCMSIV"} /\ obj.build \notin {"3.5", "boringssl"}
           /\ Return(t, Failed("InvalidTag"))
  <2> DEFINE out == Failed("InvalidTag")
  <2>1. out # Failed("panic")
    BY DEF Failed
  <2>2. ASSUME NEW c, c.pc = "done", c.out = out, c.op = call.op, c.nonce = call.nonce,
               c.aad = call.aad, c.data = call.data, c.bufkey = call.bufkey
        PROVE  Right(obj, c)
    BY <1>1, <1>5, <2>2, EmptyRight
  <2> HIDE DEF out
  <2>3. Return(t, out)
    BY <1>5 DEF out
  <2>4. QED
    BY <1>1, <2>1, <2>2, <2>3, ReturnInv
<1>6. CASE /\ ~CcmLengthFits(obj, ctxs[t].nonce, Len(body))
           /\ call.op = "encrypt" /\ Return(t, Failed("InternalError"))
  <2>1. obj.cls = "AESCCM" /\ Len(call.data) = MaxLength(call.nonce)
    BY <1>1, <1>6, RunningCall, LimitRight DEF ContextInv
  <2>2. Failed("InternalError") # Failed("panic") /\ Failed("InternalError").kind # "ok"
    BY DEF Failed
  <2>3. ASSUME NEW c, c.out = Failed("InternalError"), c.op = call.op, c.nonce = call.nonce,
               c.data = call.data
        PROVE  Right(obj, c)
    BY <1>6, <2>1, <2>2, <2>3 DEF Right, SealsOwn, OpensGenuine, OpensSealed, RefusedAtLimit
  <2>4. QED
    BY <1>1, <1>6, <2>2, <2>3, ReturnInv
<1>7. CASE /\ ~CcmLengthFits(obj, ctxs[t].nonce, Len(body))
           /\ call.op = "decrypt" /\ Return(t, Failed("InvalidTag"))
  <2>1. ~CcmLengthFits(obj, call.nonce, Len(SplitBody(obj, call.data))) /\ obj.tag_len \in Nat \ {0}
    BY <1>1, <1>7, RunningCall DEF ContextInv
  <2>2. Failed("InvalidTag") # Failed("panic") /\ Failed("InvalidTag").kind # "ok"
    BY DEF Failed
  <2>3. ASSUME NEW c, c.out = Failed("InvalidTag"), c.op = call.op, c.nonce = call.nonce,
               c.data = call.data
        PROVE  Right(obj, c)
    <3>1. ASSUME NEW p, SealedByEncrypt(obj, c, p) PROVE FALSE
      <4>1. Len(SplitBody(obj, c.data)) = Len(p)
        BY <2>1, <3>1, SealedParts
      <4>2. QED
        BY <2>1, <2>3, <3>1, <4>1 DEF SealedByEncrypt
    <3>2. QED
      BY <1>7, <2>2, <2>3, <3>1 DEF Right, SealsOwn, OpensGenuine, OpensSealed, RefusedAtLimit
  <2>4. QED
    BY <1>1, <1>7, <2>2, <2>3, ReturnInv
<1>8. QED
  BY <1>2, <1>3, <1>4, <1>5, <1>6, <1>7 DEF ProcessData, ContextOf

LEMMA AeadStep == AeadInv /\ [Next]_vars => AeadInv'
<1> SUFFICES ASSUME AeadInv, [Next]_vars PROVE AeadInv'
  OBVIOUS
<1>1. ASSUME NEW f \in Configs, New(f) PROVE AeadInv'
  BY <1>1, NewInv
<1>2. CASE OverwriteKey \/ UNCHANGED vars
  BY <1>2, OverwriteInv
<1>3. ASSUME NEW t \in Threads, NEW r \in Requests(t, obj), StartCall(t, r) PROVE AeadInv'
  BY <1>3, StartCallInv
<1>4. ASSUME NEW t \in Threads, ProcessAAD(t) PROVE AeadInv'
  BY <1>4, ProcessAADInv
<1>5. ASSUME NEW t \in Threads, ProcessData(t) PROVE AeadInv'
  BY <1>5, ProcessDataInv
<1>6. QED
  BY <1>1, <1>2, <1>3, <1>4, <1>5 DEF Next

LEMMA AeadInvariant == Spec => []AeadInv
BY AeadInit, AeadStep, PTL DEF Spec

-----------------------------------------------------------------------------
(* The properties that the runs check                                      *)

\* encrypt seals the caller's own nonce, associated data and plaintext under
\* the object's key, whatever the other threads do with the same object:
\* the copied contexts of EvpCipherAead are never shared
THEOREM SealsOnlyOwn == Spec => []SealsItsOwn
BY AeadInvariant, ResultsSuffice, PTL

\* decrypt returns nothing but the plaintext of a message sealed with the same
\* key, nonce, associated data and tag length: in each class some call of
\* OpenSSL checks the tag
THEOREM OpensGenuineOnly == Spec => []OpensOnlyGenuine
BY AeadInvariant, ResultsSuffice, PTL

\* What encrypt returns decrypt accepts, for any limits on lengths; no plaintext
\* that the checks of encrypt let pass is refused by OpenSSL, but one of CCM
\* whose length is exactly max_length; and no assertion on the lengths that
\* OpenSSL returns fails for any block size
THEOREM LimitsFit == Spec => []BoundariesFit
BY AeadInvariant, ResultsSuffice, PTL
=============================================================================
