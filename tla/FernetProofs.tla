---------------------------- MODULE FernetProofs ----------------------------
(***************************************************************************)
(* Proofs about module Fernet, for every set of keys, messages, times and  *)
(* lifetimes and every bound: rotation gives no token a longer life, and   *)
(* MultiFernet, which reads the clock anew for every key, implements the   *)
(* promise of FernetPromise that a call is decided at one instant.         *)
(***************************************************************************)
EXTENDS Fernet, TLAPS

-----------------------------------------------------------------------------
(* The inductive invariant                                                 *)

Issues == [token : Tokens(Data), key : Keys, data : Data, at : Int, from : Nat]

Calls == [op : {"decrypt", "extract_timestamp", "rotate"}, token : Tokens(Data),
          ttl : Int \cup {Nil}, now : Int \cup {Nil}]

FernetTypes ==
  /\ clock \in Int
  /\ ring \in Seq(Keys) /\ Len(ring) >= 1
  /\ issued \in Seq(Issues)
  /\ call # Nil => call \in Calls
  /\ turn \in 1 .. Len(ring)

\* Every token is what encrypt_from_parts made of its key, message, time and
\* iv, and no two have the same iv
MadeOf ==
  \A i \in DOMAIN issued :
    issued[i].token = encrypt_from_parts(issued[i].key, issued[i].data, issued[i].at, i)

\* A token that is presented has the MAC of one that was made: without the key
\* there is no other
MacOfIssued ==
  call # Nil => \E i \in DOMAIN issued : call.token.mac = issued[i].token.mac

\* Only a call has an answer and a turn, and only decrypt is given a lifetime
CallShape ==
  /\ call = Nil => answer = Nil /\ turn = 1
  /\ call # Nil /\ call.op # "decrypt" => call.ttl = Nil

FernetInv == FernetTypes /\ MadeOf /\ MacOfIssued /\ CallShape /\ RotationKeepsAge

-----------------------------------------------------------------------------
(* Tokens                                                                  *)

\* What encrypt_from_parts makes is a token
LEMMA TokenType ==
  ASSUME NEW key \in Keys, NEW data \in Data, NEW at \in Int, NEW iv \in Nat
  PROVE  encrypt_from_parts(key, data, at, iv) \in Tokens(Data)
BY DEF encrypt_from_parts, Mac, Tokens, Macs, Ciphertexts

\* A token that is issued keeps the invariant if it has the message and the
\* time of the one that it replaces
LEMMA IssueInv ==
  ASSUME FernetInv, NEW data \in Data, NEW at \in Int, NEW from \in Nat,
         issued' = Append(issued, NewToken(data, at, from)),
         from # 0 => /\ from \in DOMAIN issued
                     /\ data = issued[from].data /\ at = issued[from].at
  PROVE  /\ issued' \in Seq(Issues) /\ MadeOf' /\ RotationKeepsAge'
         /\ \A i \in DOMAIN issued : i \in DOMAIN issued' /\ issued'[i] = issued[i]
<1> DEFINE n == Len(issued) + 1
           new == NewToken(data, at, from)
<1>1. n \in Nat /\ DOMAIN issued = 1 .. Len(issued) /\ Len(issued) \in Nat
  BY DEF FernetInv, FernetTypes
<1>2. ring[1] \in Keys
  BY DEF FernetInv, FernetTypes
<1>3. encrypt_from_parts(ring[1], data, at, n) \in Tokens(Data)
  BY <1>1, <1>2, TokenType
<1>4. new \in Issues
  BY <1>2, <1>3 DEF NewToken, Issues
<1>5. /\ issued' \in Seq(Issues) /\ DOMAIN issued' = 1 .. n
      /\ issued'[n] = new /\ \A i \in DOMAIN issued : issued'[i] = issued[i]
  <2> HIDE DEF new
  <2>1. issued \in Seq(Issues)
    BY DEF FernetInv, FernetTypes
  <2>2. issued' = Append(issued, new)
    BY DEF new
  <2>3. QED
    BY <1>1, <1>4, <2>1, <2>2
<1>6. /\ new.token = encrypt_from_parts(ring[1], data, at, n) /\ new.key = ring[1]
      /\ new.data = data /\ new.at = at /\ new.from = from
  BY DEF NewToken
<1> HIDE DEF new
<1>7. MadeOf'
  <2> SUFFICES ASSUME NEW i \in DOMAIN issued'
               PROVE  issued'[i].token
                        = encrypt_from_parts(issued'[i].key, issued'[i].data, issued'[i].at, i)
    BY DEF MadeOf
  <2>1. CASE i = n
    BY <2>1, <1>5, <1>6
  <2>2. CASE i # n
    <3>1. i \in DOMAIN issued /\ issued'[i] = issued[i]
      BY <2>2, <1>1, <1>5
    <3>2. QED
      BY <3>1 DEF FernetInv, MadeOf
  <2>3. QED
    BY <2>1, <2>2
<1>8. RotationKeepsAge'
  <2> SUFFICES ASSUME NEW i \in DOMAIN issued', issued'[i].from # 0
               PROVE  /\ issued'[i].from < i
                      /\ issued'[i].data = issued'[issued'[i].from].data
                      /\ issued'[i].token.ts = issued'[issued'[i].from].at
    BY DEF RotationKeepsAge
  <2>1. CASE i = n
    <3>1. new.token.ts = at
      BY <1>6 DEF encrypt_from_parts
    <3>2. from \in DOMAIN issued /\ from < n /\ issued'[from] = issued[from]
      BY <2>1, <1>1, <1>5, <1>6
    <3>3. QED
      BY <2>1, <3>1, <3>2, <1>5, <1>6
  <2>2. CASE i # n
    <3>1. i \in DOMAIN issued /\ issued'[i] = issued[i]
      BY <2>2, <1>1, <1>5
    <3>2. issued[i] \in Issues
      BY <3>1 DEF FernetInv, FernetTypes
    <3>3. issued[i].from \in Nat /\ issued[i].from < i
      BY <3>1, <3>2 DEF FernetInv, RotationKeepsAge, Issues
    <3>4. issued[i].from \in DOMAIN issued
      BY <3>1, <3>3, <1>1
    <3>5. issued'[issued[i].from] = issued[issued[i].from]
      BY <3>4, <1>5
    <3>6. QED
      BY <3>1, <3>5 DEF FernetInv, RotationKeepsAge
  <2>3. QED
    BY <2>1, <2>2
<1>9. QED
  BY <1>1, <1>5, <1>7, <1>8

LEMMA IssuedTypes ==
  ASSUME FernetInv, NEW i \in DOMAIN issued
  PROVE  /\ issued[i].token \in Tokens(Data) /\ issued[i].key \in Keys
         /\ issued[i].data \in Data /\ issued[i].at \in Int /\ issued[i].from \in Nat
<1>1. issued[i] \in Issues
  BY DEF FernetInv, FernetTypes
<1>2. QED
  BY <1>1 DEF Issues

\* What the presented token holds when it is one that was issued, and that the
\* key it was made with is the only one that verifies it
LEMMA IssuedToken ==
  ASSUME FernetInv, NEW i \in DOMAIN issued, issued[i].token = call.token,
         NEW key \in Keys
  PROVE  /\ call.token.shape = "token" /\ call.token.ts = issued[i].at
         /\ call.token.iv = i /\ call.token.ct.iv = i
         /\ call.token.ct.data = issued[i].data /\ call.token.ct.enc = issued[i].key.enc
         /\ verify_signature(key, call.token) <=> key = issued[i].key
<1>1. call.token = encrypt_from_parts(issued[i].key, issued[i].data, issued[i].at, i)
  BY DEF FernetInv, MadeOf
<1>2. issued[i].key \in Keys
  BY IssuedTypes
<1>3. /\ call.token.shape = "token" /\ call.token.ts = issued[i].at
      /\ call.token.iv = i /\ call.token.ct.iv = i
      /\ call.token.ct.data = issued[i].data /\ call.token.ct.enc = issued[i].key.enc
  BY <1>1 DEF encrypt_from_parts
<1>4. call.token.mac = Mac(issued[i].key, call.token.ts, call.token.iv, call.token.ct)
  BY <1>1 DEF encrypt_from_parts
<1>5. verify_signature(key, call.token) => key.sign = issued[i].key.sign
  BY <1>4 DEF verify_signature, Mac
<1>6. verify_signature(key, call.token) <=> key = issued[i].key
  BY <1>2, <1>4, <1>5, FernetTokensAssumption DEF verify_signature
<1>7. QED
  BY <1>3, <1>6

\* A token that a key verifies is, byte for byte, one that this key made
LEMMA VerifiedIsIssued ==
  ASSUME FernetInv, call # Nil, NEW key \in Keys,
         get_unverified_token_data(call.token), verify_signature(key, call.token)
  PROVE  \E i \in DOMAIN issued : issued[i].token = call.token /\ issued[i].key = key
<1>1. PICK i \in DOMAIN issued : call.token.mac = issued[i].token.mac
  BY DEF FernetInv, MacOfIssued
<1>2. issued[i].token = encrypt_from_parts(issued[i].key, issued[i].data, issued[i].at, i)
  BY DEF FernetInv, MadeOf
<1> DEFINE t == issued[i].token
<1>3. t \in Tokens(Data) /\ issued[i].key \in Keys
  BY IssuedTypes
<1>4. t.shape = "token" /\ t.mac = Mac(issued[i].key, t.ts, t.iv, t.ct)
  BY <1>2 DEF encrypt_from_parts
<1>5. call.token \in Tokens(Data)
  BY DEF FernetInv, FernetTypes, Calls
<1> HIDE DEF t
<1>6. Mac(issued[i].key, t.ts, t.iv, t.ct)
        = Mac(key, call.token.ts, call.token.iv, call.token.ct)
  BY <1>1, <1>4 DEF verify_signature, t
<1>7. t.ts = call.token.ts /\ t.iv = call.token.iv /\ t.ct = call.token.ct
  BY <1>6 DEF Mac
<1>8. call.token.shape = "token" /\ call.token.mac = t.mac
  BY <1>1 DEF get_unverified_token_data, t
<1>9. t = call.token
  BY <1>3, <1>4, <1>5, <1>7, <1>8 DEF Tokens
<1>10. key = issued[i].key
  BY <1>9, IssuedToken DEF t
<1>11. QED
  BY <1>9, <1>10 DEF t

-----------------------------------------------------------------------------
(* What one key answers                                                    *)

Moment == IF call.now = Nil THEN clock ELSE call.now

\* A key refuses a token unless it made it and the time is right, and otherwise
\* answers with what the token was made of
LEMMA OutcomeRefuses ==
  ASSUME FernetInv, call # Nil, NEW key \in Keys, Outcome(key) # InvalidToken
  PROVE  \E i \in DOMAIN issued :
           /\ issued[i].token = call.token /\ issued[i].key = key
           /\ InTime(issued[i].at, call.ttl, Moment)
<1>1. get_unverified_token_data(call.token) /\ verify_signature(key, call.token)
  BY DEF Outcome, decrypt, decrypt_data, extract_timestamp
<1>2. PICK i \in DOMAIN issued : issued[i].token = call.token /\ issued[i].key = key
  BY <1>1, VerifiedIsIssued
<1>3. call.token.ts = issued[i].at
  BY <1>2, IssuedToken
<1>4. CASE call.op = "extract_timestamp"
  BY <1>2, <1>4 DEF FernetInv, CallShape, InTime
<1>5. CASE call.op # "extract_timestamp"
  <2>1. InTime(call.token.ts, call.ttl, Moment)
    BY <1>5 DEF Outcome, decrypt, decrypt_data, Moment
  <2>2. QED
    BY <1>2, <1>3, <2>1
<1>6. QED
  BY <1>4, <1>5

LEMMA OutcomeAccepts ==
  ASSUME FernetInv, call # Nil, NEW key \in Keys, NEW i \in DOMAIN issued,
         issued[i].token = call.token, issued[i].key = key,
         InTime(issued[i].at, call.ttl, Moment)
  PROVE  /\ Outcome(key) = Found(IF call.op = "extract_timestamp" THEN issued[i].at
                                 ELSE issued[i].data)
         /\ Outcome(key) # InvalidToken
<1>1. /\ get_unverified_token_data(call.token) /\ verify_signature(key, call.token)
      /\ call.token.ts = issued[i].at /\ call.token.ct.data = issued[i].data
      /\ call.token.ct.enc = key.enc /\ call.token.ct.iv = call.token.iv
  BY IssuedToken DEF get_unverified_token_data
<1>2. CASE call.op = "extract_timestamp"
  BY <1>1, <1>2 DEF Outcome, extract_timestamp, Found, InvalidToken
<1>3. CASE call.op # "extract_timestamp"
  <2>1. InTime(call.token.ts, call.ttl, Moment)
    BY <1>1
  <2>2. decrypt(key, call.token, call.ttl, Moment) = Found(call.token.ct.data)
    BY <1>1, <2>1 DEF decrypt, decrypt_data
  <2>3. QED
    BY <1>1, <1>3, <2>2 DEF Outcome, Moment, Found, InvalidToken
<1>4. QED
  BY <1>2, <1>3

-----------------------------------------------------------------------------
(* Every step keeps the invariant                                          *)

LEMMA FernetInit == Init => FernetInv
<1> SUFFICES ASSUME Init PROVE FernetInv
  OBVIOUS
<1>1. PICK k \in Keys : ring = << k >>
  BY DEF Init
<1>2. ring \in Seq(Keys) /\ Len(ring) = 1
  BY <1>1
<1>3. clock \in Int /\ issued = << >> /\ call = Nil /\ answer = Nil /\ turn = 1
  BY DEF Init
<1>4. DOMAIN issued = {}
  BY <1>3
<1>5. QED
  BY <1>2, <1>3, <1>4
  DEF FernetInv, FernetTypes, MadeOf, MacOfIssued, CallShape, RotationKeepsAge

\* What the invariant says holds while only the clock, the keys or the answer
\* change
LEMMA IssuedUnchanged ==
  ASSUME FernetInv, UNCHANGED issued
  PROVE  MadeOf' /\ RotationKeepsAge'
BY DEF FernetInv, MadeOf, RotationKeepsAge

LEMMA RingInv == FernetInv /\ (ClockChanges \/ AddKey \/ DropKey) => FernetInv'
<1> SUFFICES ASSUME FernetInv, ClockChanges \/ AddKey \/ DropKey PROVE FernetInv'
  OBVIOUS
<1>1. UNCHANGED << issued, call, answer, turn >>
  BY DEF ClockChanges, AddKey, DropKey
<1>2. MadeOf' /\ RotationKeepsAge' /\ MacOfIssued' /\ CallShape'
  BY <1>1, IssuedUnchanged DEF FernetInv, MacOfIssued, CallShape
<1>3. ring \in Seq(Keys) /\ Len(ring) \in Nat /\ Len(ring) >= 1
  BY DEF FernetInv, FernetTypes
<1>4. clock' \in Int
  BY DEF ClockChanges, AddKey, DropKey, FernetInv, FernetTypes
<1>5. ring' \in Seq(Keys) /\ Len(ring') >= 1 /\ (call # Nil => ring' = ring)
  <2>1. CASE ClockChanges
    BY <2>1, <1>3 DEF ClockChanges
  <2>2. CASE AddKey
    <3>1. PICK k \in Keys : ring' = << k >> \o ring
      BY <2>2 DEF AddKey
    <3>2. QED
      BY <2>2, <1>3, <3>1 DEF AddKey
  <2>3. CASE DropKey
    BY <2>3, <1>3 DEF DropKey
  <2>4. QED
    BY <2>1, <2>2, <2>3
<1>6. turn' \in 1 .. Len(ring')
  <2>1. CASE call = Nil
    <3>1. turn' = 1 /\ Len(ring') \in Nat
      BY <2>1, <1>1, <1>5 DEF FernetInv, CallShape
    <3>2. QED
      BY <3>1, <1>5
  <2>2. CASE call # Nil
    BY <2>2, <1>1, <1>5 DEF FernetInv, FernetTypes
  <2>3. QED
    BY <2>1, <2>2
<1>7. FernetTypes'
  BY <1>1, <1>4, <1>5, <1>6 DEF FernetInv, FernetTypes
<1>8. QED
  BY <1>2, <1>7 DEF FernetInv

LEMMA EncryptInv == FernetInv /\ Encrypt => FernetInv'
<1> SUFFICES ASSUME FernetInv, NEW data \in Data, NEW at \in Times \cup {clock},
                    encrypt_at_time(data, at)
             PROVE  FernetInv'
  BY DEF Encrypt
<1>1. at \in Int
  BY FernetAssumption DEF FernetInv, FernetTypes
<1>2. issued' = Append(issued, NewToken(data, at, 0))
  BY DEF encrypt_at_time
<1>3. /\ issued' \in Seq(Issues) /\ MadeOf' /\ RotationKeepsAge'
  BY <1>1, <1>2, IssueInv
<1>4. call = Nil /\ UNCHANGED << clock, ring, call, answer, turn >>
  BY DEF encrypt_at_time
<1>5. QED
  BY <1>3, <1>4 DEF FernetInv, FernetTypes, MacOfIssued, CallShape

\* A damaged token is a token, and its MAC is not touched
LEMMA DamagedToken ==
  ASSUME FernetInv, NEW token \in Presented
  PROVE  /\ token \in Tokens(Data)
         /\ \E i \in DOMAIN issued : token.mac = issued[i].token.mac
<1>1. PICK i \in DOMAIN issued : token \in Damaged(issued[i].token)
  BY DEF Presented
<1> DEFINE t == issued[i].token
<1>2. t \in Tokens(Data)
  BY IssuedTypes
<1> HIDE DEF t
<1>3. CASE token \in {t, [t EXCEPT !.shape = "other"]}
  BY <1>2, <1>3 DEF Tokens, t
<1>4. CASE \E at \in Times : token = [t EXCEPT !.ts = at]
  BY <1>2, <1>4, FernetAssumption DEF Tokens, t
<1>5. CASE \E j \in DOMAIN issued : token = [t EXCEPT !.ct = issued[j].token.ct]
  <2>1. PICK j \in DOMAIN issued : token = [t EXCEPT !.ct = issued[j].token.ct]
    BY <1>5
  <2>2. issued[j].token.ct \in Ciphertexts(Data)
    BY IssuedTypes DEF Tokens
  <2>3. QED
    BY <1>2, <2>1, <2>2 DEF Tokens, t
<1>6. CASE \E j \in DOMAIN issued : token = [t EXCEPT !.iv = issued[j].token.iv]
  <2>1. PICK j \in DOMAIN issued : token = [t EXCEPT !.iv = issued[j].token.iv]
    BY <1>6
  <2>2. issued[j].token.iv \in Nat
    BY IssuedTypes DEF Tokens
  <2>3. QED
    BY <1>2, <2>1, <2>2 DEF Tokens, t
<1>7. QED
  BY <1>1, <1>3, <1>4, <1>5, <1>6 DEF Damaged, t

\* The calls that are begun
BeginsCall(op, token, ttl, now) ==
  /\ op \in {"decrypt", "extract_timestamp", "rotate"} /\ token \in Presented
  /\ ttl \in Int \cup {Nil} /\ now \in Int \cup {Nil}
  /\ op # "decrypt" => ttl = Nil
  /\ Begin(op, token, ttl, now)

LEMMA Beginnings ==
  ASSUME Decrypt \/ DecryptAtTime \/ ExtractTimestamp \/ Rotate
  PROVE  \E op, token, ttl, now : BeginsCall(op, token, ttl, now)
<1>1. CASE Decrypt
  <2>1. PICK token \in Presented, ttl \in TTLs : Begin("decrypt", token, ttl, Nil)
    BY <1>1 DEF Decrypt
  <2>2. BeginsCall("decrypt", token, ttl, Nil)
    BY <2>1, FernetAssumption DEF BeginsCall
  <2>3. QED
    BY <2>2
<1>2. CASE DecryptAtTime
  <2>1. PICK token \in Presented, ttl \in TTLs \ {Nil}, now \in Times :
          Begin("decrypt", token, ttl, now)
    BY <1>2 DEF DecryptAtTime
  <2>2. BeginsCall("decrypt", token, ttl, now)
    BY <2>1, FernetAssumption DEF BeginsCall
  <2>3. QED
    BY <2>2
<1>3. CASE ExtractTimestamp
  <2>1. PICK token \in Presented : Begin("extract_timestamp", token, Nil, Nil)
    BY <1>3 DEF ExtractTimestamp
  <2>2. BeginsCall("extract_timestamp", token, Nil, Nil)
    BY <2>1 DEF BeginsCall
  <2>3. QED
    BY <2>2
<1>4. CASE Rotate
  <2>1. PICK token \in Presented : Begin("rotate", token, Nil, Nil)
    BY <1>4 DEF Rotate
  <2>2. BeginsCall("rotate", token, Nil, Nil)
    BY <2>1 DEF BeginsCall
  <2>3. QED
    BY <2>2
<1>5. QED
  BY <1>1, <1>2, <1>3, <1>4

LEMMA BeginInv ==
  ASSUME FernetInv, NEW op, NEW token, NEW ttl, NEW now, BeginsCall(op, token, ttl, now)
  PROVE  FernetInv'
<1>1. /\ call = Nil /\ call' = [op |-> op, token |-> token, ttl |-> ttl, now |-> now]
      /\ turn' = 1 /\ UNCHANGED << clock, ring, issued, answer >>
  BY DEF BeginsCall, Begin
<1>2. token \in Tokens(Data) /\ \E i \in DOMAIN issued : token.mac = issued[i].token.mac
  BY DamagedToken DEF BeginsCall
<1>3. call' \in Calls /\ call'.token = token /\ (call'.op # "decrypt" => call'.ttl = Nil)
  BY <1>1, <1>2 DEF BeginsCall, Calls
<1>4. MadeOf' /\ RotationKeepsAge'
  BY <1>1, IssuedUnchanged
<1>5. MacOfIssued'
  BY <1>1, <1>2, <1>3 DEF MacOfIssued
<1>6. FernetTypes'
  BY <1>1, <1>3 DEF FernetInv, FernetTypes
<1>7. CallShape'
  BY <1>1, <1>3 DEF FernetInv, CallShape
<1>8. QED
  BY <1>4, <1>5, <1>6, <1>7 DEF FernetInv

LEMMA TryInv == FernetInv /\ (TryFails \/ TrySucceeds \/ Return) => FernetInv'
<1> SUFFICES ASSUME FernetInv, TryFails \/ TrySucceeds \/ Return PROVE FernetInv'
  OBVIOUS
<1>1. UNCHANGED << clock, ring, issued >>
  BY DEF TryFails, TrySucceeds, Return
<1>2. MadeOf' /\ RotationKeepsAge'
  BY <1>1, IssuedUnchanged
<1>3. call' = call \/ call' = Nil
  BY DEF TryFails, TrySucceeds, Return
<1>4. MacOfIssued'
  BY <1>1, <1>3 DEF FernetInv, MacOfIssued
<1>5. turn' \in 1 .. Len(ring) /\ CallShape'
  <2>1. turn \in 1 .. Len(ring) /\ Len(ring) \in Nat
    BY DEF FernetInv, FernetTypes
  <2>2. CASE TryFails
    BY <2>1, <2>2 DEF TryFails, InCall, FernetInv, CallShape
  <2>3. CASE TrySucceeds
    BY <2>1, <2>3 DEF TrySucceeds, InCall, FernetInv, CallShape
  <2>4. CASE Return
    BY <2>1, <2>4 DEF Return, CallShape
  <2>5. QED
    BY <2>2, <2>3, <2>4
<1>6. FernetTypes'
  BY <1>1, <1>3, <1>5 DEF FernetInv, FernetTypes
<1>7. QED
  BY <1>2, <1>4, <1>5, <1>6 DEF FernetInv

\* A rotation finds the token that it replaces, and only that
LEMMA RotatedSource ==
  ASSUME FernetInv, RotateSucceeds
  PROVE  /\ Source \in DOMAIN issued /\ issued[Source].token = call.token
         /\ issued[Source].key = ring[turn]
         /\ InTime(issued[Source].at, call.ttl, Moment)
         /\ \A i \in DOMAIN issued : issued[i].token = call.token => i = Source
         /\ Outcome(ring[turn]) = Found(issued[Source].data)
         /\ call.token.ts = issued[Source].at
<1>1. call # Nil /\ call.op = "rotate" /\ Outcome(ring[turn]) # InvalidToken
  BY DEF RotateSucceeds, InCall
<1>2. ring[turn] \in Keys
  BY DEF FernetInv, FernetTypes
<1>3. PICK i \in DOMAIN issued :
        /\ issued[i].token = call.token /\ issued[i].key = ring[turn]
        /\ InTime(issued[i].at, call.ttl, Moment)
  BY <1>1, <1>2, OutcomeRefuses
<1>4. ASSUME NEW j \in DOMAIN issued, issued[j].token = call.token
      PROVE  call.token.iv = j
  BY <1>2, <1>4, IssuedToken
<1>5. Source = i
  <2>1. Source \in DOMAIN issued /\ issued[Source].token = call.token
    BY <1>3 DEF Source
  <2>2. QED
    BY <1>3, <1>4, <2>1
<1>6. \A j \in DOMAIN issued : issued[j].token = call.token => j = Source
  BY <1>3, <1>4, <1>5
<1>7. Outcome(ring[turn]) = Found(issued[i].data)
  <2>1. Outcome(ring[turn]) = Found(IF call.op = "extract_timestamp" THEN issued[i].at
                                    ELSE issued[i].data)
    BY <1>1, <1>2, <1>3, OutcomeAccepts
  <2>2. QED
    BY <1>1, <2>1
<1>8. call.token.ts = issued[i].at
  BY <1>2, <1>3, IssuedToken
<1>9. QED
  BY <1>3, <1>5, <1>6, <1>7, <1>8

LEMMA RotateInv == FernetInv /\ RotateSucceeds => FernetInv'
<1> SUFFICES ASSUME FernetInv, RotateSucceeds PROVE FernetInv'
  OBVIOUS
<1> DEFINE s == Source
           data == issued[s].data
           at == issued[s].at
<1>1. s \in DOMAIN issued /\ data \in Data /\ at \in Int /\ s \in Nat
  BY RotatedSource, IssuedTypes DEF FernetInv, FernetTypes
<1>2. Outcome(ring[turn]).v = data /\ call.token.ts = at
  BY RotatedSource DEF Found
<1>3. issued' = Append(issued, NewToken(data, at, s))
  BY <1>2 DEF RotateSucceeds
<1>4. /\ call # Nil /\ UNCHANGED << clock, ring, call, turn >>
  BY DEF RotateSucceeds, InCall
<1> HIDE DEF s
<1>5. /\ issued' \in Seq(Issues) /\ MadeOf' /\ RotationKeepsAge'
      /\ \A i \in DOMAIN issued : i \in DOMAIN issued' /\ issued'[i] = issued[i]
  BY <1>1, <1>3, IssueInv
<1>6. MacOfIssued'
  BY <1>4, <1>5 DEF FernetInv, MacOfIssued
<1>7. QED
  BY <1>4, <1>5, <1>6 DEF FernetInv, FernetTypes, CallShape

LEMMA FernetStep == FernetInv /\ [Next]_vars => FernetInv'
<1> SUFFICES ASSUME FernetInv, [Next]_vars PROVE FernetInv'
  OBVIOUS
<1>1. CASE ClockChanges \/ AddKey \/ DropKey
  BY <1>1, RingInv
<1>2. CASE Encrypt
  BY <1>2, EncryptInv
<1>3. CASE Decrypt \/ DecryptAtTime \/ ExtractTimestamp \/ Rotate
  BY <1>3, Beginnings, BeginInv
<1>4. CASE TryFails \/ TrySucceeds \/ Return
  BY <1>4, TryInv
<1>5. CASE RotateSucceeds
  BY <1>5, RotateInv
<1>6. CASE UNCHANGED vars
  BY <1>6, IssuedUnchanged DEF vars, FernetInv, FernetTypes, MacOfIssued, CallShape
<1>7. QED
  BY <1>1, <1>2, <1>3, <1>4, <1>5, <1>6 DEF Next

LEMMA FernetInvariant == Spec => []FernetInv
BY FernetInit, FernetStep, PTL DEF Spec

\* However often tokens are rotated, by whatever ring of keys, and wherever the
\* clock goes meanwhile, MultiFernet.rotate() hands on the message and the time
\* of the token that it was given.
THEOREM RotationKeepsAgeAlways == Spec => []RotationKeepsAge
<1>1. FernetInv => RotationKeepsAge
  BY DEF FernetInv
<1>2. QED
  BY <1>1, FernetInvariant, PTL

-----------------------------------------------------------------------------
(* Every step is a step of the promise, or none                            *)

\* Every key that made the token has had its turn
Passed == InCall /\ Places # {} /\ \A k \in Places : k < turn

LEMMA DecidedValue == Decided = IF Passed THEN InvalidToken ELSE answer
BY DEF Decided, Passed

LEMMA PromiseOperators ==
  /\ Promise!InvalidToken = InvalidToken
  /\ \A v : Promise!Found(v) = Found(v)
  /\ \A data, at, from : Promise!Issue(data, at, from) = NewToken(data, at, from)
  /\ Promise!Now = Moment
  /\ \A t : Promise!Representable(t) = Representable(t)
BY DEF Promise!InvalidToken, InvalidToken, Promise!Found, Found, Promise!Issue, NewToken,
       Promise!encrypt_from_parts, encrypt_from_parts, Promise!Mac, Mac, Promise!Now, Moment,
       Promise!Representable, Representable

\* The promise accepts the tokens that a key of the ring made and whose time is
\* right
LEMMA AcceptableTokens ==
  ASSUME FernetInv, call # Nil
  PROVE  Promise!Acceptable =
           {i \in DOMAIN issued :
              /\ issued[i].token = call.token
              /\ \E k \in DOMAIN ring : ring[k] = issued[i].key
              /\ InTime(issued[i].at, call.ttl, Moment)}
<1> SUFFICES ASSUME NEW i \in DOMAIN issued
             PROVE  InTime(issued[i].at, call.ttl, Moment)
                      <=> IF call.ttl = Nil THEN TRUE
                          ELSE /\ Moment - issued[i].at <= call.ttl
                               /\ issued[i].at - Moment <= MAX_CLOCK_SKEW
  BY PromiseOperators DEF Promise!Acceptable
<1>1. call \in Calls /\ clock \in Int
  BY DEF FernetInv, FernetTypes
<1>2. call.ttl # Nil => call.ttl \in Int
  BY <1>1 DEF Calls
<1>3. Moment \in Int
  BY <1>1 DEF Calls, Moment
<1>4. issued[i].at \in Int /\ MAX_CLOCK_SKEW \in Nat
  BY IssuedTypes, FernetTokensAssumption
<1>5. QED
  BY <1>2, <1>3, <1>4 DEF InTime

\* A key that accepts the token has a place, so that the call is not decided yet
LEMMA AcceptingKey ==
  ASSUME FernetInv, InCall, Outcome(ring[turn]) # InvalidToken
  PROVE  /\ ~Passed /\ Decided = Nil
         /\ \E i \in Promise!Acceptable : issued[i].key = ring[turn]
         /\ \A i \in Promise!Acceptable :
              Outcome(ring[turn]) = Found(IF call.op = "extract_timestamp" THEN issued[i].at
                                          ELSE issued[i].data)
<1>1. call # Nil /\ answer = Nil /\ turn \in DOMAIN ring /\ turn \in Nat /\ ring[turn] \in Keys
  BY DEF InCall, FernetInv, FernetTypes
<1>2. PICK i \in DOMAIN issued :
        /\ issued[i].token = call.token /\ issued[i].key = ring[turn]
        /\ InTime(issued[i].at, call.ttl, Moment)
  BY <1>1, OutcomeRefuses
<1>3. turn \in Places
  BY <1>1, <1>2 DEF Places
<1>4. ~Passed
  BY <1>1, <1>3 DEF Passed
<1>5. i \in Promise!Acceptable
  BY <1>1, <1>2, AcceptableTokens
<1>6. ASSUME NEW j \in Promise!Acceptable
      PROVE  Outcome(ring[turn]) = Found(IF call.op = "extract_timestamp" THEN issued[j].at
                                         ELSE issued[j].data)
  <2>1. /\ j \in DOMAIN issued /\ issued[j].token = call.token
        /\ InTime(issued[j].at, call.ttl, Moment)
    BY <1>1, AcceptableTokens
  <2>2. i = j
    BY <1>1, <1>2, <2>1, IssuedToken
  <2>3. QED
    BY <1>1, <1>2, <2>2, OutcomeAccepts
<1>7. QED
  BY <1>1, <1>2, <1>4, <1>5, <1>6, DecidedValue

LEMMA TrySucceedsRefines == FernetInv /\ TrySucceeds => Promise!Decide
<1> SUFFICES ASSUME FernetInv, TrySucceeds PROVE Promise!Decide
  OBVIOUS
<1>1. /\ InCall /\ call # Nil /\ call.op # "rotate" /\ Outcome(ring[turn]) # InvalidToken
      /\ answer' = Outcome(ring[turn]) /\ UNCHANGED << clock, ring, issued, call, turn >>
  BY DEF TrySucceeds, InCall
<1>2. Decided = Nil /\ Promise!Acceptable # {}
  BY <1>1, AcceptingKey
<1> DEFINE old == CHOOSE i \in Promise!Acceptable : TRUE
<1>3. old \in Promise!Acceptable
  BY <1>2
<1>4. old \in DOMAIN issued
  BY <1>1, <1>3, AcceptableTokens
<1> HIDE DEF old
<1>5. answer' = Found(IF call.op = "extract_timestamp" THEN issued[old].at
                      ELSE issued[old].data)
  BY <1>1, <1>3, AcceptingKey
<1>6. call.op \in {"decrypt", "extract_timestamp"}
  BY <1>1 DEF FernetInv, FernetTypes, Calls
<1>7. answer' # Nil
  <2>1. answer' \in [error : {"ok", "InvalidToken"}, v : Values]
    BY <1>4, <1>5, IssuedTypes DEF Found, Values
  <2>2. QED
    BY <2>1, FernetAssumption
<1>8. Decided' = answer'
  BY <1>7, DecidedValue DEF Decided, InCall
<1>9. Decided' = Promise!Found(IF call.op = "decrypt" THEN issued[old].data ELSE issued[old].at)
  BY <1>5, <1>6, <1>8, PromiseOperators
<1>10. QED
  BY <1>1, <1>2, <1>9 DEF Promise!Decide, old

LEMMA RotateSucceedsRefines == FernetInv /\ RotateSucceeds => Promise!Decide
<1> SUFFICES ASSUME FernetInv, RotateSucceeds PROVE Promise!Decide
  OBVIOUS
<1>1. /\ InCall /\ call # Nil /\ call.op = "rotate" /\ Outcome(ring[turn]) # InvalidToken
      /\ UNCHANGED << clock, ring, call, turn >>
  BY DEF RotateSucceeds, InCall
<1>2. Decided = Nil /\ Promise!Acceptable # {}
  BY <1>1, AcceptingKey
<1> DEFINE old == CHOOSE i \in Promise!Acceptable : TRUE
<1>3. old \in Promise!Acceptable
  BY <1>2
<1>4. old \in DOMAIN issued /\ issued[old].token = call.token
  BY <1>1, <1>3, AcceptableTokens
<1>5. old = Source
  BY <1>4, RotatedSource
<1> HIDE DEF old
<1> DEFINE new == NewToken(issued[old].data, issued[old].at, old)
<1>6. Outcome(ring[turn]).v = issued[old].data /\ call.token.ts = issued[old].at
  BY <1>5, RotatedSource DEF Found
<1>7. issued' = Append(issued, new) /\ answer' = Found(new.token)
  BY <1>5, <1>6 DEF RotateSucceeds
<1>8. answer' # Nil
  <2>1. ring[1] \in Keys /\ Len(issued) + 1 \in Nat
    BY DEF FernetInv, FernetTypes
  <2>2. issued[old].data \in Data /\ issued[old].at \in Int
    BY <1>4, IssuedTypes
  <2>3. new.token \in Tokens(Data)
    BY <2>1, <2>2, TokenType DEF NewToken
  <2>4. answer' \in [error : {"ok", "InvalidToken"}, v : Values]
    BY <1>7, <2>3 DEF Found, Values
  <2>5. QED
    BY <2>4, FernetAssumption
<1>9. Decided' = answer'
  BY <1>8 DEF Decided, InCall
<1>10. new = Promise!Issue(issued[old].data, issued[old].at, old)
  BY PromiseOperators
<1> HIDE DEF new
<1>11. Decided' = Promise!Found(new.token)
  BY <1>7, <1>9, PromiseOperators
<1>12. QED
  BY <1>1, <1>2, <1>7, <1>10, <1>11 DEF Promise!Decide, old

\* When a key refuses the token, the call is decided, at this very time, if it
\* is the last of the keys that made it, or the last of all; otherwise nothing
\* happens yet
LEMMA TryFailsRefines == FernetInv /\ TryFails => Promise!Decide \/ UNCHANGED Promise!vars
<1> SUFFICES ASSUME FernetInv, TryFails PROVE Promise!Decide \/ UNCHANGED Promise!vars
  OBVIOUS
<1>1. /\ InCall /\ call # Nil /\ answer = Nil /\ Outcome(ring[turn]) = InvalidToken
      /\ UNCHANGED << clock, ring, issued, call >>
  BY DEF TryFails, InCall
<1>2. /\ turn \in DOMAIN ring /\ turn \in Nat /\ ring[turn] \in Keys
      /\ DOMAIN ring = 1 .. Len(ring) /\ Len(ring) \in Nat
  BY DEF FernetInv, FernetTypes
<1>3. Places' = Places
  BY <1>1 DEF Places
<1>4. \/ answer' = InvalidToken /\ turn' = turn /\ turn = Len(ring)
      \/ answer' = Nil /\ turn' = turn + 1
  BY <1>1 DEF TryFails
<1>5. \A k \in Places : k \in 1 .. Len(ring)
  BY <1>2 DEF Places
<1>6. CASE Passed
  <2>1. Decided = InvalidToken
    BY <1>6, DecidedValue
  <2>2. Decided' = InvalidToken
    BY <1>1, <1>2, <1>3, <1>4, <1>5, <1>6 DEF Passed, Decided, InCall
  <2>3. QED
    BY <1>1, <2>1, <2>2 DEF Promise!vars
<1>7. CASE ~Passed /\ Decided' = Nil
  BY <1>1, <1>7, DecidedValue DEF Promise!vars
<1>8. CASE ~Passed /\ Decided' # Nil
  <2>1. Decided' = InvalidToken
    BY <1>4, <1>8 DEF Decided
  <2>2. Places = {} \/ turn \in Places
    <3>1. ASSUME Places # {}, turn \notin Places PROVE FALSE
      <4>1. PICK k \in Places : k >= turn
        BY <1>1, <1>2, <1>5, <1>8, <3>1 DEF Passed
      <4>2. k > turn
        BY <1>2, <1>5, <3>1, <4>1
      <4>3. answer' = Nil /\ turn' = turn + 1
        BY <1>2, <1>4, <1>5, <4>1, <4>2
      <4>4. k \in Places' /\ ~(k < turn')
        BY <1>2, <1>3, <1>5, <4>1, <4>2, <4>3
      <4>5. Decided' = Nil
        BY <4>3, <4>4 DEF Decided
      <4>6. QED
        BY <1>8, <4>5
    <3>2. QED
      BY <3>1
  <2>3. Promise!Acceptable = {}
    <3>1. ASSUME NEW i \in Promise!Acceptable PROVE FALSE
      <4>1. /\ i \in DOMAIN issued /\ issued[i].token = call.token
            /\ InTime(issued[i].at, call.ttl, Moment)
        BY <1>1, <3>1, AcceptableTokens
      <4>2. PICK k \in DOMAIN ring : ring[k] = issued[i].key
        BY <1>1, <3>1, AcceptableTokens
      <4>3. k \in Places
        BY <4>1, <4>2 DEF Places
      <4>4. turn \in Places
        BY <2>2, <4>3
      <4>5. PICK j \in DOMAIN issued : issued[j].token = call.token /\ issued[j].key = ring[turn]
        BY <4>4 DEF Places
      <4>6. i = j
        BY <1>2, <4>1, <4>5, IssuedToken
      <4>7. Outcome(ring[turn]) # InvalidToken
        BY <1>1, <1>2, <4>1, <4>5, <4>6, OutcomeAccepts
      <4>8. QED
        BY <1>1, <4>7
    <3>2. QED
      BY <3>1
  <2>4. Decided = Nil
    BY <1>1, <1>8, DecidedValue
  <2>5. QED
    BY <1>1, <2>1, <2>3, <2>4, PromiseOperators DEF Promise!Decide
<1>9. QED
  BY <1>6, <1>7, <1>8

LEMMA BeginRefines ==
  ASSUME FernetInv, NEW op, NEW token, NEW ttl, NEW now, BeginsCall(op, token, ttl, now)
  PROVE  Promise!Start
<1>1. /\ call = Nil /\ turn' = 1 /\ UNCHANGED << clock, ring, issued, answer >>
  BY DEF BeginsCall, Begin
<1>2. answer' = Nil
  BY <1>1 DEF FernetInv, CallShape
<1>3. \A k \in Places' : ~(k < turn')
  <2>1. ring' \in Seq(Keys)
    BY <1>1 DEF FernetInv, FernetTypes
  <2>2. QED
    BY <1>1, <2>1 DEF Places
<1>4. Decided' = Nil
  BY <1>2, <1>3 DEF Decided
<1>5. QED
  BY <1>1, <1>4 DEF Promise!Start

LEMMA EncryptRefines == FernetInv /\ Encrypt => Promise!Encrypt
<1> SUFFICES ASSUME FernetInv, NEW data \in Data, NEW at \in Times \cup {clock},
                    encrypt_at_time(data, at)
             PROVE  Promise!Encrypt
  BY DEF Encrypt
<1> DEFINE new == NewToken(data, at, 0)
<1>1. issued' = Append(issued, new) /\ Representable(at) /\ call = Nil
      /\ UNCHANGED << clock, ring, call, answer, turn >>
  BY DEF encrypt_at_time
<1>2. issued \in Seq(Issues)
  BY DEF FernetInv, FernetTypes
<1>3. new.data = data /\ new.at = at
  BY DEF NewToken
<1>4. new \in Issues
  <2>1. at \in Int /\ ring[1] \in Keys /\ Len(issued) + 1 \in Nat
    BY FernetAssumption DEF FernetInv, FernetTypes
  <2>2. QED
    BY <2>1, TokenType DEF NewToken, Issues
<1> HIDE DEF new
<1>5. Len(issued') = Len(issued) + 1 /\ issued'[Len(issued) + 1] = new
  BY <1>1, <1>2, <1>4
<1>6. new = Promise!Issue(new.data, new.at, 0)
  BY <1>3, PromiseOperators DEF new
<1>7. Promise!Representable(new.at)
  BY <1>1, <1>3, PromiseOperators
<1>8. Decided' = Decided
  BY <1>1 DEF Decided, InCall
<1>9. QED
  BY <1>1, <1>5, <1>6, <1>7, <1>8 DEF Promise!Encrypt

LEMMA FernetRefines == FernetInv /\ [Next]_vars => [Promise!Next]_(Promise!vars)
<1> SUFFICES ASSUME FernetInv, [Next]_vars PROVE Promise!Next \/ UNCHANGED Promise!vars
  OBVIOUS
<1>1. CASE ClockChanges
  BY <1>1 DEF ClockChanges, Decided, InCall, Places, Promise!TimePasses, Promise!Next
<1>2. CASE AddKey \/ DropKey
  BY <1>2 DEF AddKey, DropKey, Decided, InCall, Promise!NewRing, Promise!Next
<1>3. CASE Encrypt
  BY <1>3, EncryptRefines DEF Promise!Next
<1>4. CASE Decrypt \/ DecryptAtTime \/ ExtractTimestamp \/ Rotate
  BY <1>4, Beginnings, BeginRefines DEF Promise!Next
<1>5. CASE TryFails
  BY <1>5, TryFailsRefines DEF Promise!Next
<1>6. CASE TrySucceeds
  BY <1>6, TrySucceedsRefines DEF Promise!Next
<1>7. CASE RotateSucceeds
  BY <1>7, RotateSucceedsRefines DEF Promise!Next
<1>8. CASE Return
  BY <1>8 DEF Return, Decided, InCall, Promise!Return, Promise!Next
<1>9. CASE UNCHANGED vars
  BY <1>9 DEF vars, Decided, InCall, Places, Promise!vars
<1>10. QED
  BY <1>1, <1>2, <1>3, <1>4, <1>5, <1>6, <1>7, <1>8, <1>9 DEF Next

\* MultiFernet.decrypt, extract_timestamp and rotate read the clock anew for
\* every key that they try, and the clock may go either way between the tries;
\* yet every call answers as if all keys had been tried at one instant of the
\* call, the one when the last key that made the token, or the one that accepts
\* it, has its turn.
THEOREM CallsAreAtomic == Spec => AtomicCalls
<1>1. Init => Promise!Init
  BY DEF Init, Promise!Init, Decided, InCall
<1>2. FernetInv /\ [Next]_vars => [Promise!Next]_(Promise!vars)
  BY FernetRefines
<1>3. QED
  BY <1>1, <1>2, FernetInvariant, PTL DEF Spec, AtomicCalls, Promise!Spec
=============================================================================
