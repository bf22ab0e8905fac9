------------------------------- MODULE Fernet -------------------------------
(***************************************************************************)
(* Fernet and MultiFernet (fernet.py) at work: tokens are made, kept,      *)
(* perhaps damaged, and presented to a ring of keys, which are tried one   *)
(* after another while the clock goes on; keys are added in front and      *)
(* dropped at the end.  A single Fernet is a ring of one key.              *)
(***************************************************************************)
EXTENDS FernetTokens

CONSTANTS
  Data,                 \* messages
  Times,                \* what encrypt_at_time and decrypt_at_time are given
  TTLs,                 \* lifetimes that are asked for, Nil too
  MaxClock, MaxEncrypted, MaxIssued, MaxRing      \* bounds

\* What a call may find
Values == Data \cup Int \cup Tokens(Data)

\* Times are ints, and None is no answer
ASSUME FernetAssumption ==
  /\ Times \subseteq Int /\ TTLs \ {Nil} \subseteq Int
  /\ Nil \notin [error : {"ok", "InvalidToken"}, v : Values]

VARIABLES
  clock, ring, issued, call, answer,
  turn                  \* the key that is tried next

vars == << clock, ring, issued, call, answer, turn >>

Init ==
  /\ clock \in 0 .. MaxClock
  /\ \E k \in Keys : ring = << k >>
  /\ issued = << >> /\ call = Nil /\ answer = Nil /\ turn = 1

-----------------------------------------------------------------------------
(* The clock is set now and then, so that it may go back                   *)

ClockChanges ==
  /\ clock' \in {clock - 1, clock + 1} \cap (0 .. MaxClock)
  /\ UNCHANGED << ring, issued, call, answer, turn >>

\* A new MultiFernet with a new first key, or without the last
AddKey ==
  /\ call = Nil /\ Len(ring) < MaxRing
  /\ \E k \in Keys : ring' = << k >> \o ring
  /\ UNCHANGED << clock, issued, call, answer, turn >>

DropKey ==
  /\ call = Nil /\ Len(ring) > 1
  /\ ring' = SubSeq(ring, 1, Len(ring) - 1)
  /\ UNCHANGED << clock, issued, call, answer, turn >>

-----------------------------------------------------------------------------
(* Making tokens                                                           *)

\* os.urandom: no iv is drawn twice
NewToken(data, at, from) ==
  [token |-> encrypt_from_parts(ring[1], data, at, Len(issued) + 1), key |-> ring[1],
   data |-> data, at |-> at, from |-> from]

\* A call reads nothing that this writes, so that it may come between calls
encrypt_at_time(data, at) ==
  /\ call = Nil /\ Len(issued) < MaxEncrypted /\ Representable(at)
  /\ issued' = Append(issued, NewToken(data, at, 0))
  /\ UNCHANGED << clock, ring, call, answer, turn >>

Encrypt == \E data \in Data, at \in Times \cup {clock} : encrypt_at_time(data, at)

-----------------------------------------------------------------------------
(* Calls with a token                                                      *)

\* What may become of a token: another first byte or a piece of it, and the
\* parts of another token in it
Damaged(token) ==
  {token, [token EXCEPT !.shape = "other"]}
  \cup {[token EXCEPT !.ts = t] : t \in {t \in Times : Representable(t)}}
  \cup {[token EXCEPT !.ct = issued[i].token.ct] : i \in DOMAIN issued}
  \cup {[token EXCEPT !.iv = issued[i].token.iv] : i \in DOMAIN issued}

Begin(op, token, ttl, now) ==
  /\ call = Nil
  /\ call' = [op |-> op, token |-> token, ttl |-> ttl, now |-> now]
  /\ turn' = 1 /\ UNCHANGED << clock, ring, issued, answer >>

Presented == UNION {Damaged(issued[i].token) : i \in DOMAIN issued}

Decrypt == \E token \in Presented, ttl \in TTLs : Begin("decrypt", token, ttl, Nil)
DecryptAtTime ==
  \E token \in Presented, ttl \in TTLs \ {Nil}, now \in Times : Begin("decrypt", token, ttl, now)
ExtractTimestamp == \E token \in Presented : Begin("extract_timestamp", token, Nil, Nil)
Rotate == Len(issued) < MaxIssued /\ \E token \in Presented : Begin("rotate", token, Nil, Nil)

InCall == call # Nil /\ answer = Nil

\* The clock is read for every key
Outcome(key) ==
  LET now == IF call.now = Nil THEN clock ELSE call.now
  IN  IF call.op = "extract_timestamp" THEN extract_timestamp(key, call.token)
      ELSE decrypt(key, call.token, call.ttl, now)

TryFails_SameKey ==   \* mutant
  /\ InCall /\ Outcome(ring[turn]) = InvalidToken
  /\ answer' = IF turn = Len(ring) THEN InvalidToken ELSE answer
  /\ UNCHANGED << clock, ring, issued, call, turn >>

\* InvalidToken of a key is swallowed, but for the last
TryFails ==
  /\ InCall /\ Outcome(ring[turn]) = InvalidToken
  /\ IF turn = Len(ring) THEN answer' = InvalidToken /\ turn' = turn
     ELSE answer' = answer /\ turn' = turn + 1
  /\ UNCHANGED << clock, ring, issued, call >>

TrySucceeds ==
  /\ InCall /\ call.op # "rotate" /\ Outcome(ring[turn]) # InvalidToken
  /\ answer' = Outcome(ring[turn])
  /\ UNCHANGED << clock, ring, issued, call, turn >>

Source == CHOOSE i \in DOMAIN issued : issued[i].token = call.token

RotateSucceeds_Now ==   \* mutant
  /\ InCall /\ call.op = "rotate" /\ Outcome(ring[turn]) # InvalidToken
  /\ LET new == NewToken(Outcome(ring[turn]).v, clock, Source)
     IN  issued' = Append(issued, new) /\ answer' = Found(new.token)
  /\ UNCHANGED << clock, ring, call, turn >>

\* Under the first key, with the time of the old token
RotateSucceeds ==
  /\ InCall /\ call.op = "rotate" /\ Outcome(ring[turn]) # InvalidToken
  /\ LET new == NewToken(Outcome(ring[turn]).v, call.token.ts, Source)
     IN  issued' = Append(issued, new) /\ answer' = Found(new.token)
  /\ UNCHANGED << clock, ring, call, turn >>

Return ==
  /\ answer # Nil
  /\ call' = Nil /\ answer' = Nil /\ turn' = 1
  /\ UNCHANGED << clock, ring, issued >>

Next ==
  \/ ClockChanges \/ AddKey \/ DropKey \/ Encrypt
  \/ Decrypt \/ DecryptAtTime \/ ExtractTimestamp \/ Rotate
  \/ TryFails \/ TrySucceeds \/ RotateSucceeds \/ Return

\* A call runs on by itself
Spec == Init /\ [][Next]_vars /\ WF_vars(TryFails \/ TrySucceeds \/ RotateSucceeds)

-----------------------------------------------------------------------------
(* Properties                                                              *)

\* The places in the ring of the key that made the call's token
Places == {k \in DOMAIN ring :
             \E i \in DOMAIN issued : issued[i].token = call.token /\ issued[i].key = ring[k]}

\* A call whose token's key has had its turn is refused, whatever keys are left
Decided ==
  IF InCall /\ Places # {} /\ \A k \in Places : k < turn THEN InvalidToken ELSE answer

Promise == INSTANCE FernetPromise WITH answer <- Decided

\* Although MultiFernet.decrypt reads the clock anew for every key it tries, a
\* call is decided at one instant: it answers as if all keys had been tried at
\* once, at some time between its start and its end.
AtomicCalls == Promise!Spec

\* However often a token is rotated, and whatever the clock says by then, its
\* successors carry the message and the time of the first: rotate() gives no
\* token a longer life.
RotationKeepsAge ==
  \A i \in DOMAIN issued :
    issued[i].from # 0 =>
      /\ issued[i].from < i /\ issued[i].data = issued[issued[i].from].data
      /\ issued[i].token.ts = issued[issued[i].from].at

\* A call returns, and one without a lifetime whose token was made by any key
\* of the ring, the last one too, succeeds: the keys that fail before it do not
\* end the search.
GenuineIsRead ==
  /\ InCall ~> (answer # Nil)
  /\ (InCall /\ call.ttl = Nil /\ Places # {}) ~> (answer # Nil /\ answer.error = "ok")
=============================================================================
