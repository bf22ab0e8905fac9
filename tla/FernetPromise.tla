---------------------------- MODULE FernetPromise ----------------------------
(***************************************************************************)
(* What MultiFernet promises: a call is decided at one instant.  A token   *)
(* that a key of the ring made, and that is neither too old nor from the   *)
(* future at that instant, gives its message, its time, or the same        *)
(* message of the same time under the first key; any other token nothing.  *)
(***************************************************************************)
EXTENDS FernetTokens

VARIABLES
  clock,                \* int(time.time())
  ring,                 \* the keys of the MultiFernet, newest first
  issued,               \* every token so far: [token, key, data, at, from]
  call,                 \* [op, token, ttl, now], Nil between calls
  answer                \* of the call: Nil until it is decided

vars == << clock, ring, issued, call, answer >>

Init == call = Nil /\ answer = Nil /\ issued = << >>

\* from is the token that a rotation replaces, 0 otherwise
Issue(data, at, from) ==
  [token |-> encrypt_from_parts(ring[1], data, at, Len(issued) + 1), key |-> ring[1],
   data |-> data, at |-> at, from |-> from]

\* A call that is given a time does not look at the clock
Now == IF call.now = Nil THEN clock ELSE call.now

Acceptable ==
  {i \in DOMAIN issued :
     /\ issued[i].token = call.token
     /\ \E k \in DOMAIN ring : ring[k] = issued[i].key
     /\ IF call.ttl = Nil THEN TRUE
        ELSE Now - issued[i].at <= call.ttl /\ issued[i].at - Now <= MAX_CLOCK_SKEW}

Decide ==
  /\ call # Nil /\ answer = Nil
  /\ IF Acceptable = {} THEN answer' = InvalidToken /\ UNCHANGED issued
     ELSE LET old == CHOOSE i \in Acceptable : TRUE
              new == Issue(issued[old].data, issued[old].at, old)
          IN  IF call.op = "rotate" THEN answer' = Found(new.token) /\ issued' = Append(issued, new)
              ELSE /\ answer' = Found(IF call.op = "decrypt" THEN issued[old].data ELSE issued[old].at)
                   /\ UNCHANGED issued
  /\ UNCHANGED << clock, ring, call >>

Encrypt ==
  /\ Len(issued') = Len(issued) + 1
  /\ LET new == issued'[Len(issued) + 1]
     IN  Representable(new.at) /\ issued' = Append(issued, Issue(new.data, new.at, 0))
  /\ UNCHANGED << clock, ring, call, answer >>

Start == call = Nil /\ answer' = Nil /\ UNCHANGED << clock, ring, issued >>
Return == answer # Nil /\ call' = Nil /\ answer' = Nil /\ UNCHANGED << clock, ring, issued >>
TimePasses == UNCHANGED << ring, issued, call, answer >>
NewRing == call = Nil /\ UNCHANGED << clock, issued, call, answer >>

Next == Decide \/ Encrypt \/ Start \/ Return \/ TimePasses \/ NewRing

Spec == Init /\ [][Next]_vars
=============================================================================
