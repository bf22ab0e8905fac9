------------------------------- MODULE MCAead -------------------------------
(* Small instance of Aead: lengths are scaled so that every limit is within *)
(* reach, and decrypt is given sealed messages and altered ones             *)
EXTENDS Aead, TLC

CONSTANTS t1, t2

key(n) == [id |-> "k", len |-> n]
other(n) == [id |-> "l", len |-> n]

Config(c, b, f, n, tl) == [cls |-> c, build |-> b, fips |-> f, key |-> key(n), tag_length |-> tl]

MCConfigs ==
  {Config(c, b, f, n, None) :
     c \in {"ChaCha20Poly1305", "AESGCM", "AESSIV", "AESOCB3", "AESGCMSIV"},
     b \in Builds, f \in BOOLEAN, n \in {24, 32, 33}}
  \cup {Config("AESCCM", b, FALSE, n, tl) :
          b \in {"3.5", "boringssl"}, n \in {16, 33}, tl \in {None, 1, 3}}

MCOverwritten(k) == {other(k.len)}

nonce(n) == [id |-> "n", len |-> n]
Nonces(o) ==
  CASE o.cls \in {"ChaCha20Poly1305", "AESGCMSIV"} -> {nonce(11), nonce(12)}
    [] o.cls = "AESGCM" -> {nonce(7), nonce(8), nonce(129)}
    [] o.cls = "AESCCM" -> {nonce(6), nonce(7), nonce(13), nonce(14)}
    [] o.cls = "AESSIV" -> {None}
    [] o.cls = "AESOCB3" -> {nonce(12), nonce(16)}

a1 == [id |-> "a", len |-> 1, buffer |-> TRUE]
a2 == [id |-> "b", len |-> 1, buffer |-> TRUE]
long == [id |-> "c", len |-> MaxInt + 1, buffer |-> TRUE]
int == [id |-> "d", len |-> 0, buffer |-> FALSE]

AADs(o) == IF o.cls = "AESSIV" THEN {<< >>, << a1, a2 >>, << a1, long >>, << a1, int >>}
           ELSE {<< a1 >>, << long >>}

plain(n) == [i \in 1 .. n |-> "p"]

Encrypts(o, lens) ==
  [op : {"encrypt"}, nonce : Nonces(o), aad : AADs(o), data : {plain(n) : n \in lens}]

Altered(o, m) ==
  {Sealed(o, m), Sealed(o, [m EXCEPT !.aad = << a2 >>]), Sealed(o, [m EXCEPT !.nonce = nonce(1)]),
   Body(m) \o Tag([m EXCEPT !.data = plain(Len(m.data) + 1)], o.tag_len),
   SubSeq(Sealed(o, m), 2, Len(Sealed(o, m)))}

Decrypts(o, lens) ==
  UNION {[op : {"decrypt"}, nonce : {r.nonce}, aad : {r.aad},
          data : UNION {Altered(o, Message(k, r.nonce, r.aad, r.data)) : k \in {o.key, other(o.key.len)}}] :
            r \in {e \in Encrypts(o, lens) : \A i \in DOMAIN e.aad : e.aad[i] \in {a1, a2}}}

Second(o) ==
  {[op |-> op, nonce |-> n, aad |-> << a2 >>,
    data |-> IF op = "encrypt" THEN plain(1) ELSE Sealed(o, Message(o.key, n, << a2 >>, plain(1)))] :
      op \in {"encrypt", "decrypt"}, n \in Nonces(o) \cap {None, nonce(8), nonce(12), nonce(13)}}

\* One object of each implementation of each class is used
Used(o) == o.key.len # 24 /\ o.build \in
  CASE o.cls = "ChaCha20Poly1305" -> {"3.0", "3.5", "boringssl"}
    [] o.cls = "AESGCM" -> {"3.0", "3.5"}
    [] o.cls \in {"AESSIV", "AESGCMSIV"} -> {"3.2", "3.5", "boringssl"}
    [] OTHER -> {"3.5"}

MCRequests(t, o) ==
  IF ~Used(o) THEN {}
  ELSE IF t = t1 THEN Encrypts(o, 0 .. MaxInt + 1) \cup Decrypts(o, {0, 1, 3, 4, 5}) ELSE Second(o)
=============================================================================
