------------------------------- MODULE MCKeys -------------------------------
(* Small instance of Keys.  Password lengths, hash sizes and key sizes are  *)
(* scaled so that their limits are met; a byte has two bits in KeyNumbers.  *)
EXTENDS Keys, TLC

Key(kind, k) == [class |-> ClassOf(kind), kind |-> kind, key |-> k, private |-> TRUE, flaw |-> None]

MCGenerated ==
  {Key(kind, "k1") : kind \in {"RSA", "DSA", "EC", "DH", "ED25519", "ED448", "X25519", "X448"}}
  \cup {Key(kind, "k2") : kind \in {"RSA", "EC", "ED25519"}}

short == [id |-> "s", len |-> 1]
full == [id |-> "f", len |-> MaxPassword]
over == [id |-> "o", len |-> MaxPassword + 1]
far == [id |-> "x", len |-> CallbackBuffer + 1]

MCPasswords == {None, Empty, short, full, far}

Enc(alg, format, password) == [alg |-> alg, format |-> format, password |-> password]
MCEncryptions ==
  {Enc("NoEncryption", None, Empty), Enc("other", None, short)}
  \cup {Enc("BestAvailable", None, p) : p \in {Empty, short, full, over, far}}
  \cup {Enc("Builder", f, short) : f \in {"OpenSSH", "PKCS12"}}

Doc(encoding, container, delimiter, kind, flaw, private, encrypted, password) ==
  [encoding |-> encoding, container |-> container, delimiter |-> delimiter, kind |-> kind,
   key |-> "k3", flaw |-> flaw, private |-> private, encrypted |-> encrypted, password |-> password]

MCForeign ==
  {Doc(e, "PKCS8", None, k, None, TRUE, x, Empty) :
     e \in {"PEM", "DER"}, k \in {"RSA_PSS", "DHX", "ED448", "CMAC"}, x \in BOOLEAN}
  \cup {Doc(e, "PKCS8", None, "EC", f, TRUE, FALSE, Empty) :
          e \in {"PEM", "DER"}, f \in {"explicit", "curve", "infinity"}}
  \cup {Doc("PEM", c, None, "RSA", "rsa", TRUE, TRUE, short) : c \in {"PKCS8", "TraditionalOpenSSL", "OpenSSH"}}
  \cup {Doc("PEM", "PKCS1", l, "RSA", None, FALSE, FALSE, Empty) : l \in {"PUBLIC KEY", "RSA PUBLIC KEY", "OTHER"}}
  \cup {Doc("PEM", "SubjectPublicKeyInfo", l, k, None, FALSE, FALSE, Empty) :
          l \in {"PUBLIC KEY", "RSA PUBLIC KEY", "OTHER"}, k \in {"RSA", "RSA_PSS", "DHX", "CMAC"}}
  \cup {Doc(e, "SubjectPublicKeyInfo", "PUBLIC KEY", "EC", f, FALSE, FALSE, Empty) :
          e \in {"PEM", "DER"}, f \in {"explicit", "curve", "infinity"}}

\* Two hashes of the same size and a longer one, which OAEP does not support
MCDigestSize == [a |-> 2, b |-> 2, c |-> 3]

PSS(salt, mgf) == [name |-> "PSS", salt |-> salt, mgf |-> mgf]
v15 == [name |-> "PKCS1v15", salt |-> Nil, mgf |-> Nil]
Alg(h, p) == [hash |-> h, prehashed |-> p]
Paddings ==
  {v15} \cup {PSS(s, g) : s \in {AutoLength, MaxLength, DigestLength, 1}, g \in {"a", "c"}}
  \cup {PSS(1, Nil), [name |-> "OAEP", salt |-> Nil, mgf |-> "a"], [name |-> "other", salt |-> Nil, mgf |-> "a"]}
MCSigningArgs ==
  [data : {"m1", "m2"}, padding : Paddings, algorithm : {Alg(h, FALSE) : h \in {"a", "b", "c"}}]
  \cup [data : {Digest(h, "m1") : h \in {"a", "b", "c"}}, padding : {v15, PSS(DigestLength, "a"), PSS(1, "c")},
        algorithm : {Alg(h, TRUE) : h \in {"a", "b", "c"}}]
  \cup [data : {"m1", "m2"}, padding : {Nil}, algorithm : {Nil, Alg("a", FALSE), Alg("c", FALSE)}]
  \cup [data : {Digest("a", "m1"), Digest("c", "m1")}, padding : {Nil}, algorithm : {Alg("a", TRUE), Alg("b", TRUE)}]
MCRecoverArgs ==
  [padding : {v15, PSS(1, "a")}, algorithm : {Alg("a", FALSE), Alg("c", FALSE), Alg("a", TRUE), Alg(Nil, FALSE)}]

OAEP(h, g, l) == [name |-> "OAEP", hash |-> h, mgf |-> g, label |-> l]
MCEncryptionArgs ==
  [plaintext : [id : {"x"}, len : 0 .. 2],
   padding : {v15, [name |-> "PSS", mgf |-> "a"], [name |-> "other", mgf |-> "a"], OAEP("a", Nil, << >>)}
             \cup {OAEP(h, g, l) : h \in {"a", "c"}, g \in {"a", "b", "c"}, l \in {<< >>, << "l" >>}}]

Rsa(p, q, d, e, i) ==
  [alg |-> "RSA", p |-> p, q |-> q, n |-> p * q, d |-> d, e |-> e, iqmp |-> i,
   dmp1 |-> IF p > 1 THEN d % (p - 1) ELSE d, dmq1 |-> IF q > 1 THEN d % (q - 1) ELSE d]
Dsa(a, p, q, g, x, y) == [alg |-> a, p |-> p, q |-> q, g |-> g, x |-> x, y |-> y]
Dh(p, q, g, x, y) == [alg |-> "DH", p |-> p, q |-> q, g |-> g, x |-> x, y |-> y]
Ec(d, point) == [alg |-> "EC", d |-> d, point |-> point, negative |-> FALSE]

MCNumbers ==
  {Rsa(p, q, d, e, i) : p \in {-3, 2, 3, 5}, q \in {-5, 5, 7}, d \in {1, 3, 5, 11, 13}, e \in {3, 5, 7, 11}, i \in {1, 2, 3}}
  \cup [alg : {"RSA public"}, n : {2, 15}, e : {1, 3, 4, 15}]
  \cup {Dsa(a, 23, 11, g, x, y) : a \in {"DSA", "DSA public"}, g \in {1, 2, 4, 23}, x \in {0, 3, 11}, y \in {-1, 8, 18}}
  \cup {Dsa("DSA", 47, 23, 4, 3, 17), Dsa("DSA", 13, 3, 3, 2, 9)}
  \cup {Dh(p, q, g, x, Pow(g, x, p)) : p \in {7, 11, 23}, q \in {Null, 11}, g \in {1, 2, 5}, x \in {3, 6, 7}}
  \cup {Dh(23, Null, 5, 3, y) : y \in {-1, 0, 1, 22, 8}}
  \cup {Ec(d, point) : d \in {-1, 0, 1, 2, 3, 6}, point \in {Null, 1, 2, 3}}
  \cup {[Ec(2, 2) EXCEPT !.negative = TRUE]}
  \cup {[alg |-> "EC derived", d |-> d] : d \in {-1, 0, 1, 4, 5, 6}}
=============================================================================
