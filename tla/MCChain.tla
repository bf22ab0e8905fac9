------------------------------ MODULE MCChain ------------------------------
(***************************************************************************)
(* Instance of ChainBuilder: for its search, cross-signed, self-signed and *)
(* cyclic intermediates, path length limits, wrong keys, and candidates    *)
(* whose extensions do not parse, in every order; for name constraints,    *)
(* one intermediate, one or two roots with the same name and key, every    *)
(* combination of a few SANs and subtrees, and a budget that some of the   *)
(* searches exhaust.                                                       *)
(***************************************************************************)
EXTENDS ChainBuilder, PkiData

-----------------------------------------------------------------------------
(* The search                                                              *)

FooCom == << DNS(<< "foo", "com" >>) >>

SearchCerts ==
  << MkCert("L", "A", "kL", "kA", << AKI, SAN(FooCom) >>),      \* 1: the leaf
     MkCA("R", "R", "kR", "kR", {}, << >>),                     \* 2: the root
     MkCA("A", "B", "kA", "kB", {}, << >>),                     \* 3
     MkCA("A", "R", "kA", "kR", {0}, << >>),                    \* 4: path length 0
     MkCA("A", "A", "kA", "kA", {}, << >>),                     \* 5: self-signed
     MkCA("B", "R", "kB", "kR", {1}, << >>),                    \* 6: path length 1
     MkCA("B", "A", "kB", "kA", {}, << >>),                     \* 7: a cycle with 3
     MkCA("A", "R", "kX", "kR", {}, << >>),                     \* 8: another key
     MkCert("A", "R", "kA", "kR", << BC(FALSE, {}), KU(TRUE) >>),     \* 9: no CA
     MkCA("A", "R", "kA", "kR", {}, << KU(TRUE) >>),            \* 10: a duplicate
     MkCA("A", "R", "kA", "kR", {}, << BadSAN >>),              \* 11: malformed SAN
     MkCA("B", "R", "kB", "kR", {}, << BadNC >>),               \* 12: malformed NC
     MkCert("L", "A", "kL", "kA", << SAN(FooCom) >>),           \* 13: a leaf without AKI
     MkCA("A", "A", "kA", "kA0", {}, << >>),                    \* 14: self-issued, a new key
     MkCA("A", "R", "kA0", "kR", {}, << >>),                    \* 15: the key that signed 14
     MkCA("empty", "R", "kA", "kR", {}, << >>),                 \* 16: no subject
     MkCert("L", "empty", "kL", "kA", << AKI, SAN(FooCom) >>) >>   \* 17: a leaf without issuer

SearchPolicy(depth) ==
  [max_chain_depth |-> depth, subject |-> {DNS(<< "FOO", "com" >>)},
   validation_time |-> 2025, extended_key_usage |-> "serverAuth",
   ca |-> WebPKICA, ee |-> WebPKIEE]

\* The ordered selections of at most two intermediates, and of three of the
\* well-formed ones
Selections ==
  {s \in UNION {[1 .. n -> (3 .. 12) \cup {16}] : n \in 0 .. 2} \cup [1 .. 3 -> 3 .. 8] :
     \A i, j \in DOMAIN s : i # j => s[i] # s[j]}

SearchRequests ==
       [leaf : {1}, intermediates : Selections, store : {<< 2 >>, << 6, 2 >>},
        policy : {SearchPolicy(d) : d \in {0, 1, 2}}]
  \cup [leaf : {1, 13, 17}, intermediates : {<< 3, 6 >>, << 16 >>}, store : {<< 1 >>, << 7, 2, 3 >>},
        policy : {SearchPolicy(1)}]

-----------------------------------------------------------------------------
(* Name constraints                                                        *)

foo_com == DNS(<< "foo", "com" >>)
bar_com == DNS(<< "bar", "com" >>)

\* 10/2 on a scale of two bits: the address 10 and the mask 10
Subnet == IP(<< 1, 0, 1, 0 >>)

LeafSANs ==
  << << foo_com >>, << bar_com, IP(<< 1, 1 >>) >>, << DNS(<< "*", "FOO", "com" >>) >>,
     << DNS(<< "-", "com" >>) >>, << Mail(<< "bar" >>, << "foo", "com" >>) >>,
     << Directory, foo_com >> >>

PermittedLists ==
  << << >>, << DNS(<< "com" >>) >>, << bar_com, foo_com >>, << Subnet >>,
     << DNS(<< "" >>), foo_com >>, << foo_com, Directory >>,
     << [type |-> "RFC822Name", value |-> [dotted |-> TRUE, at |-> FALSE, local |-> << >>,
                                           domain |-> << "com" >>]] >> >>

ExcludedLists == << << >>, << DNS(<< "bar", "foo", "com" >>), bar_com >>, << IP(<< 1, 0, 0, 0 >>) >> >>

\* The intermediates: without names; with a name; self-issued with a name;
\* with constraints of its own that exclude its name
IntermediateExts ==
  << << >>, << SAN(<< bar_com >>) >>, << SAN(<< bar_com >>) >>,
     << SAN(<< bar_com >>), NC(<< >>, << bar_com >>) >> >>

\* Certificates 18 to 23, 24 to 27, and 28 to 69: of the roots every second one is
\* named A, the others R.  Concatenation makes TLC tabulate the sequences.
LeafCerts == [n \in 1 .. 6 |-> MkCert("L", "A", "kL", "kA", << AKI, SAN(LeafSANs[n]) >>)]

IntermediateCerts ==
  [n \in 1 .. 4 |-> MkCA("A", IF n = 3 THEN "A" ELSE "R", "kA", "kR", {}, IntermediateExts[n])]

RootCerts ==
  [n \in 1 .. 42 |->
     LET name == IF n % 2 = 0 THEN "A" ELSE "R"
         p == (n - 1) \div 6 + 1
         e == (((n - 1) \div 2) % 3) + 1
     IN  MkCA(name, name, "kR", "kR", {}, << NC(PermittedLists[p], ExcludedLists[e]) >>)]

MCContent == SearchCerts \o LeafCerts \o IntermediateCerts \o RootCerts

MCCert == DOMAIN MCContent

NamesPolicy ==
  [max_chain_depth |-> 1, subject |-> {}, validation_time |-> 2025,
   extended_key_usage |-> "clientAuth", ca |-> WebPKICA, ee |-> WebPKIEE]

\* Root A issues the self-issued intermediate, root R the others
RootsFor(i) == {c \in 28 .. 69 : MCContent[c].subject = MCContent[i].issuer}

NamesRequests ==
  UNION {[leaf : 18 .. 23, intermediates : {<< i >>}, policy : {NamesPolicy},
          store : {<< r >> : r \in RootsFor(i)} \cup
                  {<< q, r >> : q \in RootsFor(i) \cap {42, 43, 54, 55}, r \in RootsFor(i)}] :
         i \in 24 .. 27}

MCRequests == SearchRequests \cup NamesRequests
=============================================================================
