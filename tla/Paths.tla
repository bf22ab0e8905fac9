------------------------------- MODULE Paths -------------------------------
(***************************************************************************)
(* Certificates, the requests made of the verifier, and which paths answer *)
(* a request: the declarative side of path validation, stated without the  *)
(* search of module ChainBuilder.                                          *)
(*                                                                         *)
(* A certificate stands for its DER encoding: two equal ones are the same  *)
(* element of Cert.                                                        *)
(***************************************************************************)
EXTENDS Policy

CONSTANTS
  Cert,         \* the certificates
  Content,      \* certificate -> its fields, the record of module Policy
  Requests,     \* the calls of verify: [leaf, intermediates, store, policy]
  MaxDepth      \* u8::MAX

-----------------------------------------------------------------------------
(* Certificates and requests                                               *)

Subject(c) == Content[c].subject
Issuer(c) == Content[c].issuer

Ext(c, oid) == GetExtension(Content[c].exts, oid)

The(S) == CHOOSE x \in S : TRUE

\* cert_is_self_issued
SelfIssued(c) == Subject(c) = Issuer(c)

\* NameChain::new parses the SAN of the leaf and of every certificate that is
\* not self-issued
CollectsSANs(c, isLeaf) ==
  (isLeaf \/ ~SelfIssued(c)) /\ Ext(c, "subject_alternative_name") # {}

MalformedSAN(c, isLeaf) ==
  CollectsSANs(c, isLeaf) /\ The(Ext(c, "subject_alternative_name")).form = "malformed"

SANs(c, isLeaf) ==
  IF CollectsSANs(c, isLeaf) THEN The(Ext(c, "subject_alternative_name")).value ELSE << >>

Constrained(c) == Ext(c, "name_constraints") # {}
Permitted(c) == The(Ext(c, "name_constraints")).value.permitted
Excluded(c) == The(Ext(c, "name_constraints")).value.excluded

ASSUME ContentAssumption ==
  \A c \in Cert :
    /\ IsTuple(Content[c].exts)
    /\ \A leaf \in BOOLEAN : IsTuple(SANs(c, leaf))
    /\ Constrained(c) => IsTuple(Permitted(c)) /\ IsTuple(Excluded(c))

ASSUME RequestAssumption ==
  /\ MaxDepth \in Nat
  /\ \A r \in Requests : /\ r.leaf \in Cert
                         /\ r.intermediates \in Seq(Cert)
                         /\ r.store \in Seq(Cert)
                         /\ r.policy.max_chain_depth \in 0 .. MaxDepth

\* ChainBuilder::potential_issuers: the store, then the intermediates, of those
\* the ones whose subject is the issuer of c.  Store::get_by_subject keeps the
\* order in which Store::new was given the certificates.
Pool(r) == r.store \o r.intermediates

PotentialIssuers_Any(r, c, from) == from .. Len(Pool(r))   \* mutant: subjects are not compared

PotentialIssuers(r, c, from) == {i \in from .. Len(Pool(r)) : Subject(Pool(r)[i]) = Issuer(c)}

\* Store::contains
InStore(r, c) == \E i \in DOMAIN r.store : r.store[i] = c

-----------------------------------------------------------------------------
(* What a request asks for                                                 *)

\* A SAN passes a list of permitted subtrees when none is of its type, or when
\* one matches it before one fails to parse
PassesPermitted(subtrees, san) ==
  \/ \A k \in DOMAIN subtrees : EvaluateSingleConstraint(subtrees[k], san) = Skipped
  \/ \E k \in DOMAIN subtrees :
       /\ EvaluateSingleConstraint(subtrees[k], san) = Match
       /\ \A j \in 1 .. k - 1 : EvaluateSingleConstraint(subtrees[j], san) # Failed

PassesExcluded(subtrees, san) ==
  \A k \in DOMAIN subtrees : EvaluateSingleConstraint(subtrees[k], san) \in {Skipped, NoMatch}

\* The names of d are within the name constraints of c
WithinConstraints(c, d, isLeaf) ==
  Constrained(c) =>
    \A i \in DOMAIN SANs(d, isLeaf) :
      /\ PassesPermitted(Permitted(c), SANs(d, isLeaf)[i])
      /\ PassesExcluded(Excluded(c), SANs(d, isLeaf)[i])

\* The names of a path, leaf first, are within the name constraints of p[i]
ConstraintsMet(p, i) ==
  /\ Constrained(p[i]) => The(Ext(p[i], "name_constraints")).form # "malformed"
  /\ \A j \in 1 .. i : WithinConstraints(p[i], p[j], j = 1)

\* The policy permits p[i] in its position
PermittedAt(r, p, i) ==
  /\ ~HasDuplicates(Content[p[i]].exts)
  /\ ~MalformedSAN(p[i], i = 1)
  /\ i = 1 => PermitsEE(r.policy, Content[p[i]]) = Ok
  /\ i > 1 => /\ \E k \in DOMAIN Pool(r) : Pool(r)[k] = p[i]
              /\ ValidIssuer(r.policy, Content[p[i]], Content[p[i - 1]], i - 2) = Ok

\* A path answers a request: it leads from the leaf to a trust anchor over at
\* most max_chain_depth intermediates
ValidPath(r, p) ==
  /\ Len(p) \in 1 .. r.policy.max_chain_depth + 2
  /\ p[1] = r.leaf
  /\ InStore(r, p[Len(p)])
  /\ \A i \in 2 .. Len(p) : Subject(p[i]) = Issuer(p[i - 1])
  /\ \A i \in 1 .. Len(p) : PermittedAt(r, p, i) /\ ConstraintsMet(p, i)

\* The paths over the certificates of a request
PathsOf(r) ==
  UNION {{<< r.leaf >> \o q : q \in [1 .. n -> ToSet(Pool(r))]} :
           n \in 0 .. r.policy.max_chain_depth + 1}

\* A candidate that makes "?" leave the loop over the candidates
Aborts(c) == HasDuplicates(Content[c].exts) \/ MalformedSAN(c, FALSE)

\* A request some candidate of which makes the search give up a branch early
Obstructed(r) == \E i \in DOMAIN Pool(r) : Aborts(Pool(r)[i])

\* A request with a valid path that the depth counter can count
Answerable(r) == \E p \in PathsOf(r) : ValidPath(r, p) /\ Len(p) <= MaxDepth + 1
=============================================================================
