----------------------------- MODULE NameTypes -----------------------------
(***************************************************************************)
(* The name types of cryptography-x509-verification (types.rs) and the     *)
(* evaluation of one name constraint against one subject alternative name  *)
(* (lib.rs, NameChain::evaluate_single_constraint).                        *)
(*                                                                         *)
(* A dotted string is the sequence of what split('.') returns: its labels, *)
(* most specific first.  The empty string is the sequence of one empty     *)
(* label.  A label is opaque: a table gives its length, its lower-case     *)
(* form and whether its characters are legal.                              *)
(***************************************************************************)
EXTENDS Integers, Sequences, FiniteSetsExt

CONSTANTS
  Label,        \* the labels (and mailbox atoms) strings are made of
  LabelLen,     \* label -> its number of characters
  Fold,         \* label -> the label in lower case (eq_ignore_ascii_case)
  HostLabel,    \* labels of a-z A-Z 0-9 -, neither first nor last a hyphen
  AtomLabel,    \* labels made of RFC 2822 atext characters only
  Star,         \* the label "*"
  MaxLabelLen,  \* 63 in the code
  MaxNameLen,   \* 253 in the code
  V4Bits,       \* 32 in the code
  V6Bits        \* 128 in the code

ASSUME LabelAssumption ==
  /\ LabelLen \in [Label -> Nat]
  /\ Fold \in [Label -> Label] /\ \A l \in Label : LabelLen[Fold[l]] = LabelLen[l]
  /\ HostLabel \subseteq Label /\ AtomLabel \subseteq Label /\ Star \in Label
  /\ MaxLabelLen \in Nat /\ MaxNameLen \in Nat
  /\ V4Bits \in Nat \ {0} /\ V6Bits \in Nat \ {0}

-----------------------------------------------------------------------------
(* DNS names                                                               *)

\* str::len of the dotted string: the labels and the dots between them
LabelChars(s) ==
  LET last[k \in 0 .. Len(s)] ==
        IF k = 0 THEN 0 ELSE last[k - 1] + LabelLen[s[Len(s) - k + 1]]
  IN  last[Len(s)]

CharLen(s) == LabelChars(s) + Len(s) - 1

\* DNSName::new(s) is Some
IsDNSName(s) ==
  /\ CharLen(s) \in 1 .. MaxNameLen
  /\ \A i \in DOMAIN s : LabelLen[s[i]] \in 1 .. MaxLabelLen /\ s[i] \in HostLabel

\* PartialEq for DNSName: the two strings agree up to case
SameDNS(a, b) == Len(a) = Len(b) /\ \A i \in DOMAIN a : Fold[a[i]] = Fold[b[i]]

\* DNSName::parent is Some; it is then Tail(n)
HasParent(n) == Len(n) > 1 /\ IsDNSName(Tail(n))

\* rlabels().zip(rlabels()).all(eq_ignore_ascii_case): the name with fewer
\* labels decides how many are compared, from the right

ZippedRLabelsAgree(a, b) ==
  \A k \in 0 .. Min({Len(a), Len(b)}) - 1 :
    Fold[a[Len(a) - k]] = Fold[b[Len(b) - k]]

\* DNSName::is_subdomain_of
IsSubdomainOf_OrSame(n, other) ==   \* mutant: >= for >
  CharLen(n) >= CharLen(other) /\ ZippedRLabelsAgree(n, other)

IsSubdomainOf(n, other) == CharLen(n) > CharLen(other) /\ ZippedRLabelsAgree(n, other)

\* DNSPattern::new: "*." followed by a name, or a name
IsWildcard(s) == Len(s) > 1 /\ s[1] = Star

InnerName(s) == IF IsWildcard(s) THEN Tail(s) ELSE s

IsDNSPattern(s) == IsDNSName(InnerName(s))

\* DNSPattern::matches

DNSPatternMatches(pat, n) ==
  IF IsWildcard(pat)
  THEN HasParent(n) /\ SameDNS(InnerName(pat), Tail(n))
  ELSE SameDNS(pat, n)

\* DNSConstraint::matches
DNSConstraintMatches_NoLength(c, n) == ZippedRLabelsAgree(c, n)   \* mutant

DNSConstraintMatches(c, n) == CharLen(n) >= CharLen(c) /\ ZippedRLabelsAgree(c, n)

-----------------------------------------------------------------------------
(* IP addresses: the octet string of an iPAddress name as its bits, most   *)
(* significant first.  Its length tells the family, as in from_bytes.      *)

\* IPAddress::from_bytes is Some
IsIPAddress(bits) == Len(bits) \in {V4Bits, V6Bits}

\* leading_ones and count_ones of IPAddress::as_prefix
LeadingOnes(b) == Cardinality({i \in DOMAIN b : \A j \in 1 .. i : b[j] = 1})

CountOnes(b) == Cardinality({i \in DOMAIN b : b[i] = 1})

\* checked_shr and checked_shl on the bits of a word, 0 when the shift reaches
\* its width
CheckedShr(word, n) ==
  [i \in DOMAIN word |-> IF n < Len(word) /\ n < i THEN word[i - n] ELSE 0]

CheckedShl(word, n) ==
  [i \in DOMAIN word |-> IF n < Len(word) /\ i + n <= Len(word) THEN word[i + n] ELSE 0]

\* The mask word of IPAddress::mask: MAX shifted right and left again
MaxWord(w) == [i \in 1 .. w |-> 1]

MaskWord_Wrapping(w, prefix) ==   \* mutant: wrapping_shr and wrapping_shl
  LET n == (IF prefix > w THEN 0 ELSE w - prefix) % w
  IN  CheckedShl(CheckedShr(MaxWord(w), n), n)

MaskWord(w, prefix) ==
  LET n == IF prefix > w THEN 0 ELSE w - prefix   \* saturating_sub
  IN  CheckedShl(CheckedShr(MaxWord(w), n), n)

\* IPAddress::mask
Mask(bits, prefix) == [i \in DOMAIN bits |-> bits[i] * MaskWord(Len(bits), prefix)[i]]

\* IPConstraint::from_bytes is Some: an address, then a contiguous mask
SubnetBits(b) == SubSeq(b, 1, Len(b) \div 2)

SubnetMask(b) == SubSeq(b, Len(b) \div 2 + 1, Len(b))

IsIPConstraint(b) ==
  /\ Len(b) \in {2 * V4Bits, 2 * V6Bits}
  /\ LeadingOnes(SubnetMask(b)) = CountOnes(SubnetMask(b))

\* IPConstraint::matches
IPConstraintMatches(b, ip) ==
  LET prefix == LeadingOnes(SubnetMask(b))
  IN  Mask(SubnetBits(b), prefix) = Mask(ip, prefix)

-----------------------------------------------------------------------------
(* RFC 822 mailboxes: dotted (the string starts with "."), at (there is a  *)
(* "@"), local (what stands before the first "@", the leading "." left     *)
(* out; <<>> without "@") and domain (what stands after the "@", or the    *)
(* whole string without one, again without the leading ".").               *)

\* RFC822Name::new is Some; a leading "." is an empty first component
IsRFC822Name(m) ==
  /\ m.at /\ ~m.dotted
  /\ \A i \in DOMAIN m.local : LabelLen[m.local[i]] > 0 /\ m.local[i] \in AtomLabel
  /\ IsDNSName(m.domain)

\* RFC822Constraint::new is Some
IsRFC822Constraint(m) == IsRFC822Name(m) \/ (~m.at /\ IsDNSName(m.domain))

\* RFC822Constraint::matches: InDomain, Exact, OnDomain
RFC822ConstraintMatches(c, m) ==
  CASE c.dotted -> IsSubdomainOf(m.domain, c.domain)
    [] c.at     -> c.local = m.local /\ SameDNS(c.domain, m.domain)
    [] OTHER    -> SameDNS(m.domain, c.domain)

-----------------------------------------------------------------------------
(* NameChain::evaluate_single_constraint, after its budget check.  A       *)
(* general name is a record [type, value].                                 *)

Match   == "Applied(true)"
NoMatch == "Applied(false)"
Skipped == "Skipped"
Failed  == "Err"

\* One pair of the match: the SAN and the constraint parse, and then compare
Evaluated(parses, matches) ==
  IF ~parses THEN Failed ELSE IF matches THEN Match ELSE NoMatch

EvaluateSingleConstraint(c, san) ==
  CASE c.type # san.type      -> Skipped
    [] c.type = "DNSName"     ->
         Evaluated(IsDNSName(c.value) /\ IsDNSPattern(san.value),
                   DNSConstraintMatches(c.value, InnerName(san.value)))
    [] c.type = "IPAddress"   ->
         Evaluated(IsIPConstraint(c.value) /\ IsIPAddress(san.value),
                   IPConstraintMatches(c.value, san.value))
    [] c.type = "RFC822Name"  ->
         Evaluated(IsRFC822Constraint(c.value) /\ IsRFC822Name(san.value),
                   RFC822ConstraintMatches(c.value, san.value))
    [] OTHER                  -> Failed    \* "unsupported name constraint"

\* Subject::subject_alt_name_matches and Subject::matches: the peer name the
\* verifier was built for against the SANs of the leaf
SubjectMatches(subject, sans) ==
  \E i \in DOMAIN sans :
    /\ sans[i].type = subject.type
    /\ IF subject.type = "DNSName"
       THEN IsDNSPattern(sans[i].value) /\ DNSPatternMatches(sans[i].value, subject.value)
       ELSE IsIPAddress(sans[i].value) /\ sans[i].value = subject.value
=============================================================================
