---------------------------- MODULE NameMatching ----------------------------
(***************************************************************************)
(* The verdicts of module NameTypes compared with their reference          *)
(* definitions: a constraint or a pattern is put to a name, and answered.  *)
(***************************************************************************)
EXTENDS NameTypes

CONSTANTS
  DNSStrings,   \* the dotted strings tried as constraints and names
  BitStrings,   \* the octet strings tried as subnets and addresses
  Mailboxes     \* the mailboxes tried

ASSUME StringsAssumption ==
  /\ DNSStrings \subseteq Seq(Label) /\ BitStrings \subseteq Seq({0, 1})
  /\ \A m \in Mailboxes :
       m \in [dotted : BOOLEAN, at : BOOLEAN, local : Seq(Label), domain : Seq(Label)]

VARIABLES asked, presented, question, reply

nameVars == << asked, presented, question, reply >>

GN(t, v) == [type |-> t, value |-> v]

NamesInit ==
  /\ reply = "unasked"
  /\ \/ /\ question \in {"dns_constraint", "dns_subject"}
        /\ asked \in DNSStrings /\ presented \in DNSStrings
     \/ question = "ip_constraint" /\ asked \in BitStrings /\ presented \in BitStrings
     \/ question = "mail_constraint" /\ asked \in Mailboxes /\ presented \in Mailboxes

\* The callers hand a subject over only after build_subject accepted it
AskSubject ==
  /\ question = "dns_subject" /\ IsDNSName(asked)
  /\ reply' = IF SubjectMatches(GN("DNSName", asked), << GN("DNSName", presented) >>)
              THEN Match ELSE NoMatch

AskConstraint ==
  LET t == CASE question = "dns_constraint" -> "DNSName"
             [] question = "ip_constraint"  -> "IPAddress"
             [] OTHER                       -> "RFC822Name"
  IN  /\ question # "dns_subject"
      /\ reply' = EvaluateSingleConstraint(GN(t, asked), GN(t, presented))

NamesNext ==
  reply = "unasked" /\ (AskSubject \/ AskConstraint) /\ UNCHANGED << asked, presented, question >>

NamesSpec == NamesInit /\ [][NamesNext]_nameVars

-----------------------------------------------------------------------------
(* Reference definitions                                                   *)

\* n is c with zero or more labels added on the left
EndsWith(n, c) ==
  Len(c) <= Len(n) /\ \A i \in DOMAIN c : Fold[n[Len(n) - Len(c) + i]] = Fold[c[i]]

\* RFC 5280 4.2.1.10, as the comment on DNSConstraint::matches states it: a
\* name satisfies a constraint when labels were added on its left.  The code
\* compares zipped labels after a test on the number of characters.
DNSConstraintIsSuffix ==
  question = "dns_constraint" /\ reply \in {Match, NoMatch} =>
    (reply = Match) = EndsWith(InnerName(presented), asked)

\* A permitted subtree that lets a wildcard SAN pass lets every name the
\* wildcard stands for pass, though only its inner name is compared
WildcardWithinSubtree ==
  question = "dns_constraint" /\ reply = Match =>
    \A n \in DNSStrings : IsDNSName(n) /\ DNSPatternMatches(presented, n) => EndsWith(n, asked)

\* A wildcard stands for exactly one label, and an exact pattern for itself
WildcardIsOneLabel ==
  question = "dns_subject" /\ reply # "unasked" =>
    (reply = Match) =
      /\ IsDNSPattern(presented)
      /\ EndsWith(asked, InnerName(presented))
      /\ Len(asked) = Len(presented)

\* A subnet constraint holds exactly the addresses of its family that agree
\* with it under the mask, from the zero-length prefix to the full width
SubnetIsMask ==
  question = "ip_constraint" /\ reply \in {Match, NoMatch} =>
    (reply = Match) =
      /\ 2 * Len(presented) = Len(asked)
      /\ \A i \in DOMAIN presented : asked[Len(presented) + i] = 1 => asked[i] = presented[i]

\* A mailbox constraint is an exact mailbox, a host, or (with a leading dot)
\* the proper subdomains of a domain; a constraint is never vacuous
MailboxConstraint ==
  question = "mail_constraint" /\ reply \in {Match, NoMatch} =>
    (reply = Match) =
      /\ EndsWith(presented.domain, asked.domain)
      /\ asked.dotted = (Len(presented.domain) > Len(asked.domain))
      /\ asked.at => asked.local = presented.local

\* An octet string of another length, or a mask with a hole, is an error that
\* fails the path: it is never answered with a match or with a mismatch
BadSubnetIsError ==
  question = "ip_constraint" /\ reply # "unasked" =>
    (reply = Failed) =
      \/ Len(presented) \notin {V4Bits, V6Bits} \/ Len(asked) \notin {2 * V4Bits, 2 * V6Bits}
      \/ \E i, j \in Len(asked) \div 2 + 1 .. Len(asked) : i < j /\ asked[i] < asked[j]

\* DNSConstraint and DNSPattern reply as RFC 5280 and RFC 6125 define them, on
\* names of every number of labels, with and without wildcards
DNSMatching == DNSConstraintIsSuffix /\ WildcardWithinSubtree /\ WildcardIsOneLabel

\* IPConstraint answers by the mask, and fails on everything that is no subnet
SubnetMatching == SubnetIsMask /\ BadSubnetIsError
=============================================================================
