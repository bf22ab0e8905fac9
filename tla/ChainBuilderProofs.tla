------------------------- MODULE ChainBuilderProofs -------------------------
(***************************************************************************)
(* Proofs about the search of module ChainBuilder, for every set of        *)
(* certificates, every request and every limit.                            *)
(***************************************************************************)
EXTENDS ChainBuilder, PolicyProofs, SequenceTheorems

-----------------------------------------------------------------------------
(* The inductive invariant                                                 *)

\* The certificates of the frames, leaf first
Certs == [i \in 1 .. Len(stack) |-> stack[i].cert]

\* The path a call that returned Ok is building: the frames still on the stack,
\* then the chain it returned, which has the trust anchor first
PathNow ==
  [i \in 1 .. Len(stack) + Len(chain) |->
     IF i <= Len(stack) THEN stack[i].cert ELSE chain[Len(stack) + Len(chain) - i + 1]]

Depth == req.policy.max_chain_depth

\* A frame: how deep it is, and why its certificate was let in
FrameOK(i) ==
  /\ stack[i].depth = i - 1
  /\ i = 1 => stack[i].cert = req.leaf
  /\ i > 1 => Subject(stack[i].cert) = Issuer(stack[i - 1].cert)
  /\ PermittedAt(req, Certs, i)

\* The frames whose constraints and depth were checked: all but the innermost
\* one, and that one too once it is past those checks
FrameChecked(i) ==
  /\ i < Len(stack) \/ pc \in {"anchor", "candidates", "return"} => ConstraintsMet(Certs, i)
  /\ i < Len(stack) \/ pc \in {"candidates", "return"} => i <= Depth + 1

\* The subtrees before the k-th neither matched nor failed, or were all of
\* another type
SubtreesSeen(subtrees, name, k) ==
  \A j \in DOMAIN subtrees :
    j < k => EvaluateSingleConstraint(subtrees[j], name) \in {Skipped, NoMatch}

SubtreesSkipped(subtrees, name, k) ==
  \A j \in DOMAIN subtrees : j < k => EvaluateSingleConstraint(subtrees[j], name) = Skipped

\* The names before the n-th are within the constraints of c
NamesPass(c, names, n) ==
  \A s \in DOMAIN names :
    s < n => PassesPermitted(Permitted(c), names[s]) /\ PassesExcluded(Excluded(c), names[s])

\* What evaluate_constraints established so far: everything below the level of
\* the cursor, at that level the names before san, and for san the subtrees
\* before k
NameInv ==
  cursor.san <= Len(Names) =>
    /\ cursor.side = "excluded" => PassesPermitted(Permitted(Top.cert), Names[cursor.san])
    /\ SubtreesSeen(Subtrees, Names[cursor.san], cursor.k)
    /\ cursor.side = "permitted" /\ cursor.permit =>
         SubtreesSkipped(Subtrees, Names[cursor.san], cursor.k)

CursorInv ==
  /\ Constrained(Top.cert)
  /\ The(Ext(Top.cert, "name_constraints")).form # "malformed"
  /\ cursor.lvl <= Len(stack) + 1
  /\ \A j \in 1 .. Len(stack) :
       j < cursor.lvl => WithinConstraints(Top.cert, stack[j].cert, j = 1)
  /\ cursor.lvl <= Len(stack) => NamesPass(Top.cert, Names, cursor.san) /\ NameInv

SearchInv ==
  /\ TypeOK
  /\ pc \in {"build_chain", "done"} => stack = << >>
  /\ \A i \in 1 .. Len(stack) : FrameOK(i) /\ FrameChecked(i)
  /\ pc = "evaluate" => CursorInv
  /\ pc = "return" /\ result.kind = Ok => ValidPath(req, PathNow)
  /\ Soundness

-----------------------------------------------------------------------------
(* Types                                                                   *)

ResultType == [kind : Verdicts, boxed : Verdicts]

\* Popping the innermost frame leaves the others where they are
LEMMA FrontFacts ==
  ASSUME NEW S, NEW s \in Seq(S), s # << >>
  PROVE  /\ Front(s) \in Seq(S)
         /\ Len(Front(s)) = Len(s) - 1
         /\ Len(s) \in Nat \ {0}
         /\ \A i \in 1 .. Len(s) - 1 : Front(s)[i] = s[i]
<1>1. Len(s) \in Nat \ {0}
  BY EmptySeq
<1>2. \A i \in 1 .. Len(s) - 1 : s[i] \in S
  BY ElementOfSeq
<1> DEFINE n == Len(s) - 1
<1>3. n \in Nat
  BY <1>1
<1> HIDE DEF n
<1>4. /\ SubSeq(s, 1, n) \in Seq(S)
      /\ Len(SubSeq(s, 1, n)) = IF 1 <= n THEN n - 1 + 1 ELSE 0
      /\ \A i \in 1 .. n - 1 + 1 : SubSeq(s, 1, n)[i] = s[1 + i - 1]
  BY <1>2, <1>3, SubSeqProperties DEF n
<1>5. Len(SubSeq(s, 1, n)) = n
  BY <1>3, <1>4
<1>6. \A i \in 1 .. n : SubSeq(s, 1, n)[i] = s[i]
  BY <1>3, <1>4
<1>7. Front(s) = SubSeq(s, 1, n)
  BY DEF Front, n
<1>8. QED
  BY <1>1, <1>4, <1>5, <1>6, <1>7 DEF n

LEMMA OkType == Ok \in Verdicts /\ ErrorKind \subseteq Verdicts
BY DEF Verdicts

LEMMA ResultTyped == ASSUME NEW v \in Verdicts PROVE Result(v) \in ResultType
BY OkType DEF Result, ResultType

\* The innermost frame of a call in progress
LEMMA TopTyped ==
  ASSUME TypeOK, stack # << >>
  PROVE  Top \in FrameType /\ Len(stack) \in Nat \ {0} /\ Top.cert \in Cert
<1>1. Len(stack) \in Nat \ {0}
  BY EmptySeq DEF TypeOK
<1>2. Top \in FrameType
  BY <1>1, ElementOfSeq DEF TypeOK, Top
<1>3. QED
  BY <1>1, <1>2 DEF FrameType

\* t is s with another innermost frame, for the same certificate and depth
SameFrames(s, t) ==
  /\ t \in Seq(FrameType)
  /\ t # << >>
  /\ Len(t) = Len(s)
  /\ \A j \in 1 .. Len(s) : t[j].cert = s[j].cert /\ t[j].depth = s[j].depth

LEMMA TopReplaced ==
  ASSUME NEW s \in Seq(FrameType), s # << >>, NEW g \in FrameType,
         g.cert = s[Len(s)].cert, g.depth = s[Len(s)].depth
  PROVE  SameFrames(s, [s EXCEPT ![Len(s)] = g])
<1>1. Len(s) \in Nat \ {0}
  BY EmptySeq
<1> DEFINE t == [s EXCEPT ![Len(s)] = g]
<1>2. /\ t \in Seq(FrameType)
      /\ Len(t) = Len(s)
      /\ \A j \in 1 .. Len(s) : t[j] = IF j = Len(s) THEN g ELSE s[j]
  BY <1>1, ExceptSeq
<1>3. t # << >>
  BY <1>1, <1>2, EmptySeq
<1> HIDE DEF t
<1>4. SameFrames(s, t)
  BY <1>2, <1>3 DEF SameFrames
<1>5. QED
  BY <1>4 DEF t

\* The loop over the candidates changes next and last of the innermost frame,
\* and leaves the certificates and depths alone
LEMMA NextUpdated ==
  ASSUME NEW s \in Seq(FrameType), s # << >>, NEW nxt \in Nat \ {0}
  PROVE  SameFrames(s, [s EXCEPT ![Len(s)].next = nxt])
<1> DEFINE f == s[Len(s)]
           g == [f EXCEPT !.next = nxt]
<1>1. f \in FrameType
  BY EmptySeq, ElementOfSeq
<1>2. g \in FrameType /\ g.cert = f.cert /\ g.depth = f.depth
  BY <1>1 DEF FrameType
<1>3. [s EXCEPT ![Len(s)].next = nxt] = [s EXCEPT ![Len(s)] = g]
  OBVIOUS
<1> HIDE DEF g
<1>4. QED
  BY <1>2, <1>3, TopReplaced

LEMMA LastUpdated ==
  ASSUME NEW s \in Seq(FrameType), s # << >>, NEW e \in ResultType
  PROVE  SameFrames(s, [s EXCEPT ![Len(s)].last = e])
<1> DEFINE f == s[Len(s)]
           g == [f EXCEPT !.last = e]
<1>1. f \in FrameType
  BY EmptySeq, ElementOfSeq
<1>2. g \in FrameType /\ g.cert = f.cert /\ g.depth = f.depth
  BY <1>1 DEF FrameType, ResultType
<1>3. [s EXCEPT ![Len(s)].last = e] = [s EXCEPT ![Len(s)] = g]
  OBVIOUS
<1> HIDE DEF g
<1>4. QED
  BY <1>2, <1>3, TopReplaced

LEMMA ReturnTyped ==
  ASSUME TypeOK, stack # << >>, NEW v \in ResultType, NEW ch \in Seq(Cert), Return(v, ch),
         cursor' \in CursorType, budget' \in 0 .. CheckLimit
  PROVE  TypeOK'
BY FrontFacts DEF TypeOK, Return, ResultType

LEMMA CursorTyped ==
  ASSUME NEW lvl \in Nat \ {0}, NEW san \in Nat \ {0}
  PROVE  CursorAt(lvl, san) \in CursorType /\ ExcludedAt(lvl, san) \in CursorType
<1>1. CursorAt(lvl, san) \in CursorType
  BY DEF CursorAt, CursorType
<1>2. \A c \in CursorType : [c EXCEPT !.side = "excluded"] \in CursorType
  BY DEF CursorType
<1>3. QED
  BY <1>1, <1>2 DEF ExcludedAt

LEMMA CursorAdvanced ==
  ASSUME NEW cu \in CursorType, NEW b \in BOOLEAN
  PROVE  [cu EXCEPT !.k = @ + 1, !.permit = b] \in CursorType
<1>1. \A k \in Nat \ {0} : [cu EXCEPT !.k = k] \in CursorType
  BY DEF CursorType
<1>2. \A c \in CursorType : [c EXCEPT !.permit = b] \in CursorType
  BY DEF CursorType
<1>3. cu.k + 1 \in Nat \ {0}
  BY DEF CursorType
<1>4. [cu EXCEPT !.k = @ + 1, !.permit = b] = [[cu EXCEPT !.k = cu.k + 1] EXCEPT !.permit = b]
  OBVIOUS
<1>5. QED
  BY <1>1, <1>2, <1>3, <1>4

LEMMA DepthBoundIsNat == MaxDepth \in Nat
BY RequestAssumption

LEMMA FrameTyped ==
  ASSUME NEW c \in Cert, NEW d \in 0 .. MaxDepth
  PROVE  Frame(c, d) \in FrameType
<1>1. Result(Ok) \in [kind : Verdicts, boxed : Verdicts]
  BY OkType, ResultTyped DEF ResultType
<1>2. QED
  BY <1>1 DEF Frame, FrameType

LEMMA PoolTyped ==
  ASSUME NEW r \in Requests
  PROVE  /\ Pool(r) \in Seq(Cert)
         /\ DOMAIN Pool(r) = 1 .. Len(Pool(r))
         /\ \A i \in DOMAIN Pool(r) : Pool(r)[i] \in Cert
<1>1. Pool(r) \in Seq(Cert)
  BY RequestAssumption, ConcatProperties DEF Pool
<1>2. QED
  BY <1>1, LenProperties, ElementOfSeq

\* What makes a leaf or a candidate fail is an error kind
LEMMA VerdictsTyped ==
  ASSUME TypeOK
  PROVE  /\ LeafVerdict \in PolicyVerdicts
         /\ \A c \in Cert :
              /\ Abort(c) \in PolicyVerdicts
              /\ ValidIssuer(req.policy, Content[c], Content[Top.cert], Top.depth) \in PolicyVerdicts
         /\ PolicyVerdicts \subseteq Verdicts
<1>1. req.leaf \in Cert
  BY RequestAssumption DEF TypeOK
<1>2. \A c \in Cert : IsTuple(Content[c].exts)
  BY ContentAssumption
<1>3. LeafVerdict \in PolicyVerdicts
  BY <1>1, <1>2, PolicyType, ChecksType, ThenType DEF LeafVerdict
<1>4. \A c \in Cert : ValidIssuer(req.policy, Content[c], Content[Top.cert], Top.depth) \in PolicyVerdicts
  BY <1>2, PolicyType
<1>5. \A c \in Cert : Abort(c) \in PolicyVerdicts
  <2>1. \A c : Check(Top.depth < MaxDepth, "Other") && Check(~MalformedSAN(c, FALSE), "Malformed") \in PolicyVerdicts
    BY ChecksType, ThenType
  <2>2. Ok \in PolicyVerdicts
    BY DEF PolicyVerdicts
  <2>3. QED
    BY <2>1, <2>2, ChecksType, ThenType DEF Abort
<1>6. QED
  BY <1>3, <1>4, <1>5, PolicyVerdictsType

LEMMA TypeInit == Init => TypeOK
<1> SUFFICES ASSUME Init PROVE TypeOK
  OBVIOUS
<1>1. Result(Ok) \in [kind : Verdicts, boxed : Verdicts]
  BY OkType, ResultTyped DEF ResultType
<1>2. cursor \in CursorType
  BY CursorTyped DEF Init
<1>3. QED
  BY <1>1, <1>2, EmptySeq, LimitAssumption DEF Init, TypeOK

LEMMA TypeNext == TypeOK /\ [Next]_vars => TypeOK'
<1> SUFFICES ASSUME TypeOK, [Next]_vars PROVE TypeOK'
  OBVIOUS
<1> USE LimitAssumption, OkType
<1>0. /\ << >> \in Seq(Cert)
      /\ result \in ResultType
      /\ \A k \in {"Ok", "FatalError", "Malformed", "Other", "ExtensionError"} : Result(k) \in ResultType
  <2>1. {"Ok", "FatalError", "Malformed", "Other", "ExtensionError"} \subseteq Verdicts
    BY DEF Verdicts, Ok, ErrorKind
  <2>2. QED
    BY <2>1, EmptySeq, ResultTyped DEF TypeOK, ResultType
<1>1. CASE BuildChain
  <2>1. CASE LeafVerdict # Ok /\ UNCHANGED stack /\ pc' = "done" /\ result' = Result(LeafVerdict)
    BY <1>1, <2>1, VerdictsTyped, ResultTyped DEF BuildChain, TypeOK, ResultType
  <2>2. CASE /\ LeafVerdict = Ok /\ pc' = "constraints"
             /\ stack' = << Frame(req.leaf, 0) >> /\ UNCHANGED result
    <3>1. Frame(req.leaf, 0) \in FrameType
      BY RequestAssumption, FrameTyped DEF TypeOK
    <3>2. stack' \in Seq(FrameType) /\ stack' # << >>
      BY <2>2, <3>1
    <3>3. QED
      BY <1>1, <2>2, <3>2 DEF BuildChain, TypeOK
  <2>3. QED
    BY <1>1, <2>1, <2>2 DEF BuildChain
<1>2. CASE ParseConstraints
  <2>1. cursor' \in CursorType /\ budget' \in 0 .. CheckLimit /\ stack # << >>
    BY <1>2, CursorTyped DEF ParseConstraints, TypeOK
  <2>2. CASE UNCHANGED << req, stack, result, chain >>
    BY <1>2, <2>1, <2>2 DEF ParseConstraints, TypeOK, Return
  <2>3. CASE Return(Result("Malformed"), << >>)
    BY <1>0, <2>1, <2>3, ReturnTyped
  <2>4. QED
    BY <1>2, <2>2, <2>3 DEF ParseConstraints
<1>3. CASE NextLevel
  <2>1. cursor.lvl + 1 \in Nat \ {0}
    BY DEF TypeOK, CursorType
  <2>2. cursor' \in CursorType
    BY <1>3, <2>1, CursorTyped DEF NextLevel
  <2>3. QED
    BY <1>3, <2>2 DEF NextLevel, TypeOK
<1>4. CASE ConstraintsHold
  BY <1>4 DEF ConstraintsHold, TypeOK
<1>5. CASE EvaluateOne
  <2>1. /\ budget' \in 0 .. CheckLimit
        /\ cursor' \in CursorType
        /\ stack # << >>
    <3>1. budget' \in 0 .. CheckLimit
      BY <1>5 DEF EvaluateOne, NameConstraintCheck, TypeOK
    <3>2. /\ ExcludedAt(cursor.lvl, cursor.san) \in CursorType
          /\ \A b \in BOOLEAN : [cursor EXCEPT !.k = @ + 1, !.permit = b] \in CursorType
      BY CursorTyped, CursorAdvanced DEF TypeOK, CursorType
    <3>3. cursor' \in CursorType
      BY <1>5, <3>2 DEF EvaluateOne, TypeOK
    <3>4. QED
      BY <1>5, <3>1, <3>3 DEF EvaluateOne, TypeOK
  <2>2. CASE UNCHANGED << req, pc, stack, result, chain >>
    BY <2>1, <2>2 DEF TypeOK
  <2>3. CASE Return(Result("FatalError"), << >>) \/ Return(Result("Other"), << >>)
    BY <1>0, <2>1, <2>3, ReturnTyped
  <2>4. QED
    BY <1>5, <2>2, <2>3 DEF EvaluateOne
<1>6. CASE EndOfSubtrees
  <2>1. /\ budget' \in 0 .. CheckLimit
        /\ cursor' \in CursorType
        /\ stack # << >>
    <3>1. /\ CursorAt(cursor.lvl, cursor.san + 1) \in CursorType
          /\ ExcludedAt(cursor.lvl, cursor.san) \in CursorType
      <4>1. cursor.lvl \in Nat \ {0} /\ cursor.san \in Nat \ {0} /\ cursor.san + 1 \in Nat \ {0}
        BY DEF TypeOK, CursorType
      <4>2. QED
        BY <4>1, CursorTyped
    <3>2. QED
      BY <1>6, <3>1 DEF EndOfSubtrees, TypeOK
  <2>2. CASE UNCHANGED << req, pc, stack, result, chain >>
    BY <2>1, <2>2 DEF TypeOK
  <2>3. CASE Return(Result("Other"), << >>)
    BY <1>0, <2>1, <2>3, ReturnTyped
  <2>4. QED
    BY <1>6, <2>2, <2>3 DEF EndOfSubtrees
<1>7. CASE CheckAnchor
  <2>1. /\ budget' \in 0 .. CheckLimit
        /\ cursor' \in CursorType
        /\ stack # << >>
    BY <1>7 DEF CheckAnchor, TypeOK
  <2>2. CASE pc' = "candidates" /\ UNCHANGED << req, stack, result, chain >>
    BY <2>1, <2>2 DEF TypeOK
  <2>3. CASE Return(Result("Other"), << >>)
    BY <1>0, <2>1, <2>3, ReturnTyped
  <2>4. CASE Return(Result(Ok), << Top.cert >>)
    <3>1. << Top.cert >> \in Seq(Cert)
      BY <2>1, TopTyped
    <3>2. QED
      BY <1>0, <2>1, <2>4, <3>1, ReturnTyped DEF Ok
  <2>5. QED
    BY <1>7, <2>2, <2>3, <2>4 DEF CheckAnchor
<1>8. CASE TryCandidate
  <2>1. /\ budget' \in 0 .. CheckLimit
        /\ cursor' \in CursorType
        /\ stack # << >>
        /\ pc = "candidates"
    BY <1>8 DEF TryCandidate, TypeOK
  <2> DEFINE verdict(c) == ValidIssuer(req.policy, Content[c], Content[Top.cert], Top.depth)
             advanced(i) == [stack EXCEPT ![Len(stack)].next = i + 1]
  <2>2. PICK i \in DOMAIN Pool(req) :
          LET c == Pool(req)[i]
          IN  \/ Abort(c) # Ok /\ Return(Result(Abort(c)), << >>)
              \/ /\ stack' = [advanced(i) EXCEPT ![Len(stack)].last = Result(verdict(c))]
                 /\ UNCHANGED << req, pc, result, chain >>
              \/ /\ Abort(c) = Ok /\ verdict(c) = Ok
                 /\ stack' = Append(advanced(i), Frame(c, Top.depth + 1))
                 /\ pc' = "constraints"
                 /\ UNCHANGED << req, result, chain >>
    BY <1>8 DEF TryCandidate
  <2> DEFINE c == Pool(req)[i]
  <2>3. c \in Cert /\ i \in Nat
    BY PoolTyped DEF TypeOK
  <2>4. /\ advanced(i) \in Seq(FrameType)
        /\ Len(advanced(i)) = Len(stack)
        /\ advanced(i) # << >>
    <3>1. stack \in Seq(FrameType) /\ i + 1 \in Nat \ {0}
      BY <2>3 DEF TypeOK
    <3>2. QED
      BY <2>1, <3>1, NextUpdated DEF SameFrames
  <2> HIDE DEF advanced
  <2>5. CASE Abort(c) # Ok /\ Return(Result(Abort(c)), << >>)
    BY <1>0, <2>1, <2>3, <2>5, VerdictsTyped, ResultTyped, ReturnTyped
  <2>6. CASE /\ stack' = [advanced(i) EXCEPT ![Len(stack)].last = Result(verdict(c))]
             /\ UNCHANGED << req, pc, result, chain >>
    <3>1. Result(verdict(c)) \in ResultType
      BY <2>3, VerdictsTyped, ResultTyped
    <3>2. stack' \in Seq(FrameType) /\ stack' # << >>
      BY <2>4, <2>6, <3>1, LastUpdated DEF SameFrames
    <3>3. QED
      BY <2>1, <2>6, <3>2 DEF TypeOK
  <2>7. CASE /\ Abort(c) = Ok /\ verdict(c) = Ok
             /\ stack' = Append(advanced(i), Frame(c, Top.depth + 1))
             /\ pc' = "constraints"
             /\ UNCHANGED << req, result, chain >>
    <3>1. Top.depth < MaxDepth
      <4>1. Check(Top.depth < MaxDepth, "Other") && Check(~MalformedSAN(c, FALSE), "Malformed") = Ok
        BY <2>7, ThenOk DEF Abort
      <4>2. Check(Top.depth < MaxDepth, "Other") = Ok
        BY <4>1, ThenOk
      <4>3. QED
        BY <4>2 DEF Check, Ok
    <3>2. Frame(c, Top.depth + 1) \in FrameType
      <4>1. Top.depth \in 0 .. MaxDepth
        BY <2>1, TopTyped DEF FrameType
      <4>2. Top.depth + 1 \in 0 .. MaxDepth
        BY <3>1, <4>1, DepthBoundIsNat
      <4>3. QED
        BY <2>3, <4>2, FrameTyped
    <3>3. stack' \in Seq(FrameType) /\ stack' # << >>
      BY <2>4, <2>7, <3>2
    <3>4. QED
      BY <2>1, <2>7, <3>3 DEF TypeOK
  <2>8. QED
    BY <2>2, <2>5, <2>6, <2>7
<1>9. CASE NoMoreCandidates
  <2>1. /\ budget' \in 0 .. CheckLimit
        /\ cursor' \in CursorType
        /\ stack # << >>
    BY <1>9 DEF NoMoreCandidates, TypeOK
  <2>2. Exhausted(Top.last) \in ResultType
    <3>1. Top.last \in ResultType
      BY <2>1, TopTyped DEF FrameType, ResultType
    <3>2. {"CandidatesExhausted", "Other"} \subseteq Verdicts
      BY DEF Verdicts, ErrorKind
    <3>3. QED
      BY <3>1, <3>2 DEF Exhausted, ResultType
  <2>3. QED
    BY <1>0, <1>9, <2>1, <2>2, ReturnTyped DEF NoMoreCandidates
<1>10. CASE Returned
  <2>1. /\ budget' \in 0 .. CheckLimit
        /\ cursor' \in CursorType
        /\ stack # << >>
    BY <1>10 DEF Returned, TypeOK
  <2>2. CASE Return(result, Append(chain, Top.cert))
    <3>1. Append(chain, Top.cert) \in Seq(Cert)
      BY <2>1, TopTyped DEF TypeOK
    <3>2. QED
      BY <1>0, <2>1, <2>2, <3>1, ReturnTyped
  <2>3. CASE Return(result, << >>)
    BY <1>0, <2>1, <2>3, ReturnTyped
  <2>4. CASE /\ stack' = [stack EXCEPT ![Len(stack)].last = result]
             /\ pc' = "candidates" /\ UNCHANGED << req, result, chain >>
    <3>1. stack' \in Seq(FrameType) /\ stack' # << >>
      BY <1>0, <2>1, <2>4, LastUpdated DEF TypeOK, SameFrames
    <3>2. QED
      BY <2>1, <2>4, <3>1 DEF TypeOK
  <2>5. QED
    BY <1>10, <2>2, <2>3, <2>4 DEF Returned
<1>11. CASE Finish
  <2>1. Reverse(chain) \in Seq(Cert)
    BY DEF TypeOK, Reverse
  <2>2. QED
    BY <1>11, <2>1 DEF Finish, TypeOK
<1>12. CASE Done \/ UNCHANGED vars
  BY <1>12 DEF Done, vars, TypeOK
<1>13. QED
  BY <1>1, <1>2, <1>3, <1>4, <1>5, <1>6, <1>7, <1>8, <1>9, <1>10, <1>11, <1>12 DEF Next

\* The type invariant of the search: among the rest, the depth handed to an
\* inner call never exceeds u8::MAX and the budget never wraps
THEOREM TypeCorrect == Spec => []TypeOK
BY TypeInit, TypeNext, PTL DEF Spec

-----------------------------------------------------------------------------
(* Name constraints                                                        *)

\* No subtree was looked at yet
LEMMA NoneSeen ==
  ASSUME NEW subtrees, IsTuple(subtrees), NEW name
  PROVE  SubtreesSeen(subtrees, name, 1) /\ SubtreesSkipped(subtrees, name, 1)
BY DEF IsTuple, SubtreesSeen, SubtreesSkipped

\* One more subtree was looked at
LEMMA OneMoreSeen ==
  ASSUME NEW subtrees, IsTuple(subtrees), NEW name, NEW k \in Nat,
         SubtreesSeen(subtrees, name, k),
         EvaluateSingleConstraint(subtrees[k], name) \in {Skipped, NoMatch}
  PROVE  /\ SubtreesSeen(subtrees, name, k + 1)
         /\ SubtreesSkipped(subtrees, name, k) /\ EvaluateSingleConstraint(subtrees[k], name) = Skipped
              => SubtreesSkipped(subtrees, name, k + 1)
<1>1. \A j \in DOMAIN subtrees : j < k + 1 => j < k \/ j = k
  BY DEF IsTuple
<1>2. QED
  BY <1>1 DEF SubtreesSeen, SubtreesSkipped

\* A permitted subtree matched, and none before it failed
LEMMA MatchPasses ==
  ASSUME NEW subtrees, IsTuple(subtrees), NEW name, NEW k \in 1 .. Len(subtrees),
         SubtreesSeen(subtrees, name, k),
         EvaluateSingleConstraint(subtrees[k], name) = Match
  PROVE  PassesPermitted(subtrees, name)
<1>1. \A j \in 1 .. k - 1 : EvaluateSingleConstraint(subtrees[j], name) # Failed
  BY DEF IsTuple, SubtreesSeen, Skipped, NoMatch, Failed
<1>2. k \in DOMAIN subtrees
  BY DEF IsTuple
<1>3. QED
  BY <1>1, <1>2 DEF PassesPermitted

\* The end of a list was reached
LEMMA EndPasses ==
  ASSUME NEW subtrees, IsTuple(subtrees), NEW name, NEW k \in Nat, k > Len(subtrees)
  PROVE  /\ SubtreesSkipped(subtrees, name, k) => PassesPermitted(subtrees, name)
         /\ SubtreesSeen(subtrees, name, k) => PassesExcluded(subtrees, name)
<1>1. \A j \in DOMAIN subtrees : j < k
  BY DEF IsTuple
<1>2. QED
  BY <1>1 DEF SubtreesSkipped, SubtreesSeen, PassesPermitted, PassesExcluded

\* Every name of a certificate was evaluated
LEMMA AllNamesPass ==
  ASSUME NEW c, NEW d, NEW leaf, NEW n \in Nat, IsTuple(SANs(d, leaf)),
         n > Len(SANs(d, leaf)), NamesPass(c, SANs(d, leaf), n)
  PROVE  WithinConstraints(c, d, leaf)
<1>1. \A s \in DOMAIN SANs(d, leaf) : s < n
  BY DEF IsTuple
<1>2. QED
  BY <1>1 DEF NamesPass, WithinConstraints

-----------------------------------------------------------------------------
(* Frames                                                                  *)

\* Whether a certificate is acceptable depends on the path up to it
LEMMA PrefixDecides ==
  ASSUME NEW r, NEW p, NEW q, NEW i \in Nat \ {0}, \A j \in 1 .. i : p[j] = q[j]
  PROVE  /\ PermittedAt(r, p, i) => PermittedAt(r, q, i)
         /\ ConstraintsMet(p, i) => ConstraintsMet(q, i)
<1>1. p[i] = q[i] /\ (i > 1 => p[i - 1] = q[i - 1])
  OBVIOUS
<1>2. PermittedAt(r, p, i) => PermittedAt(r, q, i)
  BY <1>1 DEF PermittedAt
<1>3. ConstraintsMet(p, i) => ConstraintsMet(q, i)
  BY <1>1 DEF ConstraintsMet
<1>4. QED
  BY <1>2, <1>3

LEMMA FrameKept ==
  ASSUME req' = req, NEW i \in Nat \ {0}, Len(stack) \in Nat, Len(stack') \in Nat,
         i <= Len(stack), i <= Len(stack'),
         \A j \in 1 .. i : stack'[j].cert = stack[j].cert /\ stack'[j].depth = stack[j].depth,
         FrameOK(i)
  PROVE  FrameOK(i)' /\ (ConstraintsMet(Certs, i) => ConstraintsMet(Certs, i)')
<1>1. \A j \in 1 .. i : Certs[j] = Certs'[j]
  BY DEF Certs
<1>2. PermittedAt(req, Certs, i) => PermittedAt(req, Certs', i)
  BY <1>1, PrefixDecides
<1>3. ConstraintsMet(Certs, i) => ConstraintsMet(Certs', i)
  BY <1>1, PrefixDecides
<1>4. FrameOK(i)'
  BY <1>2 DEF FrameOK
<1>5. QED
  BY <1>3, <1>4

\* A call returns: the frames below were checked before it was made
LEMMA ReturnInv ==
  ASSUME SearchInv, TypeOK', stack # << >>, NEW v, NEW ch, Return(v, ch),
         v.kind = Ok => ValidPath(req, PathNow')
  PROVE  SearchInv'
<1>1. /\ Len(stack) \in Nat \ {0}
      /\ Len(stack') = Len(stack) - 1
      /\ \A i \in 1 .. Len(stack) - 1 : stack'[i] = stack[i]
      /\ req' = req /\ pc' = "return" /\ result' = v
  BY FrontFacts DEF SearchInv, TypeOK, Return
<1>2. ASSUME NEW i \in 1 .. Len(stack') PROVE FrameOK(i)' /\ FrameChecked(i)'
  <2>1. i \in Nat \ {0} /\ i < Len(stack) /\ i \in 1 .. Len(stack)
    BY <1>1
  <2>2. FrameOK(i) /\ ConstraintsMet(Certs, i) /\ i <= Depth + 1
    BY <2>1 DEF SearchInv, FrameChecked
  <2>3. FrameOK(i)' /\ ConstraintsMet(Certs, i)'
    BY <1>1, <2>1, <2>2, FrameKept
  <2>4. QED
    BY <1>1, <2>2, <2>3 DEF FrameChecked, Depth
<1>3. QED
  BY <1>1, <1>2 DEF SearchInv, Soundness

\* A step that leaves the certificates of the frames alone
LEMMA StayInv ==
  ASSUME SearchInv, TypeOK', req' = req, stack # << >>,
         stack' = stack \/ SameFrames(stack, stack'),
         pc' \in {"evaluate", "anchor", "candidates"},
         pc' = "evaluate" => CursorInv',
         pc' \in {"anchor", "candidates"} => ConstraintsMet(Certs, Len(stack)),
         pc' = "candidates" => Len(stack) <= Depth + 1
  PROVE  SearchInv'
<1>1. /\ Len(stack) \in Nat \ {0}
      /\ Len(stack') = Len(stack)
      /\ \A j \in 1 .. Len(stack) : stack'[j].cert = stack[j].cert /\ stack'[j].depth = stack[j].depth
  BY EmptySeq DEF SearchInv, TypeOK, SameFrames
<1>2. ASSUME NEW i \in 1 .. Len(stack') PROVE FrameOK(i)' /\ FrameChecked(i)'
  <2>1. i \in Nat \ {0} /\ i \in 1 .. Len(stack) /\ (i < Len(stack) \/ i = Len(stack))
    BY <1>1
  <2>2. FrameOK(i) /\ FrameChecked(i)
    BY <2>1 DEF SearchInv
  <2>3. FrameOK(i)' /\ (ConstraintsMet(Certs, i) => ConstraintsMet(Certs, i)')
    BY <1>1, <2>1, <2>2, FrameKept
  <2>4. FrameChecked(i)'
    BY <1>1, <2>1, <2>2, <2>3 DEF FrameChecked, Depth
  <2>5. QED
    BY <2>3, <2>4
<1>3. QED
  BY <1>2 DEF SearchInv, Soundness

-----------------------------------------------------------------------------
(* The actions                                                             *)

\* The lists that evaluate_constraints loops over
LEMMA ListsAreTuples ==
  ASSUME TypeOK, stack # << >>
  PROVE  /\ Constrained(Top.cert) => IsTuple(Permitted(Top.cert)) /\ IsTuple(Excluded(Top.cert))
         /\ \A l \in 1 .. Len(stack) : IsTuple(SANs(stack[l].cert, l = 1))
<1>1. Top.cert \in Cert
  BY TopTyped
<1>2. \A l \in 1 .. Len(stack) : stack[l].cert \in Cert
  <2>1. \A l \in 1 .. Len(stack) : stack[l] \in FrameType
    BY ElementOfSeq DEF TypeOK
  <2>2. QED
    BY <2>1 DEF FrameType
<1>3. \A l \in 1 .. Len(stack) : IsTuple(SANs(stack[l].cert, TRUE)) /\ IsTuple(SANs(stack[l].cert, FALSE))
  BY <1>2, ContentAssumption
<1>4. ASSUME NEW l \in 1 .. Len(stack) PROVE IsTuple(SANs(stack[l].cert, l = 1))
  <2>1. (l = 1) = TRUE \/ (l = 1) = FALSE
    OBVIOUS
  <2>2. QED
    BY <1>3, <2>1
<1>5. QED
  BY <1>1, <1>4, ContentAssumption

\* A cursor at the start of a name
LEMMA FreshName ==
  ASSUME TypeOK, stack # << >>, Constrained(Top.cert), stack' = stack,
         NEW l \in 1 .. Len(stack), NEW n \in Nat \ {0}, cursor' = CursorAt(l, n)
  PROVE  /\ NameInv'
         /\ Names' = SANs(stack[l].cert, l = 1)
<1>1. /\ cursor'.lvl = l /\ cursor'.san = n /\ cursor'.side = "permitted" /\ cursor'.k = 1
  BY DEF CursorAt
<1>2. /\ Names' = SANs(stack[l].cert, l = 1)
      /\ Subtrees' = Permitted(Top.cert)
      /\ Top' = Top
  BY <1>1 DEF Names, Subtrees, Top
<1>3. /\ SubtreesSeen(Permitted(Top.cert), Names'[n], 1)
      /\ SubtreesSkipped(Permitted(Top.cert), Names'[n], 1)
  BY ListsAreTuples, NoneSeen
<1>4. NameInv'
  BY <1>1, <1>2, <1>3 DEF NameInv
<1>5. QED
  BY <1>2, <1>4

LEMMA SearchInit == Init => SearchInv
<1> SUFFICES ASSUME Init PROVE SearchInv
  OBVIOUS
<1>1. stack = << >> /\ Len(stack) = 0 /\ pc = "build_chain"
  BY DEF Init
<1>2. QED
  BY <1>1, TypeInit DEF SearchInv, Soundness

LEMMA BuildChainInv == SearchInv /\ TypeOK' /\ BuildChain => SearchInv'
<1> SUFFICES ASSUME SearchInv, TypeOK', BuildChain PROVE SearchInv'
  OBVIOUS
<1>1. stack = << >> /\ req' = req
  BY DEF SearchInv, BuildChain
<1>2. CASE LeafVerdict # Ok /\ pc' = "done" /\ result' = Result(LeafVerdict) /\ stack' = stack
  <2>1. result'.kind # Ok
    BY <1>2 DEF Result
  <2>2. Len(stack') = 0
    BY <1>1, <1>2
  <2>3. QED
    BY <1>1, <1>2, <2>1, <2>2 DEF SearchInv, Soundness
<1>3. CASE LeafVerdict = Ok /\ pc' = "constraints" /\ stack' = << Frame(req.leaf, 0) >>
  <2>1. /\ Check(~HasDuplicates(Content[req.leaf].exts), "ExtensionError") = Ok
        /\ PermitsEE(req.policy, Content[req.leaf]) = Ok
        /\ Check(~MalformedSAN(req.leaf, TRUE), "Malformed") = Ok
    <3> DEFINE dup == Check(~HasDuplicates(Content[req.leaf].exts), "ExtensionError")
               ee == PermitsEE(req.policy, Content[req.leaf])
               san == Check(~MalformedSAN(req.leaf, TRUE), "Malformed")
    <3>1. (dup && ee && san) = Ok
      BY <1>3 DEF LeafVerdict
    <3> HIDE DEF dup, ee, san
    <3>2. dup = Ok /\ ee = Ok /\ san = Ok
      BY <3>1, ThenOk
    <3>3. QED
      BY <3>2 DEF dup, ee, san
  <2>2. ~HasDuplicates(Content[req.leaf].exts) /\ ~MalformedSAN(req.leaf, TRUE)
    BY <2>1, CheckOk, Kinds
  <2>3. Len(stack') = 1 /\ stack'[1].cert = req.leaf /\ stack'[1].depth = 0
    BY <1>3 DEF Frame
  <2>4. Certs'[1] = req.leaf
    BY <2>3 DEF Certs
  <2>5. PermittedAt(req', Certs', 1)
    <3>1. ~MalformedSAN(Certs'[1], 1 = 1)
      <4>1. (1 = 1) = TRUE
        OBVIOUS
      <4>2. QED
        BY <2>2, <2>4, <4>1, Zenon
    <3>2. QED
      BY <1>1, <2>1, <2>2, <2>4, <3>1 DEF PermittedAt
  <2>6. FrameOK(1)'
    BY <1>1, <2>3, <2>5 DEF FrameOK
  <2>7. \A i \in 1 .. Len(stack') : i = 1
    BY <2>3
  <2>8. FrameChecked(1)'
    BY <1>3, <2>3 DEF FrameChecked
  <2>9. QED
    BY <1>3, <2>6, <2>7, <2>8 DEF SearchInv, Soundness
<1>4. QED
  BY <1>2, <1>3 DEF BuildChain

LEMMA ParseConstraintsInv == SearchInv /\ TypeOK' /\ ParseConstraints => SearchInv'
<1> SUFFICES ASSUME SearchInv, TypeOK', ParseConstraints PROVE SearchInv'
  OBVIOUS
<1>1. stack # << >> /\ TypeOK /\ Len(stack) \in Nat \ {0}
  BY TopTyped DEF SearchInv, ParseConstraints, TypeOK
<1>2. Certs[Len(stack)] = Top.cert
  BY <1>1 DEF Certs, Top
<1>3. CASE ~Constrained(Top.cert) /\ pc' = "anchor" /\ UNCHANGED << req, stack >>
  <2>1. ConstraintsMet(Certs, Len(stack))
    BY <1>2, <1>3 DEF ConstraintsMet, WithinConstraints
  <2>2. QED
    BY <1>1, <1>3, <2>1, StayInv
<1>4. CASE /\ Constrained(Top.cert)
           /\ The(Ext(Top.cert, "name_constraints")).form # "malformed"
           /\ pc' = "evaluate" /\ cursor' = CursorAt(1, 1) /\ UNCHANGED << req, stack >>
  <2>1. 1 \in 1 .. Len(stack)
    BY <1>1
  <2>2. NameInv' /\ Names' = SANs(stack[1].cert, 1 = 1)
    BY <1>1, <1>4, <2>1, FreshName
  <2>3. NamesPass(Top.cert, Names', 1)
    <3>1. IsTuple(Names')
      BY <1>1, <2>1, <2>2, ListsAreTuples
    <3>2. QED
      BY <3>1 DEF NamesPass, IsTuple
  <2>4. CursorInv'
    BY <1>1, <1>4, <2>2, <2>3 DEF CursorInv, Top, CursorAt
  <2>5. QED
    BY <1>1, <1>4, <2>4, StayInv
<1>5. CASE Return(Result("Malformed"), << >>)
  BY <1>1, <1>5, ReturnInv DEF Result, Ok
<1>6. QED
  BY <1>3, <1>4, <1>5 DEF ParseConstraints

LEMMA NextLevelInv == SearchInv /\ TypeOK' /\ NextLevel => SearchInv'
<1> SUFFICES ASSUME SearchInv, TypeOK', NextLevel PROVE SearchInv'
  OBVIOUS
<1>1. /\ stack # << >> /\ TypeOK /\ Len(stack) \in Nat \ {0} /\ CursorInv
      /\ cursor.lvl \in 1 .. Len(stack) /\ cursor.san \in Nat
      /\ pc' = "evaluate" /\ UNCHANGED << req, stack >> /\ cursor' = CursorAt(cursor.lvl + 1, 1)
      /\ cursor.san > Len(Names)
  BY TopTyped DEF SearchInv, NextLevel, TypeOK, CursorType
<1>2. WithinConstraints(Top.cert, stack[cursor.lvl].cert, cursor.lvl = 1)
  BY <1>1, ListsAreTuples, AllNamesPass DEF Names, CursorInv
<1>3. \A j \in 1 .. Len(stack) :
        j < cursor.lvl + 1 => WithinConstraints(Top.cert, stack[j].cert, j = 1)
  <2>1. \A j \in 1 .. Len(stack) : j < cursor.lvl + 1 => j < cursor.lvl \/ j = cursor.lvl
    BY <1>1
  <2>2. QED
    BY <1>1, <1>2, <2>1 DEF CursorInv
<1>4. cursor.lvl + 1 <= Len(stack) => NameInv' /\ NamesPass(Top.cert, Names', 1)
  <2> SUFFICES ASSUME cursor.lvl + 1 <= Len(stack) PROVE NameInv' /\ NamesPass(Top.cert, Names', 1)
    OBVIOUS
  <2>1. cursor.lvl + 1 \in 1 .. Len(stack)
    BY <1>1
  <2>2. NameInv' /\ Names' = SANs(stack[cursor.lvl + 1].cert, cursor.lvl + 1 = 1)
    BY <1>1, <2>1, FreshName DEF CursorInv
  <2>3. IsTuple(Names')
    BY <1>1, <2>1, <2>2, ListsAreTuples
  <2>4. QED
    BY <2>2, <2>3 DEF NamesPass, IsTuple
<1>5. cursor'.lvl = cursor.lvl + 1 /\ cursor'.san = 1 /\ Top' = Top
  BY <1>1 DEF CursorAt, Top
<1>6. CursorInv'
  BY <1>1, <1>3, <1>4, <1>5 DEF CursorInv
<1>7. QED
  BY <1>1, <1>6, StayInv

LEMMA ConstraintsHoldInv == SearchInv /\ TypeOK' /\ ConstraintsHold => SearchInv'
<1> SUFFICES ASSUME SearchInv, TypeOK', ConstraintsHold PROVE SearchInv'
  OBVIOUS
<1>1. /\ stack # << >> /\ TypeOK /\ Len(stack) \in Nat \ {0} /\ CursorInv
      /\ cursor.lvl > Len(stack) /\ cursor.lvl \in Nat
      /\ pc' = "anchor" /\ UNCHANGED << req, stack >>
  BY TopTyped DEF SearchInv, ConstraintsHold, TypeOK, CursorType
<1>2. \A j \in 1 .. Len(stack) : WithinConstraints(Top.cert, stack[j].cert, j = 1)
  <2>1. \A j \in 1 .. Len(stack) : j < cursor.lvl
    BY <1>1
  <2>2. QED
    BY <1>1, <2>1 DEF CursorInv
<1>3. \A j \in 1 .. Len(stack) : Certs[j] = stack[j].cert
  BY DEF Certs
<1>4. Certs[Len(stack)] = Top.cert
  BY <1>1, <1>3 DEF Top
<1>5. ConstraintsMet(Certs, Len(stack))
  BY <1>1, <1>2, <1>3, <1>4 DEF ConstraintsMet, CursorInv
<1>6. QED
  BY <1>1, <1>5, StayInv

\* A cursor at the start of the excluded subtrees for the same name
LEMMA PermittedPassed ==
  ASSUME SearchInv, TypeOK', pc = "evaluate", pc' = "evaluate", UNCHANGED << req, stack >>,
         cursor.lvl <= Len(stack), cursor.san <= Len(Names),
         cursor' = ExcludedAt(cursor.lvl, cursor.san),
         PassesPermitted(Permitted(Top.cert), Names[cursor.san])
  PROVE  SearchInv'
<1>1. stack # << >> /\ TypeOK /\ CursorInv
  BY DEF SearchInv, TypeOK
<1>2. /\ cursor'.lvl = cursor.lvl /\ cursor'.san = cursor.san
      /\ cursor'.side = "excluded" /\ cursor'.k = 1
  BY DEF ExcludedAt, CursorAt
<1>3. Names' = Names /\ Subtrees' = Excluded(Top.cert) /\ Top' = Top
  BY <1>2 DEF Names, Subtrees, Top
<1>4. SubtreesSeen(Excluded(Top.cert), Names[cursor.san], 1)
  BY <1>1, ListsAreTuples, NoneSeen DEF CursorInv
<1>5. NameInv'
  BY <1>2, <1>3, <1>4 DEF NameInv
<1>6. CursorInv'
  BY <1>1, <1>2, <1>3, <1>5 DEF CursorInv
<1>7. QED
  BY <1>1, <1>6, StayInv

\* The list of subtrees the cursor is in
LEMMA SubtreesTuple ==
  ASSUME TypeOK, stack # << >>, Constrained(Top.cert)
  PROVE  IsTuple(Subtrees)
BY ListsAreTuples DEF Subtrees

LEMMA EvaluateOneInv == SearchInv /\ TypeOK' /\ EvaluateOne => SearchInv'
<1> SUFFICES ASSUME SearchInv, TypeOK', EvaluateOne PROVE SearchInv'
  OBVIOUS
<1> DEFINE name == Names[cursor.san]
           status == EvaluateSingleConstraint(Subtrees[cursor.k], name)
<1>1. /\ stack # << >> /\ TypeOK /\ CursorInv /\ pc = "evaluate"
      /\ cursor.lvl <= Len(stack) /\ cursor.san <= Len(Names)
      /\ cursor.k \in Nat \ {0} /\ cursor.k <= Len(Subtrees)
      /\ cursor \in CursorType
  BY DEF SearchInv, EvaluateOne, TypeOK, CursorType
<1>2. IsTuple(Subtrees)
  BY <1>1, SubtreesTuple DEF CursorInv
<1>3. cursor.k \in 1 .. Len(Subtrees)
  BY <1>1, <1>2 DEF IsTuple
<1>4. CASE Return(Result("FatalError"), << >>)
  BY <1>1, <1>4, ReturnInv DEF Result, Ok
<1>5. CASE Return(Result("Other"), << >>)
  BY <1>1, <1>5, ReturnInv DEF Result, Ok
<1>6. CASE /\ status = Match /\ cursor.side = "permitted"
           /\ cursor' = ExcludedAt(cursor.lvl, cursor.san) /\ UNCHANGED << req, pc, stack >>
  <2>1. SubtreesSeen(Subtrees, name, cursor.k) /\ Subtrees = Permitted(Top.cert)
    BY <1>1, <1>6 DEF CursorInv, NameInv, Subtrees
  <2>2. PassesPermitted(Permitted(Top.cert), name)
    BY <1>2, <1>3, <1>6, <2>1, MatchPasses
  <2>3. QED
    BY <1>1, <1>6, <2>2, PermittedPassed
<1>7. CASE /\ status \in {NoMatch, Skipped}
           /\ cursor' = [cursor EXCEPT !.k = @ + 1,
                           !.permit = @ /\ (status = Skipped \/ cursor.side = "excluded")]
           /\ UNCHANGED << req, pc, stack >>
  <2> HIDE DEF status
  <2>1. /\ cursor'.lvl = cursor.lvl /\ cursor'.san = cursor.san /\ cursor'.side = cursor.side
        /\ cursor'.k = cursor.k + 1
        /\ cursor'.permit = (cursor.permit /\ (status = Skipped \/ cursor.side = "excluded"))
    BY <1>1, <1>7 DEF CursorType
  <2>2. Names' = Names /\ Subtrees' = Subtrees /\ Top' = Top
    BY <1>7, <2>1 DEF Names, Subtrees, Top
  <2>3. /\ SubtreesSeen(Subtrees, name, cursor.k + 1)
        /\ SubtreesSkipped(Subtrees, name, cursor.k) /\ status = Skipped
             => SubtreesSkipped(Subtrees, name, cursor.k + 1)
    <3>1. SubtreesSeen(Subtrees, name, cursor.k) /\ cursor.k \in Nat
      BY <1>1 DEF CursorInv, NameInv
    <3>2. EvaluateSingleConstraint(Subtrees[cursor.k], name) \in {Skipped, NoMatch}
      BY <1>7 DEF status
    <3>3. QED
      BY <1>2, <3>1, <3>2, OneMoreSeen DEF status
  <2>4. cursor'.side = "permitted" /\ cursor'.permit =>
          SubtreesSkipped(Subtrees, name, cursor.k + 1)
    BY <1>1, <2>1, <2>3 DEF CursorInv, NameInv
  <2>5. NameInv'
    BY <1>1, <2>1, <2>2, <2>3, <2>4 DEF NameInv, CursorInv
  <2>6. CursorInv'
    BY <1>1, <1>7, <2>1, <2>2, <2>5 DEF CursorInv
  <2>7. QED
    BY <1>1, <1>7, <2>6, StayInv
<1>8. QED
  BY <1>4, <1>5, <1>6, <1>7 DEF EvaluateOne

LEMMA EndOfSubtreesInv == SearchInv /\ TypeOK' /\ EndOfSubtrees => SearchInv'
<1> SUFFICES ASSUME SearchInv, TypeOK', EndOfSubtrees PROVE SearchInv'
  OBVIOUS
<1> DEFINE name == Names[cursor.san]
<1>1. /\ stack # << >> /\ TypeOK /\ CursorInv /\ pc = "evaluate"
      /\ cursor.lvl \in 1 .. Len(stack) /\ cursor.san \in Nat \ {0} /\ cursor.san <= Len(Names)
      /\ cursor.k \in Nat /\ cursor.k > Len(Subtrees)
  <2>1. stack # << >> /\ TypeOK /\ CursorInv /\ pc = "evaluate" /\ cursor \in CursorType
    BY DEF SearchInv, EndOfSubtrees, TypeOK
  <2>2. QED
    BY <2>1, TopTyped DEF EndOfSubtrees, CursorType
<1>2. IsTuple(Subtrees)
  BY <1>1, SubtreesTuple DEF CursorInv
<1>3. /\ SubtreesSkipped(Subtrees, name, cursor.k) => PassesPermitted(Subtrees, name)
      /\ SubtreesSeen(Subtrees, name, cursor.k) => PassesExcluded(Subtrees, name)
  BY <1>1, <1>2, EndPasses
<1>4. CASE Return(Result("Other"), << >>)
  BY <1>1, <1>4, ReturnInv DEF Result, Ok
<1>5. CASE /\ cursor.side = "permitted" /\ cursor.permit
           /\ cursor' = ExcludedAt(cursor.lvl, cursor.san) /\ UNCHANGED << req, pc, stack >>
  <2>1. PassesPermitted(Permitted(Top.cert), name)
    BY <1>1, <1>3, <1>5 DEF CursorInv, NameInv, Subtrees
  <2>2. QED
    BY <1>1, <1>5, <2>1, PermittedPassed
<1>6. CASE /\ cursor.side = "excluded"
           /\ cursor' = CursorAt(cursor.lvl, cursor.san + 1) /\ UNCHANGED << req, pc, stack >>
  <2>1. PassesPermitted(Permitted(Top.cert), name) /\ PassesExcluded(Excluded(Top.cert), name)
    BY <1>1, <1>3, <1>6 DEF CursorInv, NameInv, Subtrees
  <2>2. NamesPass(Top.cert, Names, cursor.san + 1)
    <3>1. IsTuple(Names)
      BY <1>1, ListsAreTuples DEF Names
    <3>2. \A s \in DOMAIN Names : s < cursor.san + 1 => s < cursor.san \/ s = cursor.san
      BY <1>1, <3>1 DEF IsTuple
    <3>3. NamesPass(Top.cert, Names, cursor.san)
      BY <1>1 DEF CursorInv
    <3>4. QED
      BY <2>1, <3>2, <3>3 DEF NamesPass
  <2>3. NameInv' /\ Names' = Names
    <3>1. cursor.san + 1 \in Nat \ {0}
      BY <1>1
    <3>2. QED
      BY <1>1, <1>6, <3>1, FreshName DEF CursorInv, Names
  <2>4. cursor'.lvl = cursor.lvl /\ cursor'.san = cursor.san + 1 /\ Top' = Top
    BY <1>6 DEF CursorAt, Top
  <2>5. CursorInv'
    BY <1>1, <1>6, <2>2, <2>3, <2>4 DEF CursorInv
  <2>6. QED
    BY <1>1, <1>6, <2>5, StayInv
<1>7. QED
  BY <1>4, <1>5, <1>6 DEF EndOfSubtrees

\* What is known of a call that is past its constraints
LEMMA PastConstraints ==
  ASSUME SearchInv, stack # << >>, pc \in {"anchor", "candidates", "return"}
  PROVE  /\ Len(stack) \in Nat \ {0}
         /\ \A i \in 1 .. Len(stack) : FrameOK(i) /\ ConstraintsMet(Certs, i)
         /\ \A i \in 1 .. Len(stack) : pc # "anchor" \/ i < Len(stack) => i <= Depth + 1
BY TopTyped DEF SearchInv, FrameChecked

\* The frames of a call that found a trust anchor are a valid path
LEMMA AnchoredPath ==
  ASSUME SearchInv, stack # << >>, pc = "anchor", InStore(req, Top.cert), req' = req,
         stack' = Front(stack), chain' = << Top.cert >>
  PROVE  ValidPath(req, PathNow')
<1> DEFINE n == Len(stack)
           p == PathNow'
<1>1. /\ n \in Nat \ {0} /\ Len(stack') = n - 1 /\ Len(chain') = 1 /\ chain'[1] = stack[n].cert
      /\ \A i \in 1 .. n - 1 : stack'[i] = stack[i]
  BY FrontFacts DEF SearchInv, TypeOK, Top
<1>2. Len(p) = n /\ \A i \in 1 .. n : p[i] = stack[i].cert
  <2>1. p = [i \in 1 .. n |->
               IF i <= n - 1 THEN stack'[i].cert ELSE chain'[n - i + 1]]
    BY <1>1 DEF PathNow
  <2>2. ASSUME NEW i \in 1 .. n PROVE p[i] = stack[i].cert
    <3>1. CASE i <= n - 1
      BY <1>1, <2>1, <3>1
    <3>2. CASE i = n
      BY <1>1, <2>1, <3>2
    <3>3. QED
      BY <1>1, <3>1, <3>2
  <2>3. Len(p) = n
    BY <1>1, <2>1, LenProperties
  <2>4. QED
    BY <2>2, <2>3
<1> HIDE DEF p
<1>3. /\ \A i \in 1 .. n : FrameOK(i) /\ ConstraintsMet(Certs, i)
      /\ \A i \in 1 .. n : i < n => i <= Depth + 1
  BY PastConstraints
<1>4. \A i \in 1 .. n : p[i] = Certs[i]
  BY <1>2 DEF Certs
<1>5. \A i \in 1 .. n : PermittedAt(req, p, i) /\ ConstraintsMet(p, i)
  <2> SUFFICES ASSUME NEW i \in 1 .. n PROVE PermittedAt(req, p, i) /\ ConstraintsMet(p, i)
    OBVIOUS
  <2>1. PermittedAt(req, Certs, i) /\ ConstraintsMet(Certs, i)
    BY <1>3 DEF FrameOK
  <2>2. i \in Nat \ {0} /\ \A j \in 1 .. i : Certs[j] = p[j]
    BY <1>1, <1>4
  <2>3. QED
    BY <2>1, <2>2, PrefixDecides
<1>6. n \in 1 .. Depth + 2
  <2>1. Depth \in Nat
    BY RequestAssumption DEF Depth, SearchInv, TypeOK
  <2>2. CASE n = 1
    BY <2>1, <2>2
  <2>3. CASE n > 1
    <3>1. n - 1 \in 1 .. n /\ n - 1 < n
      BY <1>1, <2>3
    <3>2. n - 1 <= Depth + 1
      BY <1>3, <3>1
    <3>3. QED
      BY <1>1, <2>1, <3>2
  <2>4. QED
    BY <1>1, <2>2, <2>3
<1>7. p[1] = req.leaf /\ \A i \in 2 .. n : Subject(p[i]) = Issuer(p[i - 1])
  <2>1. p[1] = req.leaf
    BY <1>1, <1>2, <1>3 DEF FrameOK
  <2>2. ASSUME NEW i \in 2 .. n PROVE Subject(p[i]) = Issuer(p[i - 1])
    <3>1. i \in 1 .. n /\ i - 1 \in 1 .. n /\ i > 1
      BY <1>1
    <3>2. Subject(stack[i].cert) = Issuer(stack[i - 1].cert)
      BY <1>3, <3>1 DEF FrameOK
    <3>3. QED
      BY <1>2, <3>1, <3>2
  <2>3. QED
    BY <2>1, <2>2
<1>8. InStore(req, p[n])
  BY <1>1, <1>2 DEF Top
<1>9. ValidPath(req, p)
  BY <1>2, <1>5, <1>6, <1>7, <1>8 DEF ValidPath, Depth
<1>10. QED
  BY <1>9 DEF p

LEMMA CheckAnchorInv == SearchInv /\ TypeOK' /\ CheckAnchor => SearchInv'
<1> SUFFICES ASSUME SearchInv, TypeOK', CheckAnchor PROVE SearchInv'
  OBVIOUS
<1>1. stack # << >> /\ TypeOK /\ pc = "anchor"
  BY DEF SearchInv, CheckAnchor, TypeOK
<1>2. CASE InStore(req, Top.cert) /\ Return(Result(Ok), << Top.cert >>)
  <2>1. ValidPath(req, PathNow')
    BY <1>1, <1>2, AnchoredPath DEF Return
  <2>2. QED
    BY <1>1, <1>2, <2>1, ReturnInv
<1>3. CASE Return(Result("Other"), << >>)
  BY <1>1, <1>3, ReturnInv DEF Result, Ok
<1>4. CASE ~TooDeep /\ pc' = "candidates" /\ UNCHANGED << req, stack >>
  <2>1. /\ Len(stack) \in Nat \ {0} /\ ConstraintsMet(Certs, Len(stack))
        /\ Top.depth = Len(stack) - 1
    BY <1>1, PastConstraints DEF FrameOK, Top
  <2>2. Depth \in Nat
    BY <1>1, RequestAssumption DEF Depth, TypeOK
  <2>3. Len(stack) <= Depth + 1
    BY <1>4, <2>1, <2>2 DEF TooDeep, Depth
  <2>4. QED
    BY <1>1, <1>4, <2>1, <2>3, StayInv
<1>5. QED
  BY <1>2, <1>3, <1>4 DEF CheckAnchor

\* A candidate that leaves the loop to become the working certificate
LEMMA CandidateAccepted ==
  ASSUME TypeOK, NEW c, Abort(c) = Ok, Top.depth \in Nat,
         ValidIssuer(req.policy, Content[c], Content[Top.cert], Top.depth) = Ok
  PROVE  ~HasDuplicates(Content[c].exts) /\ ~MalformedSAN(c, FALSE) /\ Top.depth < MaxDepth
<1> DEFINE dup == Check(~HasDuplicates(Content[c].exts), "ExtensionError")
           deep == Check(Top.depth < MaxDepth, "Other")
           san == Check(~MalformedSAN(c, FALSE), "Malformed")
<1>1. (dup && (deep && san)) = Ok
  BY DEF Abort
<1> HIDE DEF dup, deep, san
<1>2. dup = Ok /\ deep = Ok /\ san = Ok
  BY <1>1, ThenOk
<1>3. ~HasDuplicates(Content[c].exts) /\ ~MalformedSAN(c, FALSE)
  BY <1>2, CheckOk, Kinds DEF dup, san
<1>4. Top.depth < MaxDepth
  BY <1>2 DEF deep, Check, Ok
<1>5. QED
  BY <1>3, <1>4

\* A candidate becomes the working certificate of an inner call
LEMMA PushInv ==
  ASSUME SearchInv, TypeOK', pc = "candidates", pc' = "constraints", req' = req,
         NEW i \in DOMAIN Pool(req), IsNext(i), Abort(Pool(req)[i]) = Ok,
         ValidIssuer(req.policy, Content[Pool(req)[i]], Content[Top.cert], Top.depth) = Ok,
         stack' = Append([stack EXCEPT ![Len(stack)].next = i + 1], Frame(Pool(req)[i], Top.depth + 1))
  PROVE  SearchInv'
<1> DEFINE n == Len(stack)
           c == Pool(req)[i]
           advanced == [stack EXCEPT ![Len(stack)].next = i + 1]
<1>1. stack # << >> /\ TypeOK /\ n \in Nat \ {0}
  BY TopTyped DEF SearchInv, TypeOK
<1>2. /\ \A j \in 1 .. n : FrameOK(j) /\ ConstraintsMet(Certs, j) /\ j <= Depth + 1
      /\ Top.depth = n - 1
  BY <1>1, PastConstraints DEF FrameOK, Top
<1>3. SameFrames(stack, advanced)
  <2>1. i + 1 \in Nat \ {0}
    BY <1>1, PoolTyped DEF TypeOK
  <2>2. QED
    BY <1>1, <2>1, NextUpdated DEF TypeOK
<1>a. Top.depth \in Nat
  BY <1>1, <1>2
<1>b. ~HasDuplicates(Content[c].exts) /\ ~MalformedSAN(c, FALSE) /\ Top.depth < MaxDepth
  BY <1>1, <1>a, CandidateAccepted
<1>4. /\ Len(stack') = n + 1
      /\ \A j \in 1 .. n : stack'[j].cert = stack[j].cert /\ stack'[j].depth = stack[j].depth
      /\ stack'[n + 1].cert = c /\ stack'[n + 1].depth = n
  <2>f. Frame(c, Top.depth + 1) \in FrameType
    <3>1. c \in Cert
      BY <1>1, PoolTyped DEF TypeOK
    <3>2. Top.depth + 1 \in 0 .. MaxDepth
      BY <1>a, <1>b, DepthBoundIsNat
    <3>3. QED
      BY <3>1, <3>2, FrameTyped
  <2> HIDE DEF advanced, n, c
  <2>1. advanced \in Seq(FrameType) /\ Len(advanced) = n
    BY <1>3 DEF SameFrames, n
  <2>2. stack' = Append(advanced, Frame(c, Top.depth + 1))
    BY DEF advanced, c
  <2>3. /\ Len(stack') = n + 1
        /\ \A j \in 1 .. n : stack'[j] = advanced[j]
        /\ stack'[n + 1] = Frame(c, Top.depth + 1)
    BY <1>1, <2>f, <2>1, <2>2, AppendProperties
  <2>4. Frame(c, Top.depth + 1).cert = c /\ Frame(c, Top.depth + 1).depth = n
    BY <1>1, <1>2 DEF Frame
  <2>5. QED
    BY <1>3, <2>3, <2>4 DEF SameFrames, n
<1>5. ASSUME NEW j \in 1 .. n PROVE FrameOK(j)' /\ ConstraintsMet(Certs, j)' /\ j <= Depth' + 1
  <2>1. j \in Nat \ {0} /\ j <= Len(stack) /\ j <= Len(stack')
    BY <1>1, <1>4
  <2>2. \A l \in 1 .. j : stack'[l].cert = stack[l].cert /\ stack'[l].depth = stack[l].depth
    BY <1>1, <1>4
  <2>3. FrameOK(j)' /\ ConstraintsMet(Certs, j)'
    BY <1>1, <1>2, <1>4, <2>1, <2>2, FrameKept
  <2>4. QED
    BY <1>2, <2>3 DEF Depth
<1>6. ASSUME NEW j, j = n + 1 PROVE FrameOK(j)'
  <2>1. Certs'[n + 1] = c /\ Certs'[n] = Top.cert
    BY <1>1, <1>4 DEF Certs, Top
  <2>2. Subject(c) = Issuer(Top.cert)
    BY DEF IsNext, PotentialIssuers
  <2>4. PermittedAt(req, Certs', n + 1)
    <3>1. ~MalformedSAN(Certs'[n + 1], n + 1 = 1)
      <4>1. (n + 1 = 1) = FALSE
        BY <1>1
      <4>2. QED
        BY <1>b, <2>1, <4>1, Zenon
    <3>2. ValidIssuer(req.policy, Content[Certs'[n + 1]], Content[Certs'[n + 1 - 1]], n + 1 - 2) = Ok
      <4>1. n + 1 - 1 = n /\ n + 1 - 2 = Top.depth
        BY <1>1, <1>2
      <4>2. QED
        BY <2>1, <4>1
    <3>3. \E k \in DOMAIN Pool(req) : Pool(req)[k] = Certs'[n + 1]
      BY <2>1
    <3>4. n + 1 # 1
      BY <1>1
    <3>5. QED
      BY <1>b, <2>1, <3>1, <3>2, <3>3, <3>4 DEF PermittedAt
  <2>5. stack'[j].cert = c /\ stack'[j - 1].cert = Top.cert
    BY <1>1, <1>4, <1>6 DEF Top
  <2>6. stack'[j].depth = j - 1 /\ j # 1
    BY <1>1, <1>4, <1>6
  <2>7. PermittedAt(req', Certs', j)
    BY <1>6, <2>4
  <2>8. QED
    BY <2>2, <2>5, <2>6, <2>7 DEF FrameOK
<1>7. ASSUME NEW j \in 1 .. Len(stack') PROVE FrameOK(j)' /\ FrameChecked(j)'
  <2>1. CASE j \in 1 .. n
    BY <1>5, <2>1 DEF FrameChecked
  <2>2. CASE j = n + 1
    <3>1. ~(j < Len(stack')) /\ pc' = "constraints"
      BY <1>1, <1>4, <2>2
    <3>2. FrameChecked(j)'
      BY <3>1 DEF FrameChecked
    <3>3. QED
      BY <1>6, <2>2, <3>2
  <2>3. QED
    BY <1>1, <1>4, <2>1, <2>2
<1>8. QED
  BY <1>7 DEF SearchInv, Soundness

LEMMA TryCandidateInv == SearchInv /\ TypeOK' /\ TryCandidate => SearchInv'
<1> SUFFICES ASSUME SearchInv, TypeOK', TryCandidate PROVE SearchInv'
  OBVIOUS
<1>1. stack # << >> /\ TypeOK /\ pc = "candidates"
  BY DEF SearchInv, TryCandidate, TypeOK
<1> DEFINE c(i) == Pool(req)[i]
           verdict(i) == ValidIssuer(req.policy, Content[c(i)], Content[Top.cert], Top.depth)
           advanced(i) == [stack EXCEPT ![Len(stack)].next = i + 1]
<1>2. PICK i \in DOMAIN Pool(req) :
        /\ IsNext(i)
        /\ \/ Abort(c(i)) # Ok /\ Return(Result(Abort(c(i))), << >>)
           \/ /\ Abort(c(i)) = Ok /\ verdict(i) # Ok
              /\ stack' = [advanced(i) EXCEPT ![Len(stack)].last = Result(verdict(i))]
              /\ UNCHANGED << req, pc >>
           \/ /\ Abort(c(i)) = Ok /\ verdict(i) = Ok
              /\ stack' = Append(advanced(i), Frame(c(i), Top.depth + 1))
              /\ pc' = "constraints" /\ req' = req
  BY DEF TryCandidate
<1>3. CASE Abort(c(i)) # Ok /\ Return(Result(Abort(c(i))), << >>)
  BY <1>1, <1>3, ReturnInv DEF Result
<1>4. CASE /\ stack' = [advanced(i) EXCEPT ![Len(stack)].last = Result(verdict(i))]
           /\ UNCHANGED << req, pc >>
  <2>1. i + 1 \in Nat \ {0} /\ c(i) \in Cert
    BY <1>1, PoolTyped DEF TypeOK
  <2>2. SameFrames(stack, advanced(i))
    BY <1>1, <2>1, NextUpdated DEF TypeOK
  <2>3. Result(verdict(i)) \in ResultType
    BY <1>1, <2>1, VerdictsTyped, ResultTyped
  <2> HIDE DEF advanced, verdict
  <2>4. SameFrames(advanced(i), stack')
    BY <1>4, <2>2, <2>3, LastUpdated DEF SameFrames
  <2>5. SameFrames(stack, stack')
    BY <2>2, <2>4 DEF SameFrames
  <2>6. ConstraintsMet(Certs, Len(stack)) /\ Len(stack) <= Depth + 1
    BY <1>1, PastConstraints
  <2>7. QED
    BY <1>1, <1>4, <2>5, <2>6, StayInv
<1>5. CASE /\ Abort(c(i)) = Ok /\ verdict(i) = Ok
           /\ stack' = Append(advanced(i), Frame(c(i), Top.depth + 1))
           /\ pc' = "constraints" /\ req' = req
  BY <1>1, <1>2, <1>5, PushInv
<1>6. QED
  BY <1>2, <1>3, <1>4, <1>5

LEMMA NoMoreCandidatesInv == SearchInv /\ TypeOK' /\ NoMoreCandidates => SearchInv'
<1> SUFFICES ASSUME SearchInv, TypeOK', NoMoreCandidates PROVE SearchInv'
  OBVIOUS
<1>1. stack # << >> /\ Return(Exhausted(Top.last), << >>)
  BY DEF SearchInv, NoMoreCandidates, TypeOK
<1>2. Exhausted(Top.last).kind # Ok
  BY DEF Exhausted, Ok
<1>3. QED
  BY <1>1, <1>2, ReturnInv

LEMMA ReturnedInv == SearchInv /\ TypeOK' /\ Returned => SearchInv'
<1> SUFFICES ASSUME SearchInv, TypeOK', Returned PROVE SearchInv'
  OBVIOUS
<1>1. stack # << >> /\ TypeOK /\ pc = "return"
  BY DEF SearchInv, Returned
<1>2. CASE result.kind = Ok /\ Return(result, Append(chain, Top.cert))
  <2> DEFINE n == Len(stack)
             m == Len(chain)
  <2>1. /\ n \in Nat \ {0} /\ Len(stack') = n - 1 /\ m \in Nat
        /\ \A i \in 1 .. n - 1 : stack'[i] = stack[i]
        /\ req' = req
    BY <1>1, <1>2, FrontFacts, LenProperties DEF TypeOK, Return
  <2>2. /\ Len(chain') = m + 1 /\ chain'[m + 1] = stack[n].cert
        /\ \A i \in 1 .. m : chain'[i] = chain[i]
    <3>1. Top.cert \in Cert
      BY <1>1, TopTyped
    <3>2. QED
      BY <1>1, <1>2, <2>1, <3>1, AppendProperties DEF TypeOK, Return, Top
  <2>3. PathNow' = PathNow
    <3> HIDE DEF n, m
    <3>1. PathNow' = [i \in 1 .. n + m |->
                        IF i <= n - 1 THEN stack'[i].cert ELSE chain'[n + m - i + 1]]
      <4>1. Len(stack') + Len(chain') = n + m
        BY <2>1, <2>2
      <4>2. QED
        BY <2>1, <4>1 DEF PathNow
    <3>2. PathNow = [i \in 1 .. n + m |->
                       IF i <= n THEN stack[i].cert ELSE chain[n + m - i + 1]]
      BY DEF PathNow, n, m
    <3>3. ASSUME NEW i \in 1 .. n + m PROVE PathNow'[i] = PathNow[i]
      <4>1. CASE i <= n - 1
        BY <2>1, <3>1, <3>2, <4>1
      <4>2. CASE i = n
        BY <2>1, <2>2, <3>1, <3>2, <4>2
      <4>3. CASE i > n
        <5>1. n + m - i + 1 \in 1 .. m
          BY <2>1, <4>3
        <5>2. QED
          BY <2>1, <2>2, <3>1, <3>2, <4>3, <5>1
      <4>4. QED
        BY <2>1, <4>1, <4>2, <4>3
    <3>4. QED
      BY <3>1, <3>2, <3>3
  <2>4. ValidPath(req, PathNow')
    BY <1>1, <1>2, <2>3 DEF SearchInv
  <2>5. QED
    BY <1>1, <1>2, <2>4, ReturnInv
<1>3. CASE result.kind # Ok /\ Return(result, << >>)
  BY <1>1, <1>3, ReturnInv
<1>4. CASE stack' = [stack EXCEPT ![Len(stack)].last = result] /\ pc' = "candidates" /\ req' = req
  <2>1. SameFrames(stack, stack')
    BY <1>1, <1>4, LastUpdated DEF TypeOK, ResultType
  <2>2. ConstraintsMet(Certs, Len(stack)) /\ Len(stack) <= Depth + 1
    BY <1>1, PastConstraints
  <2>3. QED
    BY <1>1, <1>4, <2>1, <2>2, StayInv
<1>5. QED
  BY <1>2, <1>3, <1>4 DEF Returned

LEMMA FinishInv == SearchInv /\ TypeOK' /\ Finish => SearchInv'
<1> SUFFICES ASSUME SearchInv, TypeOK', Finish PROVE SearchInv'
  OBVIOUS
<1>1. /\ pc = "return" /\ pc' = "done" /\ stack = << >> /\ stack' = << >> /\ req' = req
      /\ result' = result /\ chain' = Reverse(chain) /\ Len(chain) \in Nat
  BY LenProperties DEF Finish, SearchInv, TypeOK
<1>2. chain' = PathNow
  <2>1. Len(stack) = 0
    BY <1>1
  <2>2. Reverse(chain) = [i \in 1 .. Len(chain) |-> chain[Len(chain) - i + 1]]
    BY DEF Reverse
  <2>3. PathNow = [i \in 1 .. Len(chain) |-> chain[Len(chain) - i + 1]]
    BY <1>1, <2>1 DEF PathNow
  <2>4. QED
    BY <1>1, <2>2, <2>3
<1>3. Soundness'
  BY <1>1, <1>2 DEF SearchInv, Soundness
<1>4. Len(stack') = 0
  BY <1>1
<1>5. QED
  BY <1>1, <1>3, <1>4 DEF SearchInv

LEMMA SearchNext == SearchInv /\ [Next]_vars => SearchInv'
<1> SUFFICES ASSUME SearchInv, [Next]_vars PROVE SearchInv'
  OBVIOUS
<1>1. TypeOK'
  BY TypeNext DEF SearchInv
<1>2. CASE Done \/ UNCHANGED vars
  <2>1. UNCHANGED << req, pc, stack, cursor, budget, result, chain >>
    BY <1>2 DEF Done, vars
  <2>2. /\ Certs' = Certs /\ PathNow' = PathNow /\ CursorInv' = CursorInv /\ Soundness' = Soundness
        /\ \A i : FrameOK(i)' = FrameOK(i) /\ FrameChecked(i)' = FrameChecked(i)
    BY <2>1 DEF Certs, PathNow, CursorInv, NameInv, Names, Subtrees, Top, Soundness,
                FrameOK, FrameChecked, Depth
  <2>3. QED
    BY <1>1, <2>1, <2>2 DEF SearchInv
<1>3. QED
  BY <1>1, <1>2, BuildChainInv, ParseConstraintsInv, NextLevelInv, ConstraintsHoldInv,
     EvaluateOneInv, EndOfSubtreesInv, CheckAnchorInv, TryCandidateInv, NoMoreCandidatesInv,
     ReturnedInv, FinishInv DEF Next

-----------------------------------------------------------------------------
(* What follows from the invariant                                         *)

\* The search is sound: a chain that verify returns is a valid path for the
\* request, whatever certificates the pool contains and whatever was tried and
\* abandoned on the way
THEOREM SearchSound == Spec => []Soundness
<1>1. SearchInv => Soundness
  BY DEF SearchInv
<1>2. QED
  BY <1>1, SearchInit, SearchNext, PTL DEF Spec

\* The recursion of build_chain_inner is never deeper than the policy allows,
\* whatever cycles there are between the certificates of the pool
THEOREM SearchDepth == Spec => []DepthBounded
<1>1. SearchInv => DepthBounded
  <2> SUFFICES ASSUME SearchInv PROVE DepthBounded
    OBVIOUS
  <2>1. Len(stack) \in Nat /\ Depth \in Nat
    BY LenProperties, RequestAssumption DEF SearchInv, TypeOK, Depth
  <2>2. CASE Len(stack) <= 1
    BY <2>1, <2>2 DEF DepthBounded, Depth
  <2>3. CASE Len(stack) > 1
    <3>1. Len(stack) - 1 \in 1 .. Len(stack) /\ Len(stack) - 1 < Len(stack)
      BY <2>1, <2>3
    <3>2. Len(stack) - 1 <= Depth + 1
      BY <3>1 DEF SearchInv, FrameChecked
    <3>3. QED
      BY <2>1, <3>2 DEF DepthBounded, Depth
  <2>4. QED
    BY <2>1, <2>2, <2>3
<1>2. QED
  BY <1>1, SearchInit, SearchNext, PTL DEF Spec

\* No certificate above the leaf in a chain under construction has an empty
\* subject, although permits_ca does not look at the subject: the certificate
\* below it was only let in with an issuer that is not empty
THEOREM SearchSubjects == Spec => []NoEmptySubject
<1>1. SearchInv => NoEmptySubject
  <2> SUFFICES ASSUME SearchInv, NEW i \in 2 .. Len(stack) PROVE Subject(stack[i].cert) # "empty"
    BY DEF NoEmptySubject
  <2>1. Len(stack) \in Nat
    BY LenProperties DEF SearchInv, TypeOK
  <2>2. i \in 1 .. Len(stack) /\ i - 1 \in 1 .. Len(stack) /\ i > 1
    BY <2>1
  <2>3. Subject(stack[i].cert) = Issuer(stack[i - 1].cert)
    BY <2>2 DEF SearchInv, FrameOK
  <2>4. PermittedAt(req, Certs, i - 1) /\ Certs[i - 1] = stack[i - 1].cert
    BY <2>2 DEF SearchInv, FrameOK, Certs
  <2>5. i - 1 = 1 \/ i - 1 > 1
    BY <2>1
  <2>6. Content[stack[i - 1].cert].issuer # "empty"
    BY <2>4, <2>5, NamesIssuer DEF PermittedAt
  <2>7. QED
    BY <2>3, <2>6 DEF Issuer
<1>2. QED
  BY <1>1, SearchInit, SearchNext, PTL DEF Spec

-----------------------------------------------------------------------------
(* The work limit                                                          *)

\* Only an exhausted budget makes a fatal error, and from then on there are
\* only returns
FatalInv == result.kind = "FatalError" => budget = 0 /\ pc \in {"return", "done"}

\* The action of FatalIsFinal
NothingMore ==
  result.kind = "FatalError" => result' = result /\ budget' = 0 /\ Len(stack') <= Len(stack)

LEMMA ErrorsNotFatal ==
  /\ \A v \in PolicyVerdicts : Result(v).kind # "FatalError"
  /\ \A last : Exhausted(last).kind # "FatalError"
BY PolicyVerdictsType DEF Result, Exhausted

\* The steps of a search that has not failed fatally
LEMMA SearchingStep ==
  ASSUME TypeOK, Next, pc \notin {"return", "done"}, result.kind # "FatalError"
  PROVE  FatalInv'
<1>1. CASE result' = result
  BY <1>1 DEF FatalInv
<1>2. CASE BuildChain
  BY <1>1, <1>2, ErrorsNotFatal, VerdictsTyped DEF BuildChain, FatalInv
<1>3. CASE ParseConstraints \/ EndOfSubtrees \/ CheckAnchor
  <2>1. {Ok, "Malformed", "Other"} \subseteq PolicyVerdicts
    BY DEF PolicyVerdicts
  <2>2. result' \in {result, Result(Ok), Result("Malformed"), Result("Other")}
    BY <1>3 DEF ParseConstraints, EndOfSubtrees, CheckAnchor, Return
  <2>3. QED
    BY <1>1, <2>1, <2>2, ErrorsNotFatal DEF FatalInv
<1>4. CASE EvaluateOne
  <2>1. CASE budget = 0 /\ budget' = budget /\ pc' = "return"
    BY <2>1 DEF FatalInv
  <2>2. CASE result' = result \/ result' = Result("Other")
    BY <1>1, <2>2 DEF FatalInv, Result
  <2>3. QED
    BY <1>4, <2>1, <2>2 DEF EvaluateOne, Return
<1>5. CASE TryCandidate
  <2>1. CASE \E i \in DOMAIN Pool(req) : result' = Result(Abort(Pool(req)[i]))
    <3>1. PICK i \in DOMAIN Pool(req) : result' = Result(Abort(Pool(req)[i]))
      BY <2>1
    <3>2. Pool(req)[i] \in Cert
      BY PoolTyped DEF TypeOK
    <3>3. Abort(Pool(req)[i]) \in PolicyVerdicts
      BY <3>2, VerdictsTyped
    <3>4. QED
      BY <3>1, <3>3, ErrorsNotFatal DEF FatalInv
  <2>2. QED
    BY <1>1, <1>5, <2>1 DEF TryCandidate, Return
<1>6. CASE NoMoreCandidates
  BY <1>6, ErrorsNotFatal DEF NoMoreCandidates, Return, FatalInv
<1>7. QED
  BY <1>1, <1>2, <1>3, <1>4, <1>5, <1>6 DEF Next, NextLevel, ConstraintsHold, Returned, Finish, Done

\* The steps that return
LEMMA ReturningStep ==
  ASSUME TypeOK, FatalInv, Next, pc \in {"return", "done"}
  PROVE  FatalInv' /\ NothingMore
<1>1. CASE Returned
  <2>1. Len(Front(stack)) = Len(stack) - 1 /\ Len(stack) \in Nat
    BY <1>1, FrontFacts DEF Returned, TypeOK
  <2>2. UNCHANGED << budget, result >>
    BY <1>1 DEF Returned, Return
  <2>3. CASE result.kind = "FatalError"
    <3>1. stack' = Front(stack) /\ pc' = "return"
      BY <1>1, <2>3 DEF Returned, Return, IsFatal
    <3>2. QED
      BY <2>1, <2>2, <3>1 DEF FatalInv, NothingMore
  <2>4. QED
    BY <2>2, <2>3 DEF FatalInv, NothingMore
<1>2. CASE Finish \/ Done
  <2>1. UNCHANGED << budget, result, stack >> /\ pc' = "done"
    BY <1>2 DEF Finish, Done, vars
  <2>2. Len(stack) \in Nat
    BY LenProperties DEF TypeOK
  <2>3. QED
    BY <2>1, <2>2 DEF FatalInv, NothingMore
<1>3. QED
  BY <1>1, <1>2 DEF Next, BuildChain, ParseConstraints, NextLevel, ConstraintsHold, EvaluateOne,
       EndOfSubtrees, CheckAnchor, TryCandidate, NoMoreCandidates

\* Once the budget of name constraint checks is exhausted nothing more is
\* tried: every call on the stack returns the fatal error, however many
\* candidates are left
THEOREM FatalEndsSearch == Spec => FatalIsFinal
<1>1. Init => FatalInv
  BY DEF Init, FatalInv, Result, Ok
<1>2. TypeOK /\ FatalInv /\ [Next]_vars => FatalInv' /\ [NothingMore]_vars
  <2> SUFFICES ASSUME TypeOK, FatalInv, [Next]_vars PROVE FatalInv' /\ [NothingMore]_vars
    OBVIOUS
  <2>1. CASE UNCHANGED vars
    BY <2>1 DEF vars, FatalInv
  <2>2. CASE Next /\ pc \in {"return", "done"}
    BY <2>2, ReturningStep
  <2>3. CASE Next /\ pc \notin {"return", "done"}
    BY <2>3, SearchingStep DEF FatalInv, NothingMore
  <2>4. QED
    BY <2>1, <2>2, <2>3
<1>3. Spec => []TypeOK
  BY TypeCorrect
<1>4. Spec => [][NothingMore]_vars
  BY <1>1, <1>2, <1>3, PTL DEF Spec
<1>5. QED
  BY <1>4 DEF FatalIsFinal, NothingMore

-----------------------------------------------------------------------------
(* Completeness: what the search has excluded when it rejects              *)

\* A path that the search has to find
Wanted(p) == ValidPath(req, p) /\ Len(p) <= MaxDepth + 1

\* A wanted path that begins with the certificates of the first i frames
Through(p, i) == Wanted(p) /\ i <= Len(p) /\ \A j \in 1 .. i : p[j] = stack[j].cert

\* The candidates of a frame that were tried: those before the position its
\* loop has reached, without the one that an inner call is working on
TriedBefore(i) == IF i < Len(stack) \/ pc = "return" THEN stack[i].next - 1 ELSE stack[i].next

\* A frame whose candidates are being tried is no trust anchor, and no wanted
\* path leads from it over a candidate that was tried
FrameTried(i) ==
  /\ i < Len(stack) \/ pc \in {"candidates", "return"} => ~InStore(req, stack[i].cert)
  /\ \A p : Through(p, i) /\ i < Len(p) =>
       \A k \in DOMAIN Pool(req) : k < TriedBefore(i) => p[i + 1] # Pool(req)[k]

\* An inner call is made for the last candidate that its caller took
FrameLinked(i) ==
  i > 1 => /\ stack[i - 1].next - 1 \in DOMAIN Pool(req)
           /\ stack[i].cert = Pool(req)[stack[i - 1].next - 1]

\* A call that returned an error, and no fatal one, excluded its certificate
ErrorJustified ==
  pc \in {"return", "done"} /\ result.kind \notin {Ok, "FatalError"} =>
    /\ stack = << >> => \A p : ~Wanted(p)
    /\ stack # << >> => \A p : Through(p, Len(stack)) /\ Len(stack) < Len(p) =>
                                p[Len(stack) + 1] # Pool(req)[Top.next - 1]

\* permit is false only when a permitted subtree of the name's type did not match
PermitInv ==
  /\ pc = "evaluate" /\ cursor.lvl <= Len(stack) /\ cursor.san <= Len(Names)
  /\ cursor.side = "permitted" /\ ~cursor.permit
  => \E j \in DOMAIN Subtrees :
       j < cursor.k /\ EvaluateSingleConstraint(Subtrees[j], Names[cursor.san]) = NoMatch

CompleteInv ==
  /\ PermitInv
  /\ \A i \in 1 .. Len(stack) : FrameLinked(i)
  /\ ~Obstructed(req) => ErrorJustified /\ \A i \in 1 .. Len(stack) : FrameTried(i)

-----------------------------------------------------------------------------
LEMMA WantedKept ==
  ASSUME req' = req, NEW p
  PROVE  Wanted(p)' <=> Wanted(p)
BY DEF Wanted

LEMMA ThroughKept ==
  ASSUME req' = req, NEW i, \A j \in 1 .. i : stack'[j].cert = stack[j].cert, NEW p
  PROVE  Through(p, i)' <=> Through(p, i)
BY WantedKept DEF Through

\* What a wanted path through all the frames satisfies at the innermost one
LEMMA ThroughFacts ==
  ASSUME SearchInv, stack # << >>, NEW p, Through(p, Len(stack))
  PROVE  /\ Len(p) \in Nat /\ Len(stack) \in 1 .. Len(p) /\ Len(p) <= Depth + 2
         /\ Depth \in Nat /\ MaxDepth \in Nat
         /\ p[Len(stack)] = Top.cert /\ InStore(req, p[Len(p)])
         /\ ConstraintsMet(p, Len(stack))
         /\ Top.depth = Len(stack) - 1
         /\ Len(stack) < Len(p) =>
              /\ Len(stack) + 1 \in 2 .. Len(p)
              /\ Subject(p[Len(stack) + 1]) = Issuer(Top.cert)
              /\ \E k \in DOMAIN Pool(req) : Pool(req)[k] = p[Len(stack) + 1]
              /\ ValidIssuer(req.policy, Content[p[Len(stack) + 1]], Content[Top.cert], Top.depth) = Ok
<1> DEFINE n == Len(stack)
<1>1. n \in Nat \ {0} /\ FrameOK(n)
  <2>1. n \in Nat \ {0}
    BY EmptySeq, LenProperties DEF SearchInv, TypeOK
  <2>2. n \in 1 .. Len(stack)
    BY <2>1
  <2>3. QED
    BY <2>1, <2>2 DEF SearchInv
<1>2. Depth \in Nat /\ MaxDepth \in Nat
  BY RequestAssumption DEF SearchInv, TypeOK, Depth
<1>3. Len(p) \in 1 .. Depth + 2 /\ n <= Len(p)
  BY DEF Through, Wanted, ValidPath, Depth
<1>4. Len(p) \in Nat /\ n \in 1 .. Len(p) /\ Len(p) <= Depth + 2
  BY <1>1, <1>2, <1>3
<1>5. p[n] = Top.cert /\ Top.depth = n - 1
  BY <1>1 DEF Through, Top, FrameOK
<1>6. InStore(req, p[Len(p)]) /\ ConstraintsMet(p, n)
  BY <1>4 DEF Through, Wanted, ValidPath
<1>7. ASSUME n < Len(p)
      PROVE  /\ n + 1 \in 2 .. Len(p)
             /\ Subject(p[n + 1]) = Issuer(Top.cert)
             /\ \E k \in DOMAIN Pool(req) : Pool(req)[k] = p[n + 1]
             /\ ValidIssuer(req.policy, Content[p[n + 1]], Content[Top.cert], Top.depth) = Ok
  <2>1. n + 1 \in 2 .. Len(p) /\ n + 1 \in 1 .. Len(p) /\ (n + 1) - 1 = n /\ (n + 1) - 2 = n - 1 /\ n + 1 > 1
    BY <1>1, <1>4, <1>7
  <2>2. Subject(p[n + 1]) = Issuer(p[(n + 1) - 1]) /\ PermittedAt(req, p, n + 1)
    BY <2>1 DEF Through, Wanted, ValidPath
  <2>3. /\ \E k \in DOMAIN Pool(req) : Pool(req)[k] = p[n + 1]
        /\ ValidIssuer(req.policy, Content[p[n + 1]], Content[p[(n + 1) - 1]], (n + 1) - 2) = Ok
    BY <2>1, <2>2 DEF PermittedAt
  <2> HIDE DEF n
  <2>4. QED
    BY <1>5, <2>1, <2>2, <2>3
<1>8. QED
  BY <1>2, <1>4, <1>5, <1>6, <1>7

\* A call returns: with Ok, with a fatal error, or because no wanted path leads
\* through its certificate
LEMMA ReturnComplete ==
  ASSUME SearchInv, CompleteInv, stack # << >>, NEW v, NEW ch, Return(v, ch),
         \/ v.kind \in {Ok, "FatalError"}
         \/ Obstructed(req)
         \/ \A p : ~Through(p, Len(stack))
  PROVE  CompleteInv'
<1> DEFINE n == Len(stack)
<1>1. /\ n \in Nat \ {0} /\ Len(stack') = n - 1
      /\ \A i \in 1 .. n - 1 : stack'[i] = stack[i]
      /\ req' = req /\ pc' = "return" /\ result' = v /\ stack' \in Seq(FrameType)
  BY FrontFacts DEF SearchInv, TypeOK, Return
<1>2. PermitInv'
  BY <1>1 DEF PermitInv
<1>3. ASSUME NEW i \in 1 .. Len(stack') PROVE FrameLinked(i)'
  <2>1. i \in 1 .. n /\ i \in 1 .. n - 1 /\ (i > 1 => i - 1 \in 1 .. n - 1)
    BY <1>1
  <2>2. FrameLinked(i)
    BY <2>1 DEF CompleteInv
  <2>3. QED
    BY <1>1, <2>1, <2>2 DEF FrameLinked
<1>4. ASSUME ~Obstructed(req), NEW i \in 1 .. Len(stack') PROVE FrameTried(i)'
  <2>1. i \in 1 .. n /\ i \in 1 .. n - 1 /\ i < n
    BY <1>1
  <2>2. FrameTried(i)
    BY <1>4, <2>1 DEF CompleteInv
  <2>3. \A p : Through(p, i)' <=> Through(p, i)
    <3>1. \A j \in 1 .. i : stack'[j].cert = stack[j].cert
      BY <1>1, <2>1
    <3>2. QED
      BY <1>1, <3>1, ThroughKept
  <2>4. TriedBefore(i)' = TriedBefore(i)
    BY <1>1, <2>1 DEF TriedBefore
  <2>5. stack'[i].cert = stack[i].cert
    BY <1>1, <2>1
  <2>6. QED
    BY <1>1, <2>1, <2>2, <2>3, <2>4, <2>5 DEF FrameTried
<1>5. ASSUME ~Obstructed(req), v.kind \notin {Ok, "FatalError"} PROVE ErrorJustified'
  <2>1. \A p : ~Through(p, n)
    BY <1>5
  <2>2. CASE n = 1
    <3>1. stack' = << >>
      BY <1>1, <2>2, EmptySeq
    <3>2. ASSUME NEW p, Wanted(p) PROVE FALSE
      <4>1. 1 <= Len(p) /\ p[1] = req.leaf
        BY <3>2, RequestAssumption DEF Wanted, ValidPath, SearchInv, TypeOK
      <4>2. stack[1].cert = req.leaf
        BY <1>1 DEF SearchInv, FrameOK
      <4>3. Through(p, 1)
        BY <3>2, <4>1, <4>2 DEF Through
      <4>4. QED
        BY <2>1, <2>2, <4>3
    <3>3. QED
      BY <1>1, <3>1, <3>2, WantedKept DEF ErrorJustified
  <2>3. CASE n > 1
    <3>1. PICK m \in Nat : m = n - 1
      BY <1>1
    <3>2. m \in Nat \ {0} /\ n = m + 1 /\ Len(stack') = m /\ n \in 1 .. n
      BY <1>1, <2>3, <3>1
    <3>3. stack' # << >> /\ \A j \in 1 .. m : stack'[j] = stack[j]
      BY <1>1, <3>1, <3>2
    <3>4. FrameLinked(n) /\ n > 1 /\ n - 1 = m
      BY <2>3, <3>1, <3>2 DEF CompleteInv
    <3>5. Top' = stack[m] /\ stack[m + 1].cert = Pool(req)[stack[m].next - 1]
      BY <3>2, <3>3, <3>4 DEF Top, FrameLinked
    <3>6. ASSUME NEW p, Through(p, m)', m < Len(p), p[m + 1] = Pool(req)[stack[m].next - 1]
          PROVE  FALSE
      <4>1. Through(p, m)
        BY <1>1, <3>3, <3>6, ThroughKept
      <4>2. Wanted(p) /\ \A j \in 1 .. m : p[j] = stack[j].cert
        BY <4>1 DEF Through
      <4>3. \A j \in 1 .. m + 1 : p[j] = stack[j].cert
        BY <3>2, <3>5, <3>6, <4>2
      <4>4. m + 1 <= Len(p)
        <5>1. Len(p) \in Nat
          BY <4>2, RequestAssumption DEF Wanted, ValidPath, SearchInv, TypeOK
        <5>2. QED
          BY <3>2, <3>6, <5>1
      <4>5. Through(p, m + 1)
        BY <4>2, <4>3, <4>4 DEF Through
      <4>6. QED
        BY <2>1, <3>2, <4>5
    <3>7. QED
      BY <1>1, <3>2, <3>3, <3>5, <3>6 DEF ErrorJustified
  <2>4. QED
    BY <1>1, <2>2, <2>3
<1>6. ErrorJustified' \/ Obstructed(req)
  BY <1>1, <1>5 DEF ErrorJustified
<1>7. QED
  BY <1>1, <1>2, <1>3, <1>4, <1>6 DEF CompleteInv

\* A step within the checks of the innermost certificate
LEMMA StayComplete ==
  ASSUME SearchInv, CompleteInv, req' = req, stack' = stack, PermitInv',
         pc \in {"constraints", "evaluate", "anchor"}, pc' \in {"evaluate", "anchor"}
  PROVE  CompleteInv'
<1>1. \A p, i : Through(p, i)' <=> Through(p, i)
  BY ThroughKept
<1>2. \A i : FrameLinked(i)' = FrameLinked(i) /\ TriedBefore(i)' = TriedBefore(i)
  BY DEF FrameLinked, TriedBefore
<1>3. \A i \in 1 .. Len(stack) : FrameTried(i) => FrameTried(i)'
  BY <1>1, <1>2 DEF FrameTried
<1>4. ErrorJustified'
  BY DEF ErrorJustified
<1>5. QED
  BY <1>2, <1>3, <1>4 DEF CompleteInv

\* The loop over the candidates of the innermost frame goes on
LEMMA LoopComplete ==
  ASSUME SearchInv, CompleteInv, req' = req, stack # << >>, Len(stack') = Len(stack),
         \A j \in 1 .. Len(stack) : stack'[j].cert = stack[j].cert,
         \A j \in 1 .. Len(stack) : j < Len(stack) => stack'[j].next = stack[j].next,
         pc' = "candidates", ~Obstructed(req) => ~InStore(req, Top.cert),
         ~Obstructed(req) =>
           \A p : Through(p, Len(stack)) /\ Len(stack) < Len(p) =>
             \A k \in DOMAIN Pool(req) : k < stack'[Len(stack)].next => p[Len(stack) + 1] # Pool(req)[k]
  PROVE  CompleteInv'
<1>1. PICK n \in Nat \ {0} : n = Len(stack)
  BY EmptySeq, LenProperties DEF SearchInv, TypeOK
<1>2. PermitInv' /\ ErrorJustified'
  BY DEF PermitInv, ErrorJustified
<1>3. ASSUME NEW i \in 1 .. n PROVE FrameLinked(i)'
  <2>1. FrameLinked(i) /\ (i > 1 => i - 1 \in 1 .. n /\ i - 1 < n)
    BY <1>1 DEF CompleteInv
  <2>2. QED
    BY <1>1, <2>1 DEF FrameLinked
<1>4. ASSUME ~Obstructed(req), NEW i \in 1 .. n PROVE FrameTried(i)'
  <2>1. \A p : Through(p, i)' <=> Through(p, i)
    <3>1. \A j \in 1 .. i : stack'[j].cert = stack[j].cert
      BY <1>1
    <3>2. QED
      BY <3>1, ThroughKept
  <2>2. CASE i < n
    <3>1. FrameTried(i) /\ TriedBefore(i)' = TriedBefore(i) /\ stack'[i].cert = stack[i].cert
      BY <1>1, <1>4, <2>2 DEF CompleteInv, TriedBefore
    <3>2. QED
      BY <1>1, <2>1, <2>2, <3>1 DEF FrameTried
  <2>3. CASE i = n
    <3>1. TriedBefore(i)' = stack'[i].next /\ stack'[i].cert = Top.cert
      BY <1>1, <2>3 DEF TriedBefore, Top
    <3>2. \A p : Through(p, n) /\ n < Len(p) =>
            \A k \in DOMAIN Pool(req) : k < stack'[n].next => p[n + 1] # Pool(req)[k]
      BY <1>1, <1>4
    <3>3. ~InStore(req, stack'[n].cert) /\ req' = req
      BY <1>4, <2>3, <3>1
    <3>4. QED
      BY <2>1, <2>3, <3>1, <3>2, <3>3 DEF FrameTried
  <2>4. QED
    BY <1>1, <2>2, <2>3
<1>5. QED
  BY <1>1, <1>2, <1>3, <1>4 DEF CompleteInv

LEMMA BuildChainComplete ==
  ASSUME SearchInv, CompleteInv, BuildChain
  PROVE  CompleteInv'
<1>1. stack = << >> /\ req' = req
  BY DEF SearchInv, BuildChain
<1>2. CASE LeafVerdict # Ok /\ pc' = "done" /\ stack' = stack
  <2>1. ASSUME NEW p, Wanted(p) PROVE FALSE
    <3>1. 1 \in 1 .. Len(p) /\ p[1] = req.leaf
      BY <2>1, RequestAssumption DEF Wanted, ValidPath, SearchInv, TypeOK
    <3>2. PermittedAt(req, p, 1)
      BY <2>1, <3>1 DEF Wanted, ValidPath
    <3>3. /\ ~HasDuplicates(Content[req.leaf].exts) /\ PermitsEE(req.policy, Content[req.leaf]) = Ok
          /\ ~MalformedSAN(req.leaf, 1 = 1)
      BY <3>1, <3>2 DEF PermittedAt
    <3>4. ~MalformedSAN(req.leaf, TRUE)
      <4>1. (1 = 1) = TRUE
        OBVIOUS
      <4>2. QED
        BY <3>3, <4>1, Zenon
    <3>5. /\ Check(~HasDuplicates(Content[req.leaf].exts), "ExtensionError") = Ok
          /\ Check(~MalformedSAN(req.leaf, TRUE), "Malformed") = Ok
      BY <3>3, <3>4, CheckOk, Kinds
    <3>6. LeafVerdict = Ok
      <4> DEFINE dup == Check(~HasDuplicates(Content[req.leaf].exts), "ExtensionError")
                 ee == PermitsEE(req.policy, Content[req.leaf])
                 san == Check(~MalformedSAN(req.leaf, TRUE), "Malformed")
      <4>1. dup = Ok /\ ee = Ok /\ san = Ok
        BY <3>3, <3>5
      <4>2. LeafVerdict = (dup && ee && san)
        BY DEF LeafVerdict
      <4> HIDE DEF dup, ee, san
      <4>3. QED
        BY <4>1, <4>2, ThenOk
    <3>7. QED
      BY <1>2, <3>6
  <2>2. Len(stack') = 0 /\ stack' = << >>
    BY <1>1, <1>2
  <2>3. ErrorJustified'
    BY <1>1, <2>1, <2>2, WantedKept DEF ErrorJustified
  <2>4. QED
    BY <1>1, <1>2, <2>2, <2>3 DEF CompleteInv, PermitInv
<1>3. CASE pc' = "constraints" /\ stack' = << Frame(req.leaf, 0) >>
  <2>1. Len(stack') = 1 /\ stack'[1].next = 1
    BY <1>3 DEF Frame
  <2>2. FrameTried(1)'
    <3>1. TriedBefore(1)' = 1
      BY <1>3, <2>1 DEF TriedBefore
    <3>2. \A k \in DOMAIN Pool(req) : ~(k < 1)
      BY PoolTyped DEF SearchInv, TypeOK
    <3>3. QED
      BY <1>1, <1>3, <2>1, <3>1, <3>2 DEF FrameTried
  <2>3. FrameLinked(1)'
    BY DEF FrameLinked
  <2>4. PermitInv' /\ ErrorJustified'
    BY <1>3 DEF PermitInv, ErrorJustified
  <2>5. \A i \in 1 .. Len(stack') : i = 1
    BY <2>1
  <2>6. QED
    BY <2>2, <2>3, <2>4, <2>5 DEF CompleteInv
<1>4. QED
  BY <1>2, <1>3 DEF BuildChain

\* The innermost call stays, with a cursor whose permit flag is set
LEMMA FreshPermit ==
  ASSUME NEW l, NEW s, cursor' = CursorAt(l, s) \/ cursor' = ExcludedAt(l, s)
  PROVE  PermitInv'
BY DEF PermitInv, CursorAt, ExcludedAt

LEMMA ParseConstraintsComplete ==
  ASSUME SearchInv, CompleteInv, ParseConstraints
  PROVE  CompleteInv'
<1>1. stack # << >> /\ pc = "constraints"
  BY DEF SearchInv, TypeOK, ParseConstraints
<1>2. CASE pc' = "anchor" /\ UNCHANGED << req, stack >>
  BY <1>1, <1>2, StayComplete DEF PermitInv
<1>3. CASE pc' = "evaluate" /\ cursor' = CursorAt(1, 1) /\ UNCHANGED << req, stack >>
  BY <1>1, <1>3, StayComplete, FreshPermit
<1>4. CASE /\ Constrained(Top.cert) /\ The(Ext(Top.cert, "name_constraints")).form = "malformed"
           /\ Return(Result("Malformed"), << >>)
  <2>1. \A p : ~Through(p, Len(stack))
    BY <1>1, <1>4, ThroughFacts DEF ConstraintsMet
  <2>2. QED
    BY <1>1, <1>4, <2>1, ReturnComplete
<1>5. QED
  BY <1>2, <1>3, <1>4 DEF ParseConstraints

LEMMA NextLevelComplete ==
  ASSUME SearchInv, CompleteInv, NextLevel \/ ConstraintsHold
  PROVE  CompleteInv'
<1>1. CASE NextLevel
  BY <1>1, StayComplete, FreshPermit DEF NextLevel
<1>2. CASE ConstraintsHold
  BY <1>2, StayComplete DEF ConstraintsHold, PermitInv
<1>3. QED
  BY <1>1, <1>2

\* A name of the chain is outside the constraints of the innermost certificate
LEMMA OutsideConstraints ==
  ASSUME SearchInv, pc = "evaluate", cursor.lvl <= Len(stack), cursor.san <= Len(Names),
         \/ ~PassesPermitted(Permitted(Top.cert), Names[cursor.san])
         \/ ~PassesExcluded(Excluded(Top.cert), Names[cursor.san]),
         NEW p, Through(p, Len(stack))
  PROVE  FALSE
<1>1. /\ stack # << >> /\ TypeOK /\ CursorInv /\ Len(stack) \in Nat \ {0}
      /\ cursor.lvl \in 1 .. Len(stack) /\ cursor.san \in Nat \ {0}
  BY TopTyped DEF SearchInv, TypeOK, CursorType
<1>2. ConstraintsMet(p, Len(stack)) /\ p[Len(stack)] = Top.cert
  BY <1>1, ThroughFacts
<1>3. WithinConstraints(Top.cert, p[cursor.lvl], cursor.lvl = 1)
  BY <1>1, <1>2 DEF ConstraintsMet
<1>4. p[cursor.lvl] = stack[cursor.lvl].cert
  BY <1>1 DEF Through
<1>5. cursor.san \in DOMAIN Names
  BY <1>1, ListsAreTuples DEF Names, IsTuple
<1>6. QED
  BY <1>1, <1>3, <1>4, <1>5 DEF WithinConstraints, CursorInv, Names

LEMMA EvaluateOneComplete ==
  ASSUME SearchInv, CompleteInv, EvaluateOne
  PROVE  CompleteInv'
<1> DEFINE name == Names[cursor.san]
           status == EvaluateSingleConstraint(Subtrees[cursor.k], name)
<1>1. /\ stack # << >> /\ TypeOK /\ CursorInv /\ pc = "evaluate"
      /\ cursor.lvl <= Len(stack) /\ cursor.san <= Len(Names)
      /\ cursor.k \in Nat \ {0} /\ cursor.k <= Len(Subtrees)
      /\ cursor \in CursorType
  BY DEF SearchInv, EvaluateOne, TypeOK, CursorType
<1>2. cursor.k \in DOMAIN Subtrees /\ IsTuple(Subtrees)
  BY <1>1, SubtreesTuple DEF CursorInv, IsTuple
<1>3. CASE Return(Result("FatalError"), << >>)
  BY <1>1, <1>3, ReturnComplete DEF Result
<1>4. CASE /\ status = Failed \/ (status = Match /\ cursor.side = "excluded")
           /\ Return(Result("Other"), << >>)
  <2>1. CASE cursor.side = "excluded"
    <3>1. ~PassesExcluded(Excluded(Top.cert), name)
      BY <1>2, <1>4, <2>1 DEF PassesExcluded, Subtrees, Failed, Match, Skipped, NoMatch
    <3>2. \A p : ~Through(p, Len(stack))
      BY <1>1, <3>1, OutsideConstraints
    <3>3. QED
      BY <1>1, <1>4, <3>2, ReturnComplete
  <2>2. CASE cursor.side = "permitted"
    <3>1. Subtrees = Permitted(Top.cert) /\ status = Failed
      BY <1>4, <2>2 DEF Subtrees
    <3>2. SubtreesSeen(Subtrees, name, cursor.k)
      BY <1>1 DEF CursorInv, NameInv
    <3>3. ~PassesPermitted(Subtrees, name)
      <4>1. status # Skipped
        BY <3>1 DEF Failed, Skipped
      <4>2. ASSUME NEW k \in DOMAIN Subtrees,
                   EvaluateSingleConstraint(Subtrees[k], name) = Match,
                   \A j \in 1 .. k - 1 : EvaluateSingleConstraint(Subtrees[j], name) # Failed
            PROVE  FALSE
        <5>1. k \in Nat /\ ~(k < cursor.k)
          BY <1>2, <3>2, <4>2 DEF IsTuple, SubtreesSeen, Match, Skipped, NoMatch
        <5>2. k # cursor.k
          BY <3>1, <4>2 DEF Failed, Match
        <5>3. cursor.k \in 1 .. k - 1
          BY <1>1, <5>1, <5>2
        <5>4. QED
          BY <3>1, <4>2, <5>3
      <4>3. QED
        BY <1>2, <4>1, <4>2 DEF PassesPermitted
    <3>4. \A p : ~Through(p, Len(stack))
      BY <1>1, <3>1, <3>3, OutsideConstraints
    <3>5. QED
      BY <1>1, <1>4, <3>4, ReturnComplete
  <2>3. QED
    BY <1>1, <2>1, <2>2 DEF CursorType
<1>5. CASE cursor' = ExcludedAt(cursor.lvl, cursor.san) /\ UNCHANGED << req, pc, stack >>
  BY <1>1, <1>5, StayComplete, FreshPermit
<1>6. CASE /\ status \in {NoMatch, Skipped}
           /\ cursor' = [cursor EXCEPT !.k = @ + 1,
                           !.permit = @ /\ (status = Skipped \/ cursor.side = "excluded")]
           /\ UNCHANGED << req, pc, stack >>
  <2> HIDE DEF status
  <2>1. /\ cursor'.lvl = cursor.lvl /\ cursor'.san = cursor.san /\ cursor'.side = cursor.side
        /\ cursor'.k = cursor.k + 1
        /\ cursor'.permit = (cursor.permit /\ (status = Skipped \/ cursor.side = "excluded"))
    BY <1>1, <1>6 DEF CursorType
  <2>2. Names' = Names /\ Subtrees' = Subtrees
    BY <1>6, <2>1 DEF Names, Subtrees, Top
  <2>3. ASSUME cursor.side = "permitted", ~cursor'.permit
        PROVE  \E j \in DOMAIN Subtrees :
                 j < cursor.k + 1 /\ EvaluateSingleConstraint(Subtrees[j], name) = NoMatch
    <3>1. CASE ~cursor.permit
      <4>1. PICK j \in DOMAIN Subtrees :
              j < cursor.k /\ EvaluateSingleConstraint(Subtrees[j], name) = NoMatch
        BY <1>1, <2>3, <3>1 DEF CompleteInv, PermitInv
      <4>2. j < cursor.k + 1
        BY <1>1, <1>2, <4>1 DEF IsTuple
      <4>3. QED
        BY <4>1, <4>2
    <3>2. CASE cursor.permit
      <4>1. status = NoMatch
        BY <1>6, <2>1, <2>3, <3>2
      <4>2. cursor.k < cursor.k + 1
        BY <1>1
      <4>3. QED
        BY <1>2, <4>1, <4>2 DEF status
    <3>3. QED
      BY <3>1, <3>2
  <2>4. PermitInv'
    BY <2>1, <2>2, <2>3 DEF PermitInv
  <2>5. QED
    BY <1>1, <1>6, <2>4, StayComplete
<1>7. QED
  BY <1>3, <1>4, <1>5, <1>6 DEF EvaluateOne

LEMMA EndOfSubtreesComplete ==
  ASSUME SearchInv, CompleteInv, EndOfSubtrees
  PROVE  CompleteInv'
<1> DEFINE name == Names[cursor.san]
<1>1. /\ stack # << >> /\ TypeOK /\ CursorInv /\ pc = "evaluate"
      /\ cursor.lvl <= Len(stack) /\ cursor.san <= Len(Names)
      /\ cursor.k \in Nat /\ cursor.k > Len(Subtrees)
  BY DEF SearchInv, EndOfSubtrees, TypeOK, CursorType
<1>2. IsTuple(Subtrees)
  BY <1>1, SubtreesTuple DEF CursorInv
<1>3. CASE cursor.side = "permitted" /\ ~cursor.permit /\ Return(Result("Other"), << >>)
  <2>1. Subtrees = Permitted(Top.cert)
    BY <1>3 DEF Subtrees
  <2>2. \E j \in DOMAIN Subtrees : EvaluateSingleConstraint(Subtrees[j], name) = NoMatch
    BY <1>1, <1>3 DEF CompleteInv, PermitInv
  <2>3. \A j \in DOMAIN Subtrees : EvaluateSingleConstraint(Subtrees[j], name) \in {Skipped, NoMatch}
    <3>1. \A j \in DOMAIN Subtrees : j < cursor.k
      BY <1>1, <1>2 DEF IsTuple
    <3>2. QED
      BY <1>1, <3>1 DEF CursorInv, NameInv, SubtreesSeen
  <2>4. ~PassesPermitted(Subtrees, name)
    BY <2>2, <2>3 DEF PassesPermitted, Skipped, NoMatch, Match
  <2>5. \A p : ~Through(p, Len(stack))
    BY <1>1, <2>1, <2>4, OutsideConstraints
  <2>6. QED
    BY <1>1, <1>3, <2>5, ReturnComplete
<1>4. CASE /\ UNCHANGED << req, pc, stack >>
           /\ \/ cursor' = ExcludedAt(cursor.lvl, cursor.san)
              \/ cursor' = CursorAt(cursor.lvl, cursor.san + 1)
  BY <1>1, <1>4, StayComplete, FreshPermit
<1>5. QED
  BY <1>3, <1>4 DEF EndOfSubtrees

LEMMA CheckAnchorComplete ==
  ASSUME SearchInv, CompleteInv, CheckAnchor
  PROVE  CompleteInv'
<1>1. stack # << >> /\ pc = "anchor" /\ Len(stack) \in Nat \ {0}
  BY TopTyped DEF SearchInv, CheckAnchor, TypeOK
<1>2. CASE Return(Result(Ok), << Top.cert >>)
  BY <1>1, <1>2, ReturnComplete DEF Result
<1>3. CASE ~InStore(req, Top.cert) /\ TooDeep /\ Return(Result("Other"), << >>)
  <2>1. ASSUME NEW p, Through(p, Len(stack)) PROVE FALSE
    <3>1. /\ Len(p) \in Nat /\ Len(stack) \in 1 .. Len(p) /\ Len(p) <= Depth + 2 /\ Depth \in Nat
          /\ p[Len(stack)] = Top.cert /\ InStore(req, p[Len(p)]) /\ Top.depth = Len(stack) - 1
      BY <1>1, <2>1, ThroughFacts
    <3>2. Top.depth > Depth
      BY <1>3 DEF TooDeep, Depth
    <3>3. Len(p) = Len(stack)
      BY <1>1, <3>1, <3>2
    <3>4. QED
      BY <1>3, <3>1, <3>3
  <2>2. QED
    BY <1>1, <1>3, <2>1, ReturnComplete
<1>4. CASE ~InStore(req, Top.cert) /\ pc' = "candidates" /\ UNCHANGED << req, stack >>
  <2>1. ASSUME ~Obstructed(req), NEW p, Through(p, Len(stack)) /\ Len(stack) < Len(p),
               NEW k \in DOMAIN Pool(req), k < stack'[Len(stack)].next
        PROVE  p[Len(stack) + 1] # Pool(req)[k]
    <3>1. PICK n \in 1 .. Len(stack) : n = Len(stack)
      BY <1>1
    <3>2. FrameTried(n) /\ TriedBefore(n) = stack[n].next
      BY <1>1, <2>1, <3>1 DEF CompleteInv, TriedBefore
    <3>3. QED
      BY <1>4, <2>1, <3>1, <3>2 DEF FrameTried
  <2>2. QED
    BY <1>1, <1>4, <2>1, LoopComplete
<1>5. QED
  BY <1>2, <1>3, <1>4 DEF CheckAnchor

\* A certificate whose candidates are tried is no trust anchor
LEMMA LoopNoAnchor ==
  ASSUME SearchInv, CompleteInv, stack # << >>, pc \in {"candidates", "return"}, ~Obstructed(req)
  PROVE  ~InStore(req, Top.cert)
<1>1. PICK n \in 1 .. Len(stack) : n = Len(stack)
  BY TopTyped DEF SearchInv
<1>2. FrameTried(n)
  BY DEF CompleteInv
<1>3. QED
  BY <1>1, <1>2 DEF FrameTried, Top

\* What the loop has excluded when it looks for its next candidate
LEMMA LoopExcludes ==
  ASSUME SearchInv, CompleteInv, pc = "candidates", ~Obstructed(req),
         NEW p, Through(p, Len(stack))
  PROVE  /\ ~InStore(req, Top.cert) /\ Len(stack) < Len(p)
         /\ \E k \in PotentialIssuers(req, Top.cert, Top.next) : Pool(req)[k] = p[Len(stack) + 1]
         /\ Top.next \in Nat
<1>1. stack # << >> /\ Len(stack) \in Nat \ {0} /\ TypeOK /\ Top \in FrameType
  BY TopTyped DEF SearchInv, TypeOK
<1>2. PICK n \in 1 .. Len(stack) : n = Len(stack)
  BY <1>1
<1>3. FrameTried(n) /\ TriedBefore(n) = Top.next /\ stack[n].cert = Top.cert
  BY <1>1, <1>2 DEF CompleteInv, TriedBefore, Top
<1>4. ~InStore(req, Top.cert)
  BY <1>3 DEF FrameTried
<1>5. Len(stack) < Len(p)
  BY <1>1, <1>4, ThroughFacts
<1>6. /\ Subject(p[Len(stack) + 1]) = Issuer(Top.cert)
      /\ \E k \in DOMAIN Pool(req) : Pool(req)[k] = p[Len(stack) + 1]
  BY <1>1, <1>5, ThroughFacts
<1>7. PICK k \in DOMAIN Pool(req) : Pool(req)[k] = p[Len(stack) + 1]
  BY <1>6
<1>8. ~(k < Top.next)
  BY <1>2, <1>3, <1>5, <1>7 DEF FrameTried
<1>9. Top.next \in Nat
  BY <1>1 DEF FrameType
<1>10. k \in Top.next .. Len(Pool(req))
  BY <1>1, <1>8, <1>9, PoolTyped DEF TypeOK
<1>11. QED
  BY <1>4, <1>5, <1>6, <1>7, <1>9, <1>10 DEF PotentialIssuers

LEMMA NoMoreCandidatesComplete ==
  ASSUME SearchInv, CompleteInv, NoMoreCandidates
  PROVE  CompleteInv'
<1>1. stack # << >> /\ pc = "candidates"
  BY DEF SearchInv, NoMoreCandidates, TypeOK
<1>2. Obstructed(req) \/ \A p : ~Through(p, Len(stack))
  BY <1>1, LoopExcludes DEF NoMoreCandidates
<1>3. QED
  BY <1>1, <1>2, ReturnComplete DEF NoMoreCandidates

\* A candidate that leaves the loop is one that obstructs the search, or it is
\* where the depth counter ends
LEMMA AbortComplete ==
  ASSUME SearchInv, CompleteInv, pc = "candidates",
         NEW i \in DOMAIN Pool(req), Abort(Pool(req)[i]) # Ok
  PROVE  Obstructed(req) \/ \A p : ~Through(p, Len(stack))
<1> SUFFICES ASSUME ~Obstructed(req), NEW p, Through(p, Len(stack)) PROVE FALSE
  OBVIOUS
<1> DEFINE c == Pool(req)[i]
           dup == Check(~HasDuplicates(Content[c].exts), "ExtensionError")
           deep == Check(Top.depth < MaxDepth, "Other")
           san == Check(~MalformedSAN(c, FALSE), "Malformed")
<1>1. stack # << >> /\ Len(stack) \in Nat \ {0}
  BY TopTyped DEF SearchInv, TypeOK
<1>2. ~HasDuplicates(Content[c].exts) /\ ~MalformedSAN(c, FALSE)
  BY DEF Obstructed, Aborts
<1>3. Top.depth < MaxDepth
  <2>1. Len(stack) < Len(p)
    BY LoopExcludes
  <2>2. Len(p) <= MaxDepth + 1
    BY DEF Through, Wanted
  <2>3. Top.depth = Len(stack) - 1 /\ Len(p) \in Nat /\ MaxDepth \in Nat
    BY <1>1, ThroughFacts
  <2>4. QED
    BY <1>1, <2>1, <2>2, <2>3
<1>4. dup = Ok /\ deep = Ok /\ san = Ok
  BY <1>2, <1>3, CheckOk, Kinds DEF Check
<1>5. Abort(c) = (dup && (IF ValidIssuer(req.policy, Content[c], Content[Top.cert], Top.depth) # Ok
                          THEN Ok ELSE (deep && san)))
  BY DEF Abort
<1> HIDE DEF dup, deep, san
<1>6. Abort(c) = Ok
  BY <1>4, <1>5, ThenOk
<1>7. QED
  BY <1>6

\* The frames around the innermost one when only that one is replaced
LEMMA TopNext ==
  ASSUME NEW s \in Seq(FrameType), s # << >>, NEW t, NEW nxt \in Nat \ {0},
         \/ t = [s EXCEPT ![Len(s)].next = nxt]
         \/ \E e : t = [[s EXCEPT ![Len(s)].next = nxt] EXCEPT ![Len(s)].last = e]
  PROVE  /\ \A j \in 1 .. Len(s) : j < Len(s) => t[j].next = s[j].next
         /\ t[Len(s)].next = nxt
<1> DEFINE n == Len(s)
           f == s[n]
<1>1. n \in Nat \ {0} /\ s = [j \in 1 .. n |-> s[j]] /\ n \in 1 .. n /\ n \in DOMAIN s /\ DOMAIN s = 1 .. n
  BY EmptySeq, LenProperties
<1>2. f \in FrameType
  BY <1>1, ElementOfSeq
<1>3. PICK g : g.next = nxt /\ t = [s EXCEPT ![n] = g]
  <2>1. CASE t = [s EXCEPT ![n].next = nxt]
    <3>1. [f EXCEPT !.next = nxt].next = nxt
      BY <1>2 DEF FrameType
    <3>2. t = [s EXCEPT ![n] = [f EXCEPT !.next = nxt]]
      BY <2>1
    <3>3. QED
      BY <3>1, <3>2
  <2>2. CASE \E e : t = [[s EXCEPT ![n].next = nxt] EXCEPT ![n].last = e]
    <3>1. PICK e : t = [[s EXCEPT ![n].next = nxt] EXCEPT ![n].last = e]
      BY <2>2
    <3>2. PICK g1 : g1 = [f EXCEPT !.next = nxt]
      OBVIOUS
    <3>3. g1.next = nxt /\ DOMAIN g1 = {"cert", "depth", "next", "last"}
      BY <1>2, <3>2 DEF FrameType
    <3>4. PICK u : u = [s EXCEPT ![n] = g1]
      OBVIOUS
    <3>5. u = [s EXCEPT ![n].next = nxt] /\ u[n] = g1
      BY <1>1, <3>2, <3>4
    <3>6. t = [u EXCEPT ![n] = [g1 EXCEPT !.last = e]]
      BY <3>1, <3>5
    <3>7. [g1 EXCEPT !.last = e].next = nxt
      BY <3>3
    <3>8. t = [s EXCEPT ![n] = [g1 EXCEPT !.last = e]]
      BY <1>1, <3>4, <3>6
    <3>9. QED
      BY <3>7, <3>8
  <2>3. QED
    BY <2>1, <2>2
<1>4. \A j \in DOMAIN s : t[j] = IF j = n THEN g ELSE s[j]
  BY <1>3
<1>5. n \in DOMAIN s /\ \A j \in 1 .. n : j < n => j \in DOMAIN s /\ j # n
  BY <1>1
<1>6. t[n] = g /\ \A j \in 1 .. n : j < n => t[j] = s[j]
  BY <1>4, <1>5
<1>7. QED
  BY <1>3, <1>6

\* The candidates before the next one are not issuers of a wanted path, and
\* neither is that one when the policy refuses it
LEMMA NextExcludes ==
  ASSUME SearchInv, CompleteInv, pc = "candidates", ~Obstructed(req),
         NEW i \in DOMAIN Pool(req), IsNext(i),
         NEW p, Through(p, Len(stack)), NEW k \in DOMAIN Pool(req), k < i
  PROVE  p[Len(stack) + 1] # Pool(req)[k]
<1>1. stack # << >> /\ Len(stack) \in Nat \ {0} /\ TypeOK
  BY TopTyped DEF SearchInv, TypeOK
<1>2. PICK n \in 1 .. Len(stack) : n = Len(stack)
  BY <1>1
<1>3. FrameTried(n) /\ TriedBefore(n) = Top.next /\ Len(stack) < Len(p) /\ Top.next \in Nat
  BY <1>1, <1>2, LoopExcludes DEF CompleteInv, TriedBefore, Top
<1>4. SUFFICES ASSUME p[Len(stack) + 1] = Pool(req)[k] PROVE FALSE
  OBVIOUS
<1>5. ~(k < Top.next)
  BY <1>2, <1>3, <1>4 DEF FrameTried
<1>6. Subject(Pool(req)[k]) = Issuer(Top.cert)
  BY <1>1, <1>3, <1>4, ThroughFacts
<1>7. k \in PotentialIssuers(req, Top.cert, Top.next) /\ k \in Nat /\ i \in Nat
  BY <1>1, <1>3, <1>5, <1>6, PoolTyped DEF PotentialIssuers, TypeOK
<1>8. QED
  BY <1>7 DEF IsNext

\* A candidate that the policy refuses is passed over
LEMMA SkipComplete ==
  ASSUME SearchInv, CompleteInv, pc = "candidates", pc' = "candidates", req' = req,
         NEW i \in DOMAIN Pool(req), IsNext(i), NEW e,
         ValidIssuer(req.policy, Content[Pool(req)[i]], Content[Top.cert], Top.depth) # Ok,
         stack' = [[stack EXCEPT ![Len(stack)].next = i + 1] EXCEPT ![Len(stack)].last = Result(e)],
         e \in Verdicts
  PROVE  CompleteInv'
<1>1. stack # << >> /\ Len(stack) \in Nat \ {0} /\ TypeOK /\ stack \in Seq(FrameType)
  BY TopTyped DEF SearchInv, TypeOK
<1>2. i \in Nat /\ i + 1 \in Nat \ {0} /\ DOMAIN Pool(req) \subseteq Nat
  BY <1>1, PoolTyped DEF TypeOK
<1>3. /\ \A j \in 1 .. Len(stack) : j < Len(stack) => stack'[j].next = stack[j].next
      /\ stack'[Len(stack)].next = i + 1
  BY <1>1, <1>2, TopNext
<1>4. Len(stack') = Len(stack) /\ \A j \in 1 .. Len(stack) : stack'[j].cert = stack[j].cert
  <2> DEFINE advanced == [stack EXCEPT ![Len(stack)].next = i + 1]
  <2>1. SameFrames(stack, advanced)
    BY <1>1, <1>2, NextUpdated
  <2>2. stack' = [advanced EXCEPT ![Len(stack)].last = Result(e)]
    OBVIOUS
  <2> HIDE DEF advanced
  <2>3. Len(advanced) = Len(stack) /\ advanced \in Seq(FrameType) /\ advanced # << >>
    BY <2>1 DEF SameFrames
  <2>4. SameFrames(advanced, stack')
    <3>1. SameFrames(advanced, [advanced EXCEPT ![Len(advanced)].last = Result(e)])
      BY <2>3, ResultTyped, LastUpdated
    <3>2. stack' = [advanced EXCEPT ![Len(advanced)].last = Result(e)]
      BY <2>2, <2>3
    <3>3. QED
      BY <3>1, <3>2
  <2>5. QED
    BY <2>1, <2>4 DEF SameFrames
<1>5. ~Obstructed(req) =>
        \A p : Through(p, Len(stack)) /\ Len(stack) < Len(p) =>
          \A k \in DOMAIN Pool(req) : k < stack'[Len(stack)].next => p[Len(stack) + 1] # Pool(req)[k]
  <2> SUFFICES ASSUME ~Obstructed(req), NEW p, Through(p, Len(stack)), Len(stack) < Len(p),
                      NEW k \in DOMAIN Pool(req), k < i + 1
               PROVE  p[Len(stack) + 1] # Pool(req)[k]
    BY <1>3
  <2>1. CASE k < i
    BY <2>1, NextExcludes
  <2>2. CASE k = i
    BY <1>1, <2>2, ThroughFacts
  <2>3. QED
    BY <1>2, <2>1, <2>2
<1>6. ~Obstructed(req) => ~InStore(req, Top.cert)
  BY <1>1, LoopNoAnchor
<1>7. QED
  BY <1>1, <1>3, <1>4, <1>5, <1>6, LoopComplete

\* A candidate becomes the working certificate of an inner call
LEMMA PushComplete ==
  ASSUME SearchInv, CompleteInv, pc = "candidates", pc' = "constraints", req' = req,
         NEW i \in DOMAIN Pool(req), IsNext(i), Top.depth < MaxDepth,
         stack' = Append([stack EXCEPT ![Len(stack)].next = i + 1], Frame(Pool(req)[i], Top.depth + 1))
  PROVE  CompleteInv'
<1>1. stack # << >> /\ TypeOK /\ stack \in Seq(FrameType) /\ Top \in FrameType
  BY TopTyped DEF SearchInv, TypeOK
<1>2. PICK n \in Nat \ {0} : n = Len(stack)
  BY <1>1, TopTyped
<1>3. i \in Nat /\ i + 1 \in Nat \ {0} /\ DOMAIN Pool(req) \subseteq Nat \ {0} /\ Pool(req)[i] \in Cert
  BY <1>1, PoolTyped DEF TypeOK
<1>4. /\ Len(stack') = n + 1
      /\ \A j \in 1 .. n : stack'[j].cert = stack[j].cert
      /\ \A j \in 1 .. n : j < n => stack'[j].next = stack[j].next
      /\ stack'[n].next = i + 1
      /\ stack'[n + 1] = Frame(Pool(req)[i], Top.depth + 1)
  <2> DEFINE advanced == [stack EXCEPT ![Len(stack)].next = i + 1]
             f == Frame(Pool(req)[i], Top.depth + 1)
  <2>1. SameFrames(stack, advanced)
    BY <1>1, <1>3, NextUpdated
  <2>2. /\ \A j \in 1 .. Len(stack) : j < Len(stack) => advanced[j].next = stack[j].next
        /\ advanced[Len(stack)].next = i + 1
    BY <1>1, <1>3, TopNext
  <2>3. f \in FrameType
    <3>1. Top.depth + 1 \in 0 .. MaxDepth
      BY <1>1, DepthBoundIsNat DEF FrameType
    <3>2. QED
      BY <1>3, <3>1, FrameTyped
  <2>4. stack' = Append(advanced, f)
    OBVIOUS
  <2>5. Len(advanced) = n /\ advanced \in Seq(FrameType)
    BY <1>2, <2>1 DEF SameFrames
  <2> HIDE DEF advanced, f
  <2>6. Len(stack') = n + 1 /\ (\A j \in 1 .. n : stack'[j] = advanced[j]) /\ stack'[n + 1] = f
    BY <1>2, <2>3, <2>4, <2>5, AppendProperties
  <2>7. n \in 1 .. n
    BY <1>2
  <2>8. QED
    BY <1>2, <2>1, <2>2, <2>6, <2>7 DEF SameFrames, f
<1>5. stack'[n + 1].cert = Pool(req)[i] /\ stack'[n + 1].next = 1
  BY <1>4 DEF Frame
<1>6. ASSUME NEW m \in 1 .. n + 1 PROVE FrameLinked(m)'
  <2>1. CASE m = n + 1
    <3>1. m - 1 = n /\ (i + 1) - 1 = i
      BY <1>2, <1>3, <2>1
    <3>2. stack'[m - 1].next - 1 = i /\ stack'[m].cert = Pool(req)[i]
      BY <1>4, <1>5, <2>1, <3>1
    <3>3. QED
      BY <3>2 DEF FrameLinked
  <2>2. CASE m \in 1 .. n
    <3>1. FrameLinked(m) /\ (m > 1 => m - 1 \in 1 .. n /\ m - 1 < n)
      BY <1>2, <2>2 DEF CompleteInv
    <3>2. stack'[m].cert = stack[m].cert /\ (m > 1 => stack'[m - 1].next = stack[m - 1].next)
      BY <1>4, <2>2, <3>1
    <3>3. QED
      BY <3>1, <3>2 DEF FrameLinked
  <2>3. QED
    BY <1>2, <2>1, <2>2
<1>7. ASSUME ~Obstructed(req), NEW m \in 1 .. n + 1 PROVE FrameTried(m)'
  <2>1. CASE m = n + 1
    <3>1. TriedBefore(m)' = 1
      BY <1>4, <1>5, <2>1 DEF TriedBefore
    <3>2. \A k \in DOMAIN Pool(req) : ~(k < 1)
      BY <1>3
    <3>3. ~(m < Len(stack'))
      BY <1>2, <1>4, <2>1
    <3>4. QED
      BY <3>1, <3>2, <3>3 DEF FrameTried
  <2>2. CASE m \in 1 .. n
    <3>1. \A p : Through(p, m)' <=> Through(p, m)
      <4>1. \A j \in 1 .. m : stack'[j].cert = stack[j].cert
        BY <1>2, <1>4, <2>2
      <4>2. QED
        BY <4>1, ThroughKept
    <3>2. FrameTried(m) /\ m < Len(stack') /\ stack'[m].cert = stack[m].cert
      BY <1>2, <1>4, <1>7, <2>2 DEF CompleteInv
    <3>3. TriedBefore(m)' = stack'[m].next - 1
      BY <3>2 DEF TriedBefore
    <3>4. CASE m < n
      <4>1. TriedBefore(m)' = TriedBefore(m)
        BY <1>2, <1>4, <2>2, <3>3, <3>4 DEF TriedBefore
      <4>2. QED
        BY <1>2, <3>1, <3>2, <3>4, <4>1 DEF FrameTried
    <3>5. CASE m = n
      <4>1. TriedBefore(m)' = i
        BY <1>3, <1>4, <3>3, <3>5
      <4>2. ~InStore(req, stack[m].cert)
        BY <1>1, <1>2, <1>7, <3>5, LoopNoAnchor DEF Top
      <4>3. \A p : Through(p, m) /\ m < Len(p) =>
              \A k \in DOMAIN Pool(req) : k < i => p[m + 1] # Pool(req)[k]
        BY <1>2, <1>7, <3>5, NextExcludes
      <4>4. QED
        BY <3>1, <3>2, <4>1, <4>2, <4>3 DEF FrameTried
    <3>6. QED
      BY <1>2, <2>2, <3>4, <3>5
  <2>3. QED
    BY <1>2, <2>1, <2>2
<1>8. PermitInv' /\ ErrorJustified'
  BY DEF PermitInv, ErrorJustified
<1>9. QED
  BY <1>4, <1>6, <1>7, <1>8 DEF CompleteInv

LEMMA TryCandidateComplete ==
  ASSUME SearchInv, CompleteInv, TryCandidate
  PROVE  CompleteInv'
<1>1. stack # << >> /\ TypeOK /\ pc = "candidates" /\ Top.depth \in Nat
  BY TopTyped DEF SearchInv, TryCandidate, TypeOK, FrameType
<1> DEFINE verdict(c) == ValidIssuer(req.policy, Content[c], Content[Top.cert], Top.depth)
           advanced(i) == [stack EXCEPT ![Len(stack)].next = i + 1]
<1>2. PICK i \in DOMAIN Pool(req) :
        /\ IsNext(i)
        /\ LET c == Pool(req)[i]
           IN  \/ Abort(c) # Ok /\ Return(Result(Abort(c)), << >>)
               \/ /\ verdict(c) # Ok
                  /\ stack' = [advanced(i) EXCEPT ![Len(stack)].last = Result(verdict(c))]
                  /\ UNCHANGED << req, pc >>
               \/ /\ Abort(c) = Ok /\ verdict(c) = Ok
                  /\ stack' = Append(advanced(i), Frame(c, Top.depth + 1))
                  /\ pc' = "constraints"
                  /\ UNCHANGED req
  BY DEF TryCandidate
<1> DEFINE c == Pool(req)[i]
<1>3. CASE Abort(c) # Ok /\ Return(Result(Abort(c)), << >>)
  BY <1>1, <1>3, AbortComplete, ReturnComplete
<1>4. CASE /\ verdict(c) # Ok /\ UNCHANGED << req, pc >>
           /\ stack' = [advanced(i) EXCEPT ![Len(stack)].last = Result(verdict(c))]
  <2>1. verdict(c) \in Verdicts
    BY <1>1, PoolTyped, VerdictsTyped DEF TypeOK
  <2>2. QED
    BY <1>1, <1>2, <1>4, <2>1, SkipComplete
<1>5. CASE /\ Abort(c) = Ok /\ verdict(c) = Ok /\ pc' = "constraints" /\ UNCHANGED req
           /\ stack' = Append(advanced(i), Frame(c, Top.depth + 1))
  <2>1. Top.depth < MaxDepth
    BY <1>1, <1>5, CandidateAccepted
  <2>2. QED
    BY <1>1, <1>2, <1>5, <2>1, PushComplete
<1>6. QED
  BY <1>2, <1>3, <1>4, <1>5

LEMMA ReturnedComplete ==
  ASSUME SearchInv, CompleteInv, Returned
  PROVE  CompleteInv'
<1>1. /\ stack # << >> /\ TypeOK /\ pc = "return" /\ stack \in Seq(FrameType)
      /\ result \in ResultType /\ Top \in FrameType
  BY TopTyped DEF SearchInv, Returned, TypeOK, ResultType
<1>2. PICK n \in Nat \ {0} : n = Len(stack) /\ n \in 1 .. Len(stack)
  BY <1>1, TopTyped
<1>3. CASE result.kind = Ok /\ Return(result, Append(chain, Top.cert))
  BY <1>1, <1>3, ReturnComplete
<1>4. CASE IsFatal(result) /\ Return(result, << >>)
  BY <1>1, <1>4, ReturnComplete DEF IsFatal
<1>5. CASE /\ result.kind # Ok /\ ~IsFatal(result) /\ pc' = "candidates" /\ UNCHANGED req
           /\ stack' = [stack EXCEPT ![Len(stack)].last = result]
  <2>1. SameFrames(stack, stack')
    BY <1>1, <1>5, LastUpdated
  <2>2. \A j \in 1 .. n : stack'[j].next = stack[j].next
    <3>1. stack' = [stack EXCEPT ![n] = [stack[n] EXCEPT !.last = result]] /\ stack[n] \in FrameType
      BY <1>1, <1>2, <1>5 DEF Top
    <3>2. [stack[n] EXCEPT !.last = result].next = stack[n].next
      BY <3>1 DEF FrameType
    <3>3. DOMAIN stack = 1 .. n
      BY <1>1, <1>2, LenProperties
    <3>4. \A j \in 1 .. n : stack'[j] = IF j = n THEN [stack[n] EXCEPT !.last = result] ELSE stack[j]
      BY <3>1, <3>3
    <3>5. QED
      BY <3>2, <3>4
  <2>3. ASSUME ~Obstructed(req), NEW p, Through(p, n), n < Len(p),
               NEW k \in DOMAIN Pool(req), k < stack[n].next
        PROVE  p[n + 1] # Pool(req)[k]
    <3>1. FrameTried(n) /\ ErrorJustified /\ TriedBefore(n) = stack[n].next - 1
      BY <1>1, <1>2, <2>3 DEF CompleteInv, TriedBefore
    <3>2. k \in Nat /\ stack[n].next \in Nat
      BY <1>1, <1>2, PoolTyped DEF TypeOK, FrameType, Top
    <3>3. CASE k < stack[n].next - 1
      BY <2>3, <3>1, <3>3 DEF FrameTried
    <3>4. CASE k = stack[n].next - 1
      <4>1. p[n + 1] # Pool(req)[Top.next - 1]
        BY <1>1, <1>2, <1>5, <2>3, <3>1 DEF ErrorJustified, IsFatal
      <4>2. QED
        BY <1>2, <3>4, <4>1 DEF Top
    <3>5. QED
      BY <2>3, <3>2, <3>3, <3>4
  <2>4. ~Obstructed(req) => ~InStore(req, Top.cert)
    BY <1>1, LoopNoAnchor
  <2>5. stack'[n].next = stack[n].next
    BY <1>2, <2>2
  <2>6. QED
    BY <1>1, <1>2, <1>5, <2>1, <2>2, <2>3, <2>4, <2>5, LoopComplete DEF SameFrames
<1>6. QED
  BY <1>3, <1>4, <1>5 DEF Returned

LEMMA FinishComplete ==
  ASSUME SearchInv, CompleteInv, Finish
  PROVE  CompleteInv'
<1>1. stack = << >> /\ stack' = << >> /\ Len(stack') = 0 /\ UNCHANGED << req, result >> /\ pc = "return"
      /\ pc' = "done"
  BY DEF Finish
<1>2. ErrorJustified => ErrorJustified'
  BY <1>1, WantedKept DEF ErrorJustified
<1>3. PermitInv'
  BY <1>1 DEF PermitInv
<1>4. QED
  BY <1>1, <1>2, <1>3 DEF CompleteInv

LEMMA StutterComplete ==
  ASSUME CompleteInv, UNCHANGED vars
  PROVE  CompleteInv'
BY DEF vars, CompleteInv, PermitInv, FrameLinked, ErrorJustified, FrameTried, TriedBefore, Through,
       Wanted, Names, Subtrees, Top

LEMMA CompleteInit == Init => CompleteInv
<1> SUFFICES ASSUME Init PROVE CompleteInv
  OBVIOUS
<1>1. pc = "build_chain" /\ stack = << >> /\ Len(stack) = 0
  BY DEF Init
<1>2. QED
  BY <1>1 DEF CompleteInv, PermitInv, ErrorJustified

LEMMA CompleteNext == SearchInv /\ CompleteInv /\ [Next]_vars => CompleteInv'
<1> SUFFICES ASSUME SearchInv, CompleteInv, [Next]_vars PROVE CompleteInv'
  OBVIOUS
<1>1. CASE BuildChain
  BY <1>1, BuildChainComplete
<1>2. CASE ParseConstraints
  BY <1>2, ParseConstraintsComplete
<1>3. CASE NextLevel \/ ConstraintsHold
  BY <1>3, NextLevelComplete
<1>4. CASE EvaluateOne
  BY <1>4, EvaluateOneComplete
<1>5. CASE EndOfSubtrees
  BY <1>5, EndOfSubtreesComplete
<1>6. CASE CheckAnchor
  BY <1>6, CheckAnchorComplete
<1>7. CASE TryCandidate
  BY <1>7, TryCandidateComplete
<1>8. CASE NoMoreCandidates
  BY <1>8, NoMoreCandidatesComplete
<1>9. CASE Returned
  BY <1>9, ReturnedComplete
<1>10. CASE Finish
  BY <1>10, FinishComplete
<1>11. CASE Done \/ UNCHANGED vars
  BY <1>11, StutterComplete DEF Done
<1>12. QED
  BY <1>1, <1>2, <1>3, <1>4, <1>5, <1>6, <1>7, <1>8, <1>9, <1>10, <1>11 DEF Next

-----------------------------------------------------------------------------
(* The search implements PathValidation                                    *)

\* A valid path is one over the certificates of the request
LEMMA ValidIsPath ==
  ASSUME NEW r \in Requests, NEW p \in Seq(Cert), ValidPath(r, p)
  PROVE  p \in PathsOf(r)
<1> DEFINE d == r.policy.max_chain_depth
<1>1. d \in Nat /\ Len(p) \in 1 .. d + 2 /\ p[1] = r.leaf /\ r.leaf \in Cert
  BY RequestAssumption DEF ValidPath
<1>2. PICK n \in 0 .. d + 1 : Len(p) = n + 1
  <2>1. Len(p) - 1 \in 0 .. d + 1 /\ Len(p) = (Len(p) - 1) + 1
    BY <1>1
  <2>2. QED
    BY <2>1
<1>3. \A i \in 1 .. n : p[i + 1] \in ToSet(Pool(r))
  <2> SUFFICES ASSUME NEW i \in 1 .. n PROVE p[i + 1] \in ToSet(Pool(r))
    OBVIOUS
  <2>1. i + 1 \in 1 .. Len(p) /\ i + 1 > 1
    BY <1>1, <1>2
  <2>2. PermittedAt(r, p, i + 1)
    BY <2>1 DEF ValidPath
  <2>3. \E k \in DOMAIN Pool(r) : Pool(r)[k] = p[i + 1]
    BY <2>1, <2>2 DEF PermittedAt
  <2>4. QED
    BY <2>3 DEF ToSet
<1> DEFINE q == [i \in 1 .. n |-> p[i + 1]]
<1>4. q \in [1 .. n -> ToSet(Pool(r))]
  BY <1>3
<1>5. p = << r.leaf >> \o q
  <2>1. q \in Seq(Cert) /\ Len(q) = n
    <3>1. \A i \in 1 .. n : p[i + 1] \in Cert
      <4>1. \A i \in 1 .. n : i + 1 \in 1 .. Len(p)
        BY <1>2
      <4>2. QED
        BY <4>1, ElementOfSeq
    <3>2. QED
      BY <3>1, <1>2
  <2>2. << r.leaf >> \in Seq(Cert) /\ Len(<< r.leaf >>) = 1 /\ << r.leaf >>[1] = r.leaf
    BY <1>1
  <2>3. PICK h : h = << r.leaf >>
    OBVIOUS
  <2>4. h \in Seq(Cert) /\ Len(h) = 1 /\ h[1] = r.leaf
    BY <2>2, <2>3
  <2>5. \A i \in 1 .. n : q[i] = p[i + 1]
    OBVIOUS
  <2> HIDE DEF q
  <2>6. /\ h \o q \in Seq(Cert) /\ Len(h \o q) = 1 + n
        /\ \A i \in 1 .. 1 + n : (h \o q)[i] = IF i <= 1 THEN h[i] ELSE q[i - 1]
    <3>1. /\ h \o q \in Seq(Cert) /\ Len(h \o q) = Len(h) + Len(q)
          /\ \A i \in 1 .. Len(h) + Len(q) : (h \o q)[i] = IF i <= Len(h) THEN h[i] ELSE q[i - Len(h)]
      BY <2>1, <2>4, ConcatProperties
    <3>2. Len(h) = 1 /\ Len(q) = n
      BY <2>1, <2>4
    <3>3. QED
      BY <3>1, <3>2
  <2>7. \A i \in 1 .. Len(p) : p[i] = (h \o q)[i]
    <3> SUFFICES ASSUME NEW i \in 1 .. n + 1 PROVE p[i] = (h \o q)[i]
      BY <1>2
    <3>1. CASE i = 1
      BY <1>1, <2>4, <2>6, <3>1
    <3>2. CASE i > 1
      <4>1. i - 1 \in 1 .. n /\ (i - 1) + 1 = i /\ ~(i <= 1) /\ i \in 1 .. 1 + n
        BY <1>2, <3>2
      <4>2. q[i - 1] = p[i]
        BY <2>5, <4>1
      <4>3. QED
        BY <2>6, <4>1, <4>2
    <3>3. QED
      <4>1. n \in Nat /\ (i = 1 \/ i > 1)
        BY <1>1, <1>2
      <4>2. QED
        BY <3>1, <3>2, <4>1
  <2>8. Len(p) = Len(h \o q)
    BY <1>2, <2>6
  <2>9. QED
    BY <2>3, <2>6, <2>7, <2>8, SeqEqual
<1> HIDE DEF q
<1>6. QED
  BY <1>2, <1>4, <1>5 DEF PathsOf

\* A step of the search answers the request, or leaves it pending or answered
LEMMA SearchStep ==
  ASSUME SearchInv, CompleteInv, SearchInv', CompleteInv', [Next]_vars
  PROVE  [PV!Next]_<< req, Outcome >>
<1>1. req' = req
  BY DEF Next, vars, BuildChain, ParseConstraints, NextLevel, ConstraintsHold, EvaluateOne,
         EndOfSubtrees, CheckAnchor, TryCandidate, NoMoreCandidates, Returned, Finish, Done, Return
<1>2. CASE pc = "done"
  <2>1. UNCHANGED vars
    BY <1>2 DEF Next, BuildChain, ParseConstraints, NextLevel, ConstraintsHold, EvaluateOne,
                EndOfSubtrees, CheckAnchor, TryCandidate, NoMoreCandidates, Returned, Finish, Done
  <2>2. Outcome' = Outcome
    BY <2>1 DEF vars, Outcome
  <2>3. QED
    BY <1>1, <2>2
<1>3. CASE pc # "done" /\ pc' # "done"
  BY <1>1, <1>3 DEF Outcome
<1>4. CASE pc # "done" /\ pc' = "done"
  <2>1. Outcome = PV!Pending
    BY <1>4 DEF Outcome, PV!Pending
  <2>2. CASE result'.kind = Ok
    <3>1. Outcome' = [status |-> "accepted", path |-> chain']
      BY <1>4, <2>2 DEF Outcome
    <3>2. ValidPath(req, chain')
      BY <1>1, <1>4, <2>2 DEF SearchInv, Soundness
    <3>3. chain' \in PathsOf(req)
      BY <1>1, <3>2, ValidIsPath DEF SearchInv, TypeOK
    <3>4. PV!Accept
      BY <1>1, <2>1, <3>1, <3>2, <3>3 DEF PV!Accept
    <3>5. QED
      BY <3>4 DEF PV!Next
  <2>3. CASE result'.kind = "FatalError"
    <3>1. Outcome' = [status |-> "gave up", path |-> << >>]
      BY <1>4, <2>3 DEF Outcome, Ok
    <3>2. QED
      BY <1>1, <2>1, <3>1 DEF PV!Next, PV!GiveUp
  <2>4. CASE result'.kind \notin {Ok, "FatalError"}
    <3>1. Outcome' = [status |-> "rejected", path |-> << >>]
      BY <1>4, <2>4 DEF Outcome
    <3>2. stack' = << >>
      BY <1>4 DEF SearchInv
    <3>3. Obstructed(req) \/ \A p : ~Wanted(p)'
      BY <1>1, <1>4, <2>4, <3>2 DEF CompleteInv, ErrorJustified
    <3>4. Obstructed(req) \/ ~Answerable(req)
      BY <1>1, <3>3 DEF Wanted, Answerable
    <3>5. QED
      BY <1>1, <2>1, <3>1, <3>4 DEF PV!Next, PV!Reject
  <2>5. QED
    BY <2>2, <2>3, <2>4
<1>5. QED
  BY <1>2, <1>3, <1>4

\* The search implements the safety part of PathValidation: the chain verify
\* returns is a valid path over the certificates it was given, and when it
\* rejects, without a candidate that cuts a branch short, there is no valid
\* path that its depth counter can count
THEOREM SearchImplements == Spec => PV!Safety
<1>1. Init => PV!Init
  BY DEF Init, PV!Init, PV!Pending, Outcome
<1>2. SearchInv /\ CompleteInv /\ [Next]_vars => SearchInv' /\ CompleteInv'
  BY SearchNext, CompleteNext
<1>3. SearchInv /\ CompleteInv /\ SearchInv' /\ CompleteInv' /\ [Next]_vars
        => [PV!Next]_<< req, Outcome >>
  BY SearchStep
<1>4. QED
  BY <1>1, <1>2, <1>3, SearchInit, CompleteInit, PTL DEF Spec, PV!Safety
=============================================================================
