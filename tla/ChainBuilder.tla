---------------------------- MODULE ChainBuilder ----------------------------
(***************************************************************************)
(* Path building (cryptography-x509-verification/src/lib.rs): a depth-     *)
(* first search from the leaf to a certificate of the trust store, with    *)
(* the name constraints of every certificate evaluated against the names   *)
(* of all the certificates below it, and a budget on those evaluations.    *)
(*                                                                         *)
(* The recursion of build_chain_inner is a stack of frames.  One step is   *)
(* one evaluate_single_constraint, one candidate issuer, or one return.    *)
(***************************************************************************)
EXTENDS Paths

CONSTANT CheckLimit    \* Budget::DEFAULT_NAME_CONSTRAINT_CHECK_LIMIT

ASSUME LimitAssumption == CheckLimit \in Nat

VARIABLES
  req,      \* the request being served
  pc,       \* where the innermost call of build_chain_inner is
  stack,    \* its frames, outermost (the leaf's) first
  cursor,   \* the loop variables of evaluate_constraints
  budget,   \* Budget.name_constraint_checks
  result,   \* what the last call returned
  chain     \* the chain in it when it is Ok, issuers first until "done"

vars == << req, pc, stack, cursor, budget, result, chain >>

-----------------------------------------------------------------------------
(* The search                                                              *)

\* A result: Ok, or the kind of a ValidationError and, for one of the kind
\* CandidatesExhausted, the kind of the error in its box
Result(kind) == [kind |-> kind, boxed |-> Ok]

\* The CandidatesExhausted error a frame ends with, from its last_err (Ok
\* stands for None): a nested one is replaced by what it boxes

Exhausted(last) ==
  [ kind  |-> "CandidatesExhausted",
    boxed |-> CASE last.kind = Ok                    -> "Other"
                [] last.kind = "CandidatesExhausted" -> last.boxed
                [] OTHER                             -> last.kind ]

\* One call of build_chain_inner: the working certificate, its depth, the
\* position in the pool its loop has reached, and last_err
Frame_RFC5280(c, d) ==   \* mutant: only what is not self-issued counts
  [cert |-> c, depth |-> IF d > 0 /\ SelfIssued(c) THEN d - 1 ELSE d, next |-> 1, last |-> Result(Ok)]

Frame(c, d) == [cert |-> c, depth |-> d, next |-> 1, last |-> Result(Ok)]
Top == stack[Len(stack)]

CursorAt(lvl, san) == [lvl |-> lvl, san |-> san, side |-> "permitted", k |-> 1, permit |-> TRUE]
ExcludedAt(lvl, san) == [CursorAt(lvl, san) EXCEPT !.side = "excluded"]

Init ==
  /\ req \in Requests
  /\ pc = "build_chain"
  /\ stack = << >>
  /\ cursor = CursorAt(1, 1)
  /\ budget = CheckLimit
  /\ result = Result(Ok)
  /\ chain = << >>

\* build_chain_inner returns: the caller's frame becomes the innermost one
Return(v, ch) ==
  /\ stack' = Front(stack)
  /\ pc' = "return"
  /\ result' = v
  /\ chain' = ch
  /\ UNCHANGED req

\* build_chain: the leaf is refused, or the search starts from it
LeafVerdict ==
     Check(~HasDuplicates(Content[req.leaf].exts), "ExtensionError")
  && PermitsEE(req.policy, Content[req.leaf])
  && Check(~MalformedSAN(req.leaf, TRUE), "Malformed")

BuildChain ==
  /\ pc = "build_chain"
  /\ \/ /\ LeafVerdict # Ok
        /\ pc' = "done"
        /\ result' = Result(LeafVerdict)
        /\ UNCHANGED stack
     \/ /\ LeafVerdict = Ok
        /\ pc' = "constraints"
        /\ stack' = << Frame(req.leaf, 0) >>
        /\ UNCHANGED result
  /\ UNCHANGED << req, cursor, budget, chain >>

\* build_chain_inner starts: it parses the name constraints, if there are any
ParseConstraints ==
  /\ pc = "constraints"
  /\ \/ /\ ~Constrained(Top.cert)
        /\ pc' = "anchor"
        /\ UNCHANGED << req, stack, cursor, result, chain >>
     \/ /\ Constrained(Top.cert)
        /\ The(Ext(Top.cert, "name_constraints")).form # "malformed"
        /\ pc' = "evaluate"
        /\ cursor' = CursorAt(1, 1)
        /\ UNCHANGED << req, stack, result, chain >>
     \/ /\ Constrained(Top.cert)
        /\ The(Ext(Top.cert, "name_constraints")).form = "malformed"
        /\ Return(Result("Malformed"), << >>)
        /\ UNCHANGED cursor
  /\ UNCHANGED budget

-----------------------------------------------------------------------------
(* NameChain::evaluate_constraints, child (the leaf) first                 *)

Names_OwnOnly == SANs(Top.cert, Len(stack) = 1)   \* mutant: the child is not consulted

Names == SANs(stack[cursor.lvl].cert, cursor.lvl = 1)
Subtrees == IF cursor.side = "permitted" THEN Permitted(Top.cert) ELSE Excluded(Top.cert)

\* The loops over names are done, at this level or at all of them
NextLevel ==
  /\ pc = "evaluate"
  /\ cursor.lvl <= Len(stack) /\ cursor.san > Len(Names)
  /\ cursor' = CursorAt(cursor.lvl + 1, 1)
  /\ UNCHANGED << req, pc, stack, budget, result, chain >>

ConstraintsHold ==
  /\ pc = "evaluate"
  /\ cursor.lvl > Len(stack)
  /\ pc' = "anchor"
  /\ UNCHANGED << req, stack, cursor, budget, result, chain >>

\* Budget::name_constraint_check returns Ok

NameConstraintCheck == budget > 0 /\ budget' = budget - 1

\* One evaluate_single_constraint: the budget first, then the two names
EvaluateOne ==
  /\ pc = "evaluate"
  /\ cursor.lvl <= Len(stack) /\ cursor.san <= Len(Names) /\ cursor.k <= Len(Subtrees)
  /\ LET status == EvaluateSingleConstraint(Subtrees[cursor.k], Names[cursor.san])
     IN  \/ /\ budget = 0
            /\ Return(Result("FatalError"), << >>)
            /\ UNCHANGED << cursor, budget >>
         \/ /\ NameConstraintCheck
            /\ \/ status = Failed
               \/ status = Match /\ cursor.side = "excluded"
            /\ Return(Result("Other"), << >>)
            /\ UNCHANGED cursor
         \/ /\ NameConstraintCheck
            /\ status = Match /\ cursor.side = "permitted"   \* break
            /\ cursor' = ExcludedAt(cursor.lvl, cursor.san)
            /\ UNCHANGED << req, pc, stack, result, chain >>
         \/ /\ NameConstraintCheck
            /\ status \in {NoMatch, Skipped}
            /\ cursor' = [cursor EXCEPT !.k = @ + 1,
                            !.permit = @ /\ (status = Skipped \/ cursor.side = "excluded")]
            /\ UNCHANGED << req, pc, stack, result, chain >>

\* A list of subtrees is exhausted
EndOfSubtrees ==
  /\ pc = "evaluate"
  /\ cursor.lvl <= Len(stack) /\ cursor.san <= Len(Names) /\ cursor.k > Len(Subtrees)
  /\ \/ /\ cursor.side = "permitted" /\ ~cursor.permit
        /\ Return(Result("Other"), << >>)
        /\ UNCHANGED cursor
     \/ /\ cursor.side = "permitted" /\ cursor.permit
        /\ cursor' = ExcludedAt(cursor.lvl, cursor.san)
        /\ UNCHANGED << req, pc, stack, result, chain >>
     \/ /\ cursor.side = "excluded"
        /\ cursor' = CursorAt(cursor.lvl, cursor.san + 1)
        /\ UNCHANGED << req, pc, stack, result, chain >>
  /\ UNCHANGED budget

-----------------------------------------------------------------------------
(* The rest of build_chain_inner                                           *)

\* The working certificate is a trust anchor, or too deep, or needs an issuer

TooDeep == Top.depth > req.policy.max_chain_depth

CheckAnchor ==
  /\ pc = "anchor"
  /\ \/ /\ InStore(req, Top.cert)
        /\ Return(Result(Ok), << Top.cert >>)
     \/ /\ ~InStore(req, Top.cert)
        /\ TooDeep
        /\ Return(Result("Other"), << >>)
     \/ /\ ~InStore(req, Top.cert)
        /\ ~TooDeep
        /\ pc' = "candidates"
        /\ UNCHANGED << req, stack, result, chain >>
  /\ UNCHANGED << cursor, budget >>

IsNext(i) ==
  /\ i \in PotentialIssuers(req, Top.cert, Top.next)
  /\ \A j \in PotentialIssuers(req, Top.cert, Top.next) : i <= j

\* What makes "?" leave the loop over the candidates, in the order of the code
Abort_Wrapping(c) ==   \* mutant: the depth is added to without a check
     Check(~HasDuplicates(Content[c].exts), "ExtensionError")
  && (IF ValidIssuer(req.policy, Content[c], Content[Top.cert], Top.depth) # Ok THEN Ok
      ELSE Check(~MalformedSAN(c, FALSE), "Malformed"))

Abort(c) ==
     Check(~HasDuplicates(Content[c].exts), "ExtensionError")
  && (IF ValidIssuer(req.policy, Content[c], Content[Top.cert], Top.depth) # Ok THEN Ok
      ELSE    Check(Top.depth < MaxDepth, "Other")
           && Check(~MalformedSAN(c, FALSE), "Malformed"))

TryCandidate ==
  /\ pc = "candidates"
  /\ \E i \in DOMAIN Pool(req) :
       /\ IsNext(i)
       /\ LET c == Pool(req)[i]
              verdict == ValidIssuer(req.policy, Content[c], Content[Top.cert], Top.depth)
              advanced == [stack EXCEPT ![Len(stack)].next = i + 1]
          IN  \/ /\ Abort(c) # Ok
                 /\ Return(Result(Abort(c)), << >>)
              \/ /\ Abort(c) = Ok
                 /\ verdict # Ok
                 /\ stack' = [advanced EXCEPT ![Len(stack)].last = Result(verdict)]
                 /\ UNCHANGED << req, pc, result, chain >>
              \/ /\ Abort(c) = Ok
                 /\ verdict = Ok
                 /\ stack' = Append(advanced, Frame(c, Top.depth + 1))
                 /\ pc' = "constraints"
                 /\ UNCHANGED << req, result, chain >>
  /\ UNCHANGED << cursor, budget >>

NoMoreCandidates ==
  /\ pc = "candidates"
  /\ PotentialIssuers(req, Top.cert, Top.next) = {}
  /\ Return(Exhausted(Top.last), << >>)
  /\ UNCHANGED << cursor, budget >>

\* The errors that end the search
IsFatal_None(e) == FALSE   \* mutant

IsFatal_Exhausted(e) == e.kind \in {"FatalError", "CandidatesExhausted"}   \* mutant: no backtracking

IsFatal(e) == e.kind = "FatalError"

\* A call returned to the loop over the candidates of its caller
Returned ==
  /\ pc = "return"
  /\ stack # << >>
  /\ \/ /\ result.kind = Ok
        /\ Return(result, Append(chain, Top.cert))
     \/ /\ result.kind # Ok /\ IsFatal(result)
        /\ Return(result, << >>)
     \/ /\ result.kind # Ok /\ ~IsFatal(result)
        /\ stack' = [stack EXCEPT ![Len(stack)].last = result]
        /\ pc' = "candidates"
        /\ UNCHANGED << req, result, chain >>
  /\ UNCHANGED << cursor, budget >>

\* The outermost call returned to build_chain, which reverses the chain
Finish ==
  /\ pc = "return"
  /\ stack = << >>
  /\ pc' = "done"
  /\ chain' = Reverse(chain)
  /\ UNCHANGED << req, stack, cursor, budget, result >>

Done == pc = "done" /\ UNCHANGED vars

Next ==
  \/ BuildChain \/ ParseConstraints
  \/ NextLevel \/ ConstraintsHold \/ EvaluateOne \/ EndOfSubtrees
  \/ CheckAnchor \/ TryCandidate \/ NoMoreCandidates
  \/ Returned \/ Finish \/ Done

Spec == Init /\ [][Next]_vars /\ WF_vars(Next)

-----------------------------------------------------------------------------
(* Properties                                                              *)

FrameType ==
  [cert : Cert, depth : 0 .. MaxDepth, next : Nat \ {0}, last : [kind : Verdicts, boxed : Verdicts]]

CursorType ==
  [lvl : Nat \ {0}, san : Nat \ {0}, side : {"permitted", "excluded"},
   k : Nat \ {0}, permit : BOOLEAN]

\* The type invariant: an inner call is made with a depth that fits its u8
TypeOK ==
  /\ req \in Requests
  /\ pc \in {"build_chain", "constraints", "evaluate", "anchor", "candidates", "return", "done"}
  /\ stack \in Seq(FrameType)
  /\ pc \in {"constraints", "evaluate", "anchor", "candidates"} => stack # << >>
  /\ cursor \in CursorType
  /\ budget \in 0 .. CheckLimit
  /\ result \in [kind : Verdicts, boxed : Verdicts]
  /\ chain \in Seq(Cert)

\* A chain verify returns is a valid path for the request: every link is
\* signed and permitted at its depth, no name of the chain is outside the name
\* constraints of a certificate above it, and the last one is a trust anchor
Soundness == pc = "done" /\ result.kind = Ok => ValidPath(req, chain)

\* The recursion is bounded by the policy, whatever cycles of cross-signed or
\* self-signed certificates the intermediates contain
DepthBounded == Len(stack) <= req.policy.max_chain_depth + 2

\* "A CA with an empty subject cannot occur in a built chain": permits_ca does
\* not check the subject, because permits_basic refused an empty issuer below
NoEmptySubject == \A i \in 2 .. Len(stack) : Subject(stack[i].cert) # "empty"

\* Once the budget is exhausted nothing more is tried: every call on the stack
\* returns the fatal error
FatalIsFinal ==
  [][result.kind = "FatalError" =>
       result' = result /\ budget' = 0 /\ Len(stack') <= Len(stack)]_vars

\* The search implements the abstract specification
Outcome ==
  IF pc # "done" THEN [status |-> "pending", path |-> << >>]
  ELSE IF result.kind = Ok THEN [status |-> "accepted", path |-> chain]
  ELSE [status |-> IF result.kind = "FatalError" THEN "gave up" ELSE "rejected", path |-> << >>]

PV == INSTANCE PathValidation WITH request <- req, outcome <- Outcome

\* verify returns a valid path, rejects only when there is none (or a
\* candidate cuts a branch short), or says that the work limit was reached;
\* and it does one of them
ImplementsPathValidation == PV!Spec
=============================================================================
