--------------------------- MODULE PathValidation ---------------------------
(***************************************************************************)
(* What verify promises, without saying how it searches: the answer to a   *)
(* request is a path that is valid for it, a rejection that is justified   *)
(* because no valid path exists, or an explicit admission that the work    *)
(* limit was reached.                                                      *)
(***************************************************************************)
EXTENDS Sequences

CONSTANTS
  Requests,             \* the calls of verify
  PathsOf(_),           \* the paths over the certificates of a request
  ValidPath(_, _),      \* whether a path answers a request
  Answerable(_),        \* whether the search has to find a path
  Obstructed(_)         \* whether the search may give up a branch early

VARIABLES request, outcome

Pending == [status |-> "pending", path |-> << >>]

Init == request \in Requests /\ outcome = Pending

Accept ==
  /\ outcome = Pending
  /\ outcome' = [status |-> "accepted", path |-> outcome'.path]
  /\ outcome'.path \in PathsOf(request)
  /\ ValidPath(request, outcome'.path)
  /\ UNCHANGED request

Reject ==
  /\ outcome = Pending
  /\ outcome' = [status |-> "rejected", path |-> << >>]
  /\ Obstructed(request) \/ ~Answerable(request)
  /\ UNCHANGED request

GiveUp ==
  /\ outcome = Pending
  /\ outcome' = [status |-> "gave up", path |-> << >>]
  /\ UNCHANGED request

Next == Accept \/ Reject \/ GiveUp

\* What an answer may be, and that there is one
Safety == Init /\ [][Next]_<< request, outcome >>

Spec == Safety /\ <>(outcome # Pending)
=============================================================================
