---------------------------- MODULE MCEventStream ---------------------------
(***************************************************************************)
(* Instances of EventStream for TLC.                                       *)
(***************************************************************************)
EXTENDS EventStream, TLC

CONSTANTS w1, w2

Decided(anchored) == [type |-> "attempt.decided", of |-> 0, anchored |-> anchored]
Ended(of, anchored) == [type |-> "attempt.ended", of |-> of, anchored |-> anchored]
Reanchor == [type |-> "reanchor", of |-> 0, anchored |-> TRUE]

\* Anchored and plain commits on one stream, callers that race to end
\* attempts 1 and 2, and an operator who reanchors.
CommitRequests == {Decided(TRUE), Decided(FALSE), Ended(1, TRUE), Ended(2, FALSE), Reanchor}

\* The broker and an operator who repairs the anchor.
RepairRequests == {Decided(TRUE), Ended(1, TRUE), Reanchor}

Swap == Permutations(Writers)
=============================================================================
