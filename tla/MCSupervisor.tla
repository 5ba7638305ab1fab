---------------------------- MODULE MCSupervisor ----------------------------
(***************************************************************************)
(* Instances of Supervisor for TLC.                                        *)
(***************************************************************************)
EXTENDS Supervisor, TLC

CONSTANTS m1, m2

\* A message of the agent to itself, as for the continuation of a task, and one
\* of a human.
OwnLane == (m1 :> 0) @@ (m2 :> 1)

\* A message of a human and one of another agent.
TwoLanes == (m1 :> 1) @@ (m2 :> 3)
OneLane == (m1 :> 3)

Verb(v) == [verb |-> v, fresh |-> FALSE, force |-> FALSE, refused |-> FALSE]

AllVerbs == {[Verb("neustart") EXCEPT !.force = TRUE],
             [Verb("neustart") EXCEPT !.fresh = TRUE],
             [Verb("neustart") EXCEPT !.refused = TRUE],
             [Verb("abschalten") EXCEPT !.force = TRUE],
             Verb("reset-brake"), Verb("feierabend"), Verb("standup")}

NoVerbs == {}
=============================================================================
