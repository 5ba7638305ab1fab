------------------------------- MODULE MCBroker -------------------------------
(***************************************************************************)
(* Instances of Broker for TLC.                                            *)
(***************************************************************************)
EXTENDS Broker, TLC

CONSTANTS turn, again, ask

Launch == [op |-> "launch", agent |-> "a", class |-> "sup"]
Ask == [op |-> "leases", agent |-> "a", class |-> "sup"]

\* A supervised turn, the question of the supervisor that starts again, and
\* the turn it launches next.
MCConns == {turn, again, ask}
MCRequests == turn :> Launch @@ again :> Launch @@ ask :> Ask
=============================================================================
