-------------------------- MODULE SupervisorJournal -------------------------
(***************************************************************************)
(* What a restarted supervisor makes of its journal                        *)
(* (lib/aib_supervisor.py, restore).  restore() is a left fold over the    *)
(* records, so the journal is kept as the value of that fold: one operator *)
(* per record that the fold reads, applied when the record is appended.    *)
(* Records the fold skips (session.rotated for a reason other than fresh,  *)
(* session.rebound, turn.attempt, alarms, ticks) leave the value alone.    *)
(***************************************************************************)
EXTENDS Naturals

CONSTANTS
    Msgs,       \* messages that others send to the agent
    Note,       \* the one open kind:handover message the agent sends to itself
    Sids,       \* provider session ids
    Burst,      \* restart_burst: provider failures in a row that trip the brake
    MaxReqs,    \* bound: control requests
    None        \* no session, no message

\* The ids of inbox messages.  A control routine and a handover turn that the
\* supervisor makes up have ids of their own; what is counted under those is
\* kept with the work item, since no later process meets the id again.
Ids == Msgs \cup {Note}

Zero == [i \in Ids |-> 0]

\* The state restore() computes and the running supervisor keeps: the bound
\* session, whether its first turn is still to start, the turns it has had,
\* the brake, the counts per message and whether the agent is off duty.
Counters == [sid : Sids \cup {None}, fresh : BOOLEAN, turns : Nat,
             brake : Nat, tripped : BOOLEAN, fails : [Ids -> Nat],
             losses : [Ids -> Nat], streak : Nat, off : BOOLEAN]

Unset == [sid |-> None, fresh |-> FALSE, turns |-> 0, brake |-> 0,
          tripped |-> FALSE, fails |-> Zero, losses |-> Zero,
          streak |-> 0, off |-> FALSE]

\* The journal: the fold's counters, the session of a turn.started that no
\* turn.ended follows, the consumed control requests, and how many
\* message.engine_error records each message has.
Journals == [c : Counters, open : Sids \cup {None},
             consumed : SUBSET (1 .. MaxReqs), errs : [Ids -> Nat]]

EmptyJournal == [c |-> Unset, open |-> None, consumed |-> {}, errs |-> Zero]

NoSession(c) == [c EXCEPT !.sid = None, !.fresh = FALSE, !.turns = 0]

\* Set a per-message count; a synthetic id has none.
Put(counts, id, n) == IF id \in Ids THEN [counts EXCEPT ![id] = n] ELSE counts

\* session.bound
SessionBound(j, s) ==
    [j EXCEPT !.c = [@ EXCEPT !.sid = s, !.fresh = TRUE, !.turns = 0]]

\* turn.started: the session has had its first turn.
TurnStarted(j, s) ==
    [j EXCEPT !.open = s,
              !.c.fresh = IF s = j.c.sid THEN FALSE ELSE @]

\* turn.ended carries the brake after the turn.
TurnEnded(j, class, id, s, brake, tripped) ==
    LET c == [j.c EXCEPT !.brake = brake, !.tripped = @ \/ tripped] IN
    [j EXCEPT
        !.open = None,
        !.c = CASE class = "provider_failure" /\ id \in Ids ->
                     [c EXCEPT !.fails[id] = @ + 1]
                [] class = "session_lost" /\ id \in Ids ->
                     [c EXCEPT !.losses[id] = @ + 1]
                [] class = "ok" ->
                     [c EXCEPT !.turns = IF s = c.sid THEN @ + 1 ELSE @,
                               !.fails = Put(@, id, 0),
                               !.losses = Put(@, id, 0)]
                [] OTHER -> c]

\* session.persistence_failed
PersistenceFailed(j, id, s, streak) ==
    LET c == [j.c EXCEPT !.streak = streak,
                         !.fails = Put(@, id, 0), !.losses = Put(@, id, 0)] IN
    [j EXCEPT !.c = IF s = c.sid THEN NoSession(c) ELSE c]

\* session.persistence_restored
PersistenceRestored(j) == [j EXCEPT !.c.streak = 0]

\* brake.reset
BrakeReset(c) == [c EXCEPT !.brake = 0, !.tripped = FALSE, !.fails = Zero,
                           !.losses = Zero, !.streak = 0]

\* session.rotated with reason fresh
RotatedFresh(j) == [j EXCEPT !.c = NoSession(@)]

\* duty.off and duty.on
Duty(j, off) == [j EXCEPT !.c.off = off]

\* ctl.consumed
Consumed(j, r) == [j EXCEPT !.consumed = @ \cup {r}]

\* message.engine_error is not folded; it is counted in the records.
EngineError(j, id) == [j EXCEPT !.errs = Put(@, id, IF id \in Ids THEN @[id] + 1 ELSE 0)]

\* A handover note under an id that never was: no counts.
NewNote(c) == [c EXCEPT !.fails[Note] = 0, !.losses[Note] = 0]

\* What restore() leaves in memory.
Restored(j) == [j.c EXCEPT !.tripped = @ \/ j.c.brake >= Burst]
=============================================================================
