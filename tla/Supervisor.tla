----------------------------- MODULE Supervisor -----------------------------
(***************************************************************************)
(* The supervisor of one agent (lib/aib_supervisor.py): it takes messages  *)
(* from the agent's inbox, runs one provider turn at a time for them,      *)
(* keeps the provider session, counts failures against a brake, obeys      *)
(* control requests, and is killed and restarted between any two durable   *)
(* steps.  A handler is a list of such steps (todo), each one an action:   *)
(*                                                                         *)
(*   poll -> bind -> start -> launch ... finish -> what the result asks    *)
(*   control request -> cancel -> its effect                               *)
(*   start-up -> rebinding -> boot -> wait for an orphaned turn            *)
(*                                                                         *)
(* What belongs to a task message (worktree, intents, reports) is not part *)
(* of this module; every message here is an ordinary one.  Timers are left *)
(* out: a retry may come at any time after the handler that asks for it.   *)
(***************************************************************************)
EXTENDS SupervisorJournal, Sequences

CONSTANTS
    Lane,       \* choose_message's lane of each message; 0: the agent's own, as the note's
    MaxTurns,   \* session_max_turns
    Verbs,      \* the control requests that may be filed
    Faults,     \* the kinds of fault that may happen
    MaxFaults   \* bound: how many happen

\* A request file with its audit record: refused stands for unaudited,
\* unauthorised, protected or an unknown verb.
Requests == [verb : {"reset-brake", "neustart", "feierabend", "standup", "abschalten"},
             fresh : BOOLEAN, force : BOOLEAN, refused : BOOLEAN]

ASSUME SupervisorAssumption ==
    /\ Burst \in Nat \ {0}
    /\ MaxTurns \in Nat \ {0}
    /\ MaxReqs \in Nat
    /\ MaxFaults \in Nat
    /\ Lane \in [Msgs -> 0 .. 3]
    /\ Verbs \subseteq Requests
    /\ Note \notin Msgs
    /\ None \notin Ids \cup Sids

VARIABLES
    phase,      \* the process: down, boot, orphaned, run; off when stopped on purpose
    mem,        \* its counters
    disk,       \* its journal
    work,       \* self.work, the current item first, what it postpones behind it
    todo,       \* the durable steps the running handler still has to take
    cur,        \* the control request process_controls is executing, or 0
    child,      \* the launcher process and the session it was given
    orphans,    \* sessions with a provider turn that no supervisor waits for
    known,      \* sessions the provider can resume
    inbox,      \* the state of each message; NOTIFIED counts as PERSISTED
    order,      \* the pairs of messages of which the first is listed before the second
    ctl,        \* the request files
    moved,      \* whether the bound session's cwd is not the registry's any more
    faults,     \* how many faults happened
    used,       \* history: sessions launched as new:
    acted,      \* history: requests whose effect has begun
    owed,       \* history: a session was replaced and no handover turn began since
    strikes     \* history: provider failures since the brake was last released

vars == <<phase, mem, disk, work, todo, cur, child, orphans, known, inbox, order,
          ctl, moved, faults, used, acted, owed, strikes>>

Phases == {"down", "boot", "orphaned", "run", "off"}

\* A unit of work: a message, a control routine, the handover turn before a
\* session with enough turns is rotated, or the one after a control routine
\* lost its session.  lost and errs are the counts of a synthetic id.
Item(kind, id, r) == [kind |-> kind, id |-> id, req |-> r, lost |-> 0, errs |-> 0]

Kinds == {"msg", "ctl", "rotate", "rehand"}
Items == [kind : Kinds, id : Ids \cup {None}, req : 0 .. MaxReqs, lost : 0 .. 1, errs : Nat]

\* What the launcher's exit says: 0 with output; 75, 78, 69 or no output;
\* "already in use" to new:; "no conversation found" to a resume; the rest.
Results == {"ok", "infra", "in_use", "lost", "failure"}

Children == [sid : Sids \cup {None}, arg : {"none", "new", "resume"},
             st : {"none", "prepared", "running"} \cup Results]

NoChild == [sid |-> None, arg |-> "none", st |-> "none"]

Process == child.st \notin {"none", "prepared"}
Exited == child.st \in Results

Steps == {"bind", "rebind", "start", "launch", "finish", "note", "drop", "restored", "off",
          "done", "persist", "fail", "engine", "boot", "cancel", "clear", "fresh",
          "restart", "routine", "duty", "stop"}

Init ==
    /\ phase = "down"
    /\ mem = Unset
    /\ disk = EmptyJournal
    /\ work = <<>> /\ todo = <<>> /\ cur = 0
    /\ child = NoChild
    /\ orphans = {} /\ known = {}
    /\ inbox = [i \in Ids |-> "absent"] /\ order = {}
    /\ ctl = <<>>
    /\ moved = FALSE
    /\ faults = 0
    /\ used = {} /\ acted = {} /\ owed = FALSE /\ strikes = 0

\* Abbreviations for the frame of an action.
history == <<used, acted, owed, strikes>>
outside == <<orphans, known, order, ctl, moved>>

Fault(kind) == kind \in Faults /\ faults < MaxFaults /\ faults' = faults + 1

At(step) == todo # <<>> /\ Head(todo) = step
Rest == IF todo = <<>> THEN <<>> ELSE Tail(todo)

\* The handler goes on with these steps and then with what it had left.
Then(steps) ==
    /\ todo' = steps \o Rest
    /\ cur' = IF steps \o Rest = <<>> THEN 0 ELSE cur

(***************************************************************************)
(* The inbox and the launch of a turn.                                     *)
(***************************************************************************)
Open(i) == inbox[i] \in {"PERSISTED", "SEEN"}

\* A message that is sent is listed after those that are open.
Listed(k) == {i \in Ids : Open(i)} \X {k}

\* lane(): what the agent sent to itself first, the note and the messages of
\* its tasks alike; then by lane, then as listed.
LaneOf(i) == IF i = Note THEN 0 ELSE Lane[i]

Precedes(i, k) ==
    \/ LaneOf(i) < LaneOf(k)
    \/ LaneOf(i) = LaneOf(k) /\ <<i, k>> \in order

\* Mutant of choose_message: a message that is SEEN is not offered again.
choose_message_Unseen(i) ==
    inbox[i] = "PERSISTED" /\ ~ \E k \in Ids : inbox[k] = "PERSISTED" /\ Precedes(k, i)

choose_message(i) == Open(i) /\ ~ \E k \in Ids : Open(k) /\ Precedes(k, i)

\* Mutant of StartSteps: no session is bound.
StartSteps_Unbound == <<"start", "launch">>

\* start_turn up to the launch; a supervisor without a session binds one.
StartSteps == (IF mem.sid = None THEN <<"bind">> ELSE <<>>) \o <<"start", "launch">>

\* begin_policy_handover wraps whatever the work is.
PolicyHandover(w) ==
    IF mem.sid # None /\ mem.turns >= MaxTurns
    THEN <<Item("rotate", None, 0)>> \o w
    ELSE w

Idle == phase = "run" /\ todo = <<>> /\ child.st = "none"

\* Mutant of MayPoll: a retry ignores the brake.
MayPoll_Retries == Idle /\ ~mem.off /\ (work = <<>> => ~mem.tripped)

MayPoll == Idle /\ ~mem.off /\ ~mem.tripped

\* The main loop takes up a message: marks it seen and starts a turn.
PollMessage(i) ==
    /\ MayPoll /\ work = <<>>
    /\ choose_message(i)
    /\ inbox' = [inbox EXCEPT ![i] = "SEEN"]
    /\ work' = PolicyHandover(<<Item("msg", i, 0)>>)
    /\ todo' = StartSteps
    /\ UNCHANGED <<phase, mem, disk, cur, child, outside, faults, history>>

\* The main loop starts a turn for the work it still has.
PollRetry ==
    /\ MayPoll /\ work # <<>>
    /\ work' = PolicyHandover(work)
    /\ todo' = StartSteps
    /\ UNCHANGED <<phase, mem, disk, cur, child, outside, inbox, faults, history>>

InUse == ({mem.sid, disk.c.sid, disk.open, child.sid} \cup orphans) \ {None}

\* bind_session: a uuid that nothing names (bound: there is one left).
\* Sessions that nothing names any more are forgotten here, so that a few ids
\* serve a run of any length.
bind_session ==
    LET s == CHOOSE t \in Sids : t \notin InUse IN
    /\ At("bind") \/ At("rebind")
    /\ ~(Sids \subseteq InUse)
    /\ mem' = [mem EXCEPT !.sid = s, !.fresh = TRUE, !.turns = 0]
    /\ disk' = SessionBound(disk, s)
    /\ known' = known \cap InUse
    /\ used' = used \cap InUse
    /\ moved' = FALSE
    /\ owed' = (owed \/ At("rebind"))
    /\ Then(<<>>)
    /\ UNCHANGED <<phase, work, child, orphans, inbox, order, ctl, faults, acted, strikes>>

\* Mutant of start_turn: a session without a successful turn counts as new.
start_turn_ByTurns ==
    /\ At("start")
    /\ child' = [sid |-> mem.sid, arg |-> IF mem.turns = 0 THEN "new" ELSE "resume", st |-> "prepared"]
    /\ disk' = TurnStarted(disk, mem.sid)
    /\ mem' = [mem EXCEPT !.fresh = FALSE]
    /\ owed' = (owed /\ ~(Head(work).kind = "rehand" \/ Head(work).id = Note))
    /\ Then(<<>>)
    /\ UNCHANGED <<phase, work, outside, inbox, faults, used, acted, strikes>>

\* turn.started is in the journal before anything is launched.
start_turn ==
    /\ At("start")
    /\ child' = [sid |-> mem.sid, arg |-> IF mem.fresh THEN "new" ELSE "resume", st |-> "prepared"]
    /\ disk' = TurnStarted(disk, mem.sid)
    /\ mem' = [mem EXCEPT !.fresh = FALSE]
    /\ owed' = (owed /\ ~(Head(work).kind = "rehand" \/ Head(work).id = Note))
    /\ Then(<<>>)
    /\ UNCHANGED <<phase, work, outside, inbox, faults, used, acted, strikes>>

Launch ==
    /\ At("launch")
    /\ child' = [child EXCEPT !.st = "running"]
    /\ used' = IF child.arg = "new" THEN used \cup {child.sid} ELSE used
    /\ Then(<<>>)
    /\ UNCHANGED <<phase, mem, disk, work, outside, inbox, faults, acted, owed, strikes>>

\* Popen fails: the turn is finished on the spot with exit status 69.
LaunchFails ==
    /\ At("launch") /\ Fault("launch")
    /\ child' = [child EXCEPT !.st = "infra"]
    /\ Then(<<"finish">>)
    /\ UNCHANGED <<phase, mem, disk, work, outside, inbox, history>>

(***************************************************************************)
(* collect_turn and _finish_result.  Ends(class) is end_turn: turn.ended   *)
(* with the brake as it is after the turn.                                 *)
(***************************************************************************)
MessageFailures == 3    \* turns of one message that may fail
LossLimit == 2          \* losses of one message that mean persistence is gone
EngineErrors == 3       \* exceptions over one message

Finishing == Exited /\ (todo = <<>> \/ At("finish")) /\ phase = "run"

Current == Head(work)
LossesOf(it) == IF it.id \in Ids THEN mem.losses[it.id] ELSE it.lost
ErrsOf(it) == IF it.id \in Ids THEN disk.errs[it.id] ELSE it.errs

Ends(class, brake, tripped) ==
    /\ disk' = TurnEnded(disk, class, Current.id, mem.sid, brake, tripped)
    /\ child' = NoChild

\* The steps after a successful turn.
Success(it) ==
    CASE it.kind = "msg" -> <<"done">>
      [] it.kind = "ctl" /\ ctl[it.req].verb = "feierabend" -> <<"off">>
      [] it.kind = "ctl" /\ ctl[it.req].verb = "standup" -> <<"drop">>
      [] it.kind = "rotate" -> <<"bind">>
      [] it.kind = "rehand" -> <<>>

\* While persistence is in doubt only a successful resume releases the brake.
FinishOk ==
    LET healed == mem.streak > 0 /\ child.arg = "resume"
        release == healed \/ mem.streak = 0
        brake == IF release THEN 0 ELSE mem.brake
        tripped == ~release /\ mem.tripped
    IN
    /\ Finishing /\ child.st = "ok"
    /\ mem' = [mem EXCEPT !.brake = brake, !.tripped = tripped, !.turns = @ + 1,
                          !.streak = IF healed THEN 0 ELSE @]
    /\ Ends("ok", brake, tripped)
    /\ work' = IF Current.kind \in {"rotate", "rehand"} THEN Tail(work) ELSE work
    /\ strikes' = IF release THEN 0 ELSE strikes
    /\ Then((IF healed THEN <<"restored">> ELSE <<>>) \o Success(Current))
    /\ UNCHANGED <<phase, outside, inbox, faults, used, acted, owed>>

\* Nothing but a retry: the work is kept.
FinishRetry ==
    /\ Finishing /\ child.st \in {"infra", "in_use"}
    /\ Ends(child.st, mem.brake, mem.tripped)
    /\ Then(<<>>)
    /\ UNCHANGED <<phase, mem, work, outside, inbox, faults, history>>

\* Mutant of FinishLost: the session is rotated without a note.
FinishLost_Silent ==
    /\ Finishing /\ child.st = "lost"
    /\ LossesOf(Current) + 1 < LossLimit
    /\ mem' = [mem EXCEPT !.losses = Put(@, Current.id, 1)]
    /\ Ends("session_lost", mem.brake, mem.tripped)
    /\ UNCHANGED work
    /\ Then(<<"rebind", "drop">>)
    /\ UNCHANGED <<phase, outside, inbox, faults, history>>

\* The first loss of a session by this work: rotate, with a handover.
FinishLost ==
    LET counted == [work EXCEPT ![1].lost = IF Current.id \in Ids THEN 0 ELSE 1] IN
    /\ Finishing /\ child.st = "lost"
    /\ LossesOf(Current) + 1 < LossLimit
    /\ mem' = [mem EXCEPT !.losses = Put(@, Current.id, 1)]
    /\ Ends("session_lost", mem.brake, mem.tripped)
    /\ IF Current.kind = "ctl"
       THEN /\ work' = <<Item("rehand", None, 0)>> \o counted
            /\ Then(<<"rebind">>)
       ELSE /\ work' = counted
            /\ Then(<<"note", "rebind", "drop">>)
    /\ UNCHANGED <<phase, outside, inbox, faults, history>>

\* The second one: the provider keeps no sessions.
FinishLostAgain ==
    LET brake == mem.brake + 1
        tripped == mem.tripped \/ brake >= Burst
    IN
    /\ Finishing /\ child.st = "lost"
    /\ LossesOf(Current) + 1 >= LossLimit
    /\ mem' = [mem EXCEPT !.brake = brake, !.tripped = tripped, !.streak = @ + 1]
    /\ Ends("provider_failure", brake, tripped)
    /\ strikes' = strikes + 1
    /\ Then(<<"persist">> \o IF Current.id \in Ids THEN <<"fail">> ELSE <<"drop">>)
    /\ UNCHANGED <<phase, work, outside, inbox, faults, used, acted, owed>>

\* Mutant of FinishFailure: turn.ended is written before the failure counts.
FinishFailure_Early ==
    LET fails == IF Current.id \in Ids THEN mem.fails[Current.id] + 1 ELSE 0 IN
    /\ Finishing /\ child.st = "failure"
    /\ Ends("provider_failure", mem.brake, mem.tripped)
    /\ mem' = [mem EXCEPT !.brake = @ + 1, !.tripped = @ \/ mem.brake + 1 >= Burst,
                          !.fails = Put(@, Current.id, fails)]
    /\ strikes' = strikes + 1
    /\ Then(IF fails >= MessageFailures THEN <<"fail">> ELSE <<>>)
    /\ UNCHANGED <<phase, work, outside, inbox, faults, used, acted, owed>>

\* Any other exit: the only one that counts.
FinishFailure ==
    LET brake == mem.brake + 1
        tripped == mem.tripped \/ brake >= Burst
        fails == IF Current.id \in Ids THEN mem.fails[Current.id] + 1 ELSE 0
    IN
    /\ Finishing /\ child.st = "failure"
    /\ mem' = [mem EXCEPT !.brake = brake, !.tripped = tripped,
                          !.fails = Put(@, Current.id, fails)]
    /\ Ends("provider_failure", brake, tripped)
    /\ strikes' = strikes + 1
    /\ Then(IF ~tripped /\ fails >= MessageFailures THEN <<"fail">> ELSE <<>>)
    /\ UNCHANGED <<phase, work, outside, inbox, faults, used, acted, owed>>

\* session.persistence_restored
Restore ==
    /\ At("restored")
    /\ disk' = PersistenceRestored(disk)
    /\ Then(<<>>)
    /\ UNCHANGED <<phase, mem, work, child, outside, inbox, faults, history>>

\* session.persistence_failed: the session is given up, without a handover.
Persist ==
    /\ At("persist")
    /\ disk' = PersistenceFailed(disk, Current.id, mem.sid, mem.streak)
    /\ mem' = NoSession([mem EXCEPT !.losses = Put(@, Current.id, 0)])
    /\ Then(<<>>)
    /\ UNCHANGED <<phase, work, child, outside, inbox, faults, history>>

\* duty.off, once the routine turn has succeeded.
OffDuty ==
    /\ At("off")
    /\ mem' = [mem EXCEPT !.off = TRUE]
    /\ disk' = Duty(disk, TRUE)
    /\ work' = <<>>
    /\ Then(<<>>)
    /\ UNCHANGED <<phase, child, outside, inbox, faults, history>>

\* self.work = None
Drop ==
    /\ At("drop")
    /\ work' = <<>>
    /\ Then(<<>>)
    /\ UNCHANGED <<phase, mem, disk, child, outside, inbox, faults, history>>

\* message done and message fail.  Nobody looks at their exit status: if the
\* command fails the message stays SEEN and is chosen again.
Close ==
    /\ At("done") \/ At("fail")
    /\ \/ /\ inbox' = [inbox EXCEPT ![Current.id] = IF At("done") THEN "PROCESSED" ELSE "FAILED"]
          /\ UNCHANGED faults
       \/ Fault("helper") /\ UNCHANGED inbox
    /\ work' = <<>>
    /\ Then(<<>>)
    /\ UNCHANGED <<phase, mem, disk, child, outside, history>>

\* add_handover_note, unless one is open; a new one comes last in the list.
add_handover_note ==
    /\ At("note")
    /\ IF Open(Note)
       THEN UNCHANGED <<mem, disk, inbox, order>>
       ELSE /\ inbox' = [inbox EXCEPT ![Note] = "PERSISTED"]
            /\ order' = {p \in order : Note \notin {p[1], p[2]}} \cup Listed(Note)
            /\ mem' = NewNote(mem)
            /\ disk' = [disk EXCEPT !.c = NewNote(@), !.errs[Note] = 0]
    /\ Then(<<>>)
    /\ UNCHANGED <<phase, work, child, orphans, known, ctl, moved, faults, history>>

(***************************************************************************)
(* Exceptions.  guarded_start_turn and the main loop's collect_turn catch  *)
(* them; process_controls and start-up do not, and the process exits.      *)
(***************************************************************************)
Gone(next) ==
    /\ phase' = next
    /\ mem' = Unset
    /\ work' = <<>> /\ todo' = <<>> /\ cur' = 0
    /\ child' = NoChild

\* message send fails; the turn's state files cannot be created; the
\* transcript cannot be written before turn.ended.
Raises ==
    /\ \/ At("note") /\ Fault("helper")
       \/ (At("launch") \/ Finishing) /\ Fault("io")
    /\ IF cur # 0 \/ phase = "boot"
       THEN Gone("down")
       ELSE /\ todo' = <<"engine">> /\ child' = NoChild
            /\ UNCHANGED <<phase, mem, work, cur>>
    /\ UNCHANGED <<disk, outside, inbox, history>>

_message_engine_error ==
    LET spent == ErrsOf(Current) + 1 >= EngineErrors IN
    /\ At("engine")
    /\ disk' = EngineError(disk, Current.id)
    /\ work' = IF Current.id \in Ids THEN work ELSE [work EXCEPT ![1].errs = @ + 1]
    /\ Then(CASE spent /\ Current.id \in Ids -> <<"fail">>
              [] spent /\ Current.id \notin Ids -> <<"drop">>
              [] OTHER -> <<>>)
    /\ UNCHANGED <<phase, mem, child, outside, inbox, faults, history>>

(***************************************************************************)
(* Control requests.                                                       *)
(***************************************************************************)
Pending(r) == r \in DOMAIN ctl \ disk.consumed /\ \A k \in 1 .. r - 1 : k \in disk.consumed

Busy(v) ==
    /\ Process
    /\ \/ v.verb \in {"feierabend", "standup"}
       \/ v.verb \in {"neustart", "abschalten"} /\ ~v.force

reject_control(r) ==
    /\ phase = "run" /\ todo = <<>> /\ Pending(r)
    /\ ctl[r].refused \/ Busy(ctl[r])
    /\ disk' = Consumed(disk, r)
    /\ UNCHANGED <<phase, mem, work, todo, cur, child, outside, inbox, faults, history>>

Effect(v) ==
    CASE v.verb = "reset-brake" -> <<"clear">>
      [] v.verb = "neustart" -> <<"clear">> \o (IF v.fresh THEN <<"note", "fresh">> ELSE <<>>)
                                            \o <<"restart">>
      [] v.verb = "feierabend" -> <<"routine">>
      [] v.verb = "standup" -> <<"duty", "routine">>
      [] v.verb = "abschalten" -> <<"stop">>

\* Mutant of accept_control: the request is not journalled as consumed.
accept_control_Unmarked(r) ==
    /\ phase = "run" /\ todo = <<>> /\ Pending(r)
    /\ ~ctl[r].refused /\ ~Busy(ctl[r])
    /\ cur' = r
    /\ todo' = (IF Process /\ ctl[r].force THEN <<"cancel">> ELSE <<>>) \o Effect(ctl[r])
    /\ UNCHANGED <<phase, mem, disk, work, child, outside, inbox, faults, history>>

\* ctl.consumed is in the journal before any effect.
accept_control(r) ==
    /\ phase = "run" /\ todo = <<>> /\ Pending(r)
    /\ ~ctl[r].refused /\ ~Busy(ctl[r])
    /\ disk' = Consumed(disk, r)
    /\ cur' = r
    /\ todo' = (IF Process /\ ctl[r].force THEN <<"cancel">> ELSE <<>>) \o Effect(ctl[r])
    /\ UNCHANGED <<phase, mem, work, child, outside, inbox, faults, history>>

\* cancel_turn: the launcher exits within the grace period and is collected,
CancelCollects ==
    /\ At("cancel") /\ Exited
    /\ Then(<<"finish">>)
    /\ UNCHANGED <<phase, mem, disk, work, child, outside, inbox, faults, history>>

\* or its process group is killed.  The broker still has to notice and to
\* end the provider (linger).  An output file that is not safe to read makes
\* the record a provider failure, which memory does not count.
CancelKills ==
    /\ At("cancel") /\ child.st = "running"
    /\ \/ Ends("cancelled", mem.brake, mem.tripped) /\ UNCHANGED faults
       \/ Ends("provider_failure", mem.brake, mem.tripped) /\ Fault("unsafe")
    /\ orphans' = IF "linger" \in Faults THEN orphans \cup {child.sid} ELSE orphans
    /\ Then(<<>>)
    /\ UNCHANGED <<phase, mem, work, known, inbox, order, ctl, moved, history>>

\* Mutant of clear_brake: memory only.
clear_brake_Unwritten ==
    /\ At("clear")
    /\ mem' = BrakeReset(mem)
    /\ strikes' = 0
    /\ acted' = acted \cup {cur}
    /\ Then(<<>>)
    /\ UNCHANGED <<phase, disk, work, child, outside, inbox, faults, used, owed>>

\* clear_brake; nothing is written when there is nothing to clear.  The counts
\* of synthetic ids, which mem leaves out, may be all there is to clear.
clear_brake ==
    /\ At("clear")
    /\ mem' = BrakeReset(mem)
    /\ \/ disk' = [disk EXCEPT !.c = BrakeReset(@)]
       \/ mem = BrakeReset(mem) /\ UNCHANGED disk
    /\ strikes' = 0
    /\ acted' = acted \cup {cur}
    /\ Then(<<>>)
    /\ UNCHANGED <<phase, work, child, outside, inbox, faults, used, owed>>

\* neustart --fresh: the session is given up, the note is in the inbox.
RotateFresh ==
    /\ At("fresh")
    /\ mem' = NoSession(mem)
    /\ disk' = RotatedFresh(disk)
    /\ owed' = TRUE
    /\ Then(<<>>)
    /\ UNCHANGED <<phase, work, child, outside, inbox, faults, used, acted, strikes>>

\* reexec, or exit 75 for systemd: the same state, read back from the journal.
Restart ==
    /\ At("restart")
    /\ Gone("down")
    /\ UNCHANGED <<disk, outside, inbox, faults, history>>

\* standup: duty.on comes before its routine turn.
OnDuty ==
    /\ At("duty")
    /\ mem' = [mem EXCEPT !.off = FALSE]
    /\ disk' = Duty(disk, FALSE)
    /\ acted' = acted \cup {cur}
    /\ Then(<<>>)
    /\ UNCHANGED <<phase, work, child, outside, inbox, faults, used, owed, strikes>>

\* begin_control_routine replaces whatever work there was.
begin_control_routine ==
    /\ At("routine")
    /\ work' = <<Item("ctl", None, cur)>>
    /\ acted' = acted \cup {cur}
    /\ Then(StartSteps)
    /\ UNCHANGED <<phase, mem, disk, child, outside, inbox, faults, used, owed, strikes>>

ShutDown ==
    /\ At("stop")
    /\ acted' = acted \cup {cur}
    /\ Gone("off")
    /\ UNCHANGED <<disk, outside, inbox, faults, used, owed, strikes>>

(***************************************************************************)
(* Start-up.                                                               *)
(***************************************************************************)
\* run(): restore, then check_cwd_binding.
Start ==
    /\ phase \in {"down", "off"}
    /\ phase' = "boot"
    /\ mem' = Restored(disk)
    /\ todo' = (IF Restored(disk).sid # None /\ moved THEN <<"note", "rebind">> ELSE <<>>) \o <<"boot">>
    /\ UNCHANGED <<disk, work, cur, child, outside, inbox, faults, history>>

\* Mutant of Boot: an unfinished turn is not waited for.
Boot_Hasty ==
    /\ At("boot")
    /\ phase' = "run"
    /\ Then(<<>>)
    /\ UNCHANGED <<mem, disk, work, child, outside, inbox, faults, history>>

Boot ==
    /\ At("boot")
    /\ phase' = IF disk.open # None THEN "orphaned" ELSE "run"
    /\ Then(<<>>)
    /\ UNCHANGED <<mem, disk, work, child, outside, inbox, faults, history>>

\* handle_orphan: the broker counts no lease, or cap_timeout is over.
handle_orphan ==
    /\ phase = "orphaned"
    /\ \/ orphans = {} /\ UNCHANGED faults
       \/ orphans # {} /\ Fault("overrun")
    /\ disk' = TurnEnded(disk, "orphan_gone", None, disk.open, mem.brake, FALSE)
    /\ phase' = "run"
    /\ UNCHANGED <<mem, work, todo, cur, child, outside, inbox, history>>

(***************************************************************************)
(* What the supervisor does not control.                                   *)
(***************************************************************************)
\* A message reaches the inbox: others send it, or the agent itself (its worker,
\* or the engine, to continue a task).
Receive(m) ==
    /\ inbox[m] = "absent"
    /\ inbox' = [inbox EXCEPT ![m] = "PERSISTED"]
    /\ order' = order \cup Listed(m)
    /\ UNCHANGED <<phase, mem, disk, work, todo, cur, child, orphans, known, ctl, moved, faults, history>>

\* agentctl files a request.
File(v) ==
    /\ Len(ctl) < MaxReqs
    /\ ctl' = Append(ctl, v)
    /\ UNCHANGED <<phase, mem, disk, work, todo, cur, child, orphans, known, inbox, order, moved, faults, history>>

Exit(st) ==
    /\ child.st = "running"
    /\ child' = [child EXCEPT !.st = st]
    /\ UNCHANGED <<phase, mem, disk, work, todo, cur, orphans, inbox, order, ctl, moved, history>>

\* The turn succeeds in a new session or in one the provider has.
Answers ==
    /\ child.arg = "new" \/ child.sid \in known
    /\ Exit("ok")
    /\ known' = known \cup {child.sid}
    /\ UNCHANGED faults

\* The provider has no such session.
Loses ==
    /\ child.arg = "resume" /\ child.sid \notin known
    /\ Exit("lost")
    /\ UNCHANGED <<known, faults>>

\* The turn fails, before or after the provider made the session.
Fails(st) ==
    /\ Exit(st) /\ Fault(st)
    /\ known' = known \/ known' = known \cup {child.sid}

\* The provider already has the session it is asked to make.
Refuses ==
    /\ child.arg = "new"
    /\ Exit("in_use") /\ Fault("in_use")
    /\ known' = known \cup {child.sid}

\* The provider drops a session.
Forget(s) ==
    /\ Fault("forget")
    /\ known' = known \ {s}
    /\ UNCHANGED <<phase, mem, disk, work, todo, cur, child, orphans, inbox, order, ctl, moved, history>>

\* A turn nobody waits for ends; its session may be resumable then.
OrphanEnds(s) ==
    /\ orphans' = orphans \ {s}
    /\ known' = known \/ known' = known \cup {s}
    /\ UNCHANGED <<phase, mem, disk, work, todo, cur, child, inbox, order, ctl, moved, faults, history>>

\* A live turn outlives the supervisor that started it.
Strand == orphans' = IF child.st = "running" THEN orphans \cup {child.sid} ELSE orphans

\* The process is killed, or its watchdog ends it.
Crash ==
    /\ phase \notin {"down", "off"} /\ Fault("crash")
    /\ Strand
    /\ Gone("down")
    /\ UNCHANGED <<disk, known, inbox, order, ctl, moved, history>>

\* SIGTERM: the main loop ends, terminates the launcher and leaves the turn
\* open in the journal.
Terminate ==
    /\ phase \in {"run", "orphaned"} /\ todo = <<>> /\ Fault("term")
    /\ Strand
    /\ Gone("off")
    /\ UNCHANGED <<disk, known, inbox, order, ctl, moved, history>>

\* SIGUSR1: the process executes itself between turns.
Reexec ==
    /\ Idle /\ Fault("usr1")
    /\ Gone("down")
    /\ UNCHANGED <<disk, outside, inbox, history>>

\* The registry gives the agent another home; a running supervisor keeps
\* the one it started with.
Rehome ==
    /\ phase \in {"down", "off"} /\ disk.c.sid # None /\ Fault("rehome")
    /\ moved' = TRUE
    /\ UNCHANGED <<phase, mem, disk, work, todo, cur, child, orphans, known, inbox, order, ctl, history>>

-----------------------------------------------------------------------------
Turn == start_turn \/ Launch \/ LaunchFails \/ bind_session

Finish == FinishOk \/ FinishRetry \/ FinishLost \/ FinishLostAgain \/ FinishFailure

FollowUp ==
    \/ Restore \/ Persist \/ OffDuty \/ Drop \/ Close \/ add_handover_note
    \/ Raises \/ _message_engine_error

Control ==
    \/ \E r \in 1 .. MaxReqs : accept_control(r) \/ reject_control(r)
    \/ CancelCollects \/ CancelKills \/ clear_brake \/ RotateFresh \/ Restart
    \/ OnDuty \/ begin_control_routine \/ ShutDown

Poll == PollRetry \/ \E i \in Ids : PollMessage(i)

Steady == Poll \/ Turn \/ Finish \/ FollowUp \/ Control \/ Boot \/ handle_orphan

Environment ==
    \/ \E m \in Msgs : Receive(m)
    \/ \E v \in Verbs : File(v)
    \/ \E st \in {"infra", "failure"} : Fails(st)
    \/ Refuses \/ Rehome \/ Crash \/ Terminate \/ Reexec
    \/ \E s \in known : Forget(s)

Next ==
    \/ Steady \/ Start \/ Answers \/ Loses \/ Environment
    \/ \E s \in orphans : OrphanEnds(s)

Spec == Init /\ [][Next]_vars

\* The loop keeps running, systemd restarts a process that died, the provider
\* ends every turn.  Nothing is assumed of those who send messages, file
\* requests or stop the unit, and a fault need not happen.
Fairness ==
    /\ WF_vars(Steady) /\ WF_vars(phase = "down" /\ Start)
    /\ WF_vars(Answers) /\ WF_vars(Loses)
    /\ WF_vars(\E s \in orphans : OrphanEnds(s))

FairSpec == Spec /\ Fairness

-----------------------------------------------------------------------------
TypeOK ==
    /\ phase \in Phases
    /\ mem \in Counters
    /\ disk \in Journals
    /\ work \in Seq(Items) /\ todo \in Seq(Steps) /\ cur \in 0 .. MaxReqs
    /\ child \in Children
    /\ orphans \subseteq Sids /\ known \subseteq Sids /\ used \subseteq Sids
    /\ inbox \in [Ids -> {"absent", "PERSISTED", "SEEN", "PROCESSED", "FAILED"}]
    /\ order \subseteq Ids \X Ids /\ ctl \in Seq(Requests)
    /\ moved \in BOOLEAN /\ owed \in BOOLEAN
    /\ faults \in 0 .. MaxFaults /\ strikes \in Nat
    /\ acted \subseteq 1 .. MaxReqs

\* A turn begins in this step, for the work at hand.
Begins == child.st = "none" /\ child'.st = "prepared"

\* No session id is given to the provider as new: twice, whatever crashes and
\* retries come between (start_turn journals turn.started before the launch and
\* restore reads it).
NewOnce ==
    [][child.st = "prepared" /\ child'.st = "running" /\ child.arg = "new"
       => child.sid \notin used]_vars

\* A turn is launched only when no turn of an earlier process is still running:
\* the journal shows every turn that may have been left behind, and a started
\* supervisor waits for it (handle_orphan).
OneTurn ==
    [][child.st = "prepared" /\ child'.st = "running" => orphans = {}]_vars

\* With the failures counted by an observer who never restarts: once Burst
\* provider failures stand, or the agent is off duty, no turn but a control
\* routine begins (the main loop's guard, over counters restored from the
\* journal).
HaltedStartsNothing ==
    [][Begins /\ Head(work).kind # "ctl" => strikes < Burst /\ ~disk.c.off]_vars

\* Between handlers a restart would find the session, its turns, the brake and
\* the persistence streak as the process has them; it would not release a
\* tripped brake and not count a session loss that did not happen (restore
\* against the assignments of _finish_result).
RestartAgrees ==
    phase = "run" /\ todo = <<>> =>
        LET r == Restored(disk) IN
        /\ <<r.sid, r.fresh, r.turns, r.brake, r.streak, r.off>>
             = <<mem.sid, mem.fresh, mem.turns, mem.brake, mem.streak, mem.off>>
        /\ mem.tripped => r.tripped
        /\ \A i \in Ids : r.losses[i] <= mem.losses[i]

\* A control request whose effect has begun is not accepted again, also after
\* a crash in the middle of it (accept_control journals ctl.consumed first).
ControlOnce == [][cur' \notin {0, cur} => cur' \notin acted]_vars

\* After a session was replaced the note is open until a handover turn begins,
\* and no message is worked on before but those the agent had sent to itself
\* before the note (rotate_with_note sends the note first; choose_message puts
\* it in the first lane, with those, and takes them as they are listed).
RotationNeverSilent ==
    [][Begins /\ owed /\ Head(work).kind = "msg" /\ Head(work).id # Note
       => Open(Note) /\ Precedes(Head(work).id, Note)]_vars

Settled(m) == inbox[m] \in {"PROCESSED", "FAILED"}

Halted == phase = "off" \/ mem.tripped \/ mem.off

\* Every message that arrived is processed or failed, unless the brake, the end
\* of duty or a stop halts the agent: crashes, retries, rotations and lost
\* sessions do not lose it and do not keep it open for ever.
MessagesSettle == \A m \in Msgs : Open(m) ~> (Settled(m) \/ Halted)
=============================================================================
