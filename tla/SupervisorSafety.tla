-------------------------- MODULE SupervisorSafety --------------------------
(***************************************************************************)
(* What the supervisor promises, from the invariant of SupervisorProofs.   *)
(*                                                                         *)
(* Most steps touch neither the session that is still to be launched for   *)
(* the first time, nor the journal's record of an open turn, nor the       *)
(* requests already acted on.  They are calm in those three respects; the  *)
(* few others are argued one by one.                                       *)
(*                                                                         *)
(* The handover of a replaced session has an argument of its own, at the   *)
(* end: what is owed, from the note that is sent until a turn begins.      *)
(***************************************************************************)
EXTENDS SupervisorProofs

\* Nothing becomes fresh, nothing is prepared, nothing is used.
FreshCalm ==
    /\ disk'.c.fresh => disk.c.fresh /\ disk'.c.sid = disk.c.sid
    /\ child'.st = "prepared" => child' = child
    /\ used' = used

\* No request is taken up; what is acted on is the one being executed.
ControlCalm ==
    /\ disk.consumed \subseteq disk'.consumed
    /\ acted' \subseteq acted \cup ({cur} \cap 1 .. MaxReqs)
    /\ cur' \in {0, cur}

\* No turn begins or is left behind, and the journal closes one only when it
\* is over.
OpenCalm ==
    /\ child'.st # "none" => child.st # "none"
    /\ orphans' \subseteq orphans
    /\ phase' = "run" => phase = "run"
    /\ disk'.open = disk.open \/ (disk'.open = None /\ child'.st = "none" /\ phase = "run")

Calm == FreshCalm /\ ControlCalm /\ OpenCalm

\* The journal after the record of an ended turn.
LEMMA EndFrame ==
    ASSUME NEW j \in Journals, NEW class, NEW id, NEW s, NEW b, NEW t
    PROVE  LET k == TurnEnded(j, class, id, s, b, t) IN
           k.open = None /\ k.consumed = j.consumed
             /\ k.c.fresh = j.c.fresh /\ k.c.sid = j.c.sid
<1> DEFINE c == [j.c EXCEPT !.brake = b, !.tripped = @ \/ t]
           d == CASE class = "provider_failure" /\ id \in Ids -> [c EXCEPT !.fails[id] = @ + 1]
                  [] class = "session_lost" /\ id \in Ids -> [c EXCEPT !.losses[id] = @ + 1]
                  [] class = "ok" -> [c EXCEPT !.turns = IF s = c.sid THEN @ + 1 ELSE @,
                                               !.fails = Put(@, id, 0), !.losses = Put(@, id, 0)]
                  [] OTHER -> c
           Fits(x) == x.fresh = j.c.fresh /\ x.sid = j.c.sid
<1>1. TurnEnded(j, class, id, s, b, t) = [j EXCEPT !.open = None, !.c = d]
    BY DEF TurnEnded
<1>2. Fits(c) /\ DOMAIN c = DOMAIN j.c /\ {"fresh", "sid"} \subseteq DOMAIN c
    BY JournalFields DEF Counters
<1>3. Fits(d)
    <2>1. CASE class = "provider_failure" /\ id \in Ids
        <3>1. d = [c EXCEPT !.fails[id] = @ + 1]
            BY <2>1
        <3> HIDE DEF c, d
        <3> QED
            BY <1>2, <3>1
    <2>2. CASE class = "session_lost" /\ id \in Ids
        <3>1. d = [c EXCEPT !.losses[id] = @ + 1]
            BY <2>2
        <3> HIDE DEF c, d
        <3> QED
            BY <1>2, <3>1
    <2>3. CASE class = "ok"
        <3>1. d = [c EXCEPT !.turns = IF s = c.sid THEN @ + 1 ELSE @,
                            !.fails = Put(@, id, 0), !.losses = Put(@, id, 0)]
            BY <2>3
        <3> HIDE DEF c, d
        <3> QED
            BY <1>2, <3>1
    <2>4. CASE ~(class = "provider_failure" /\ id \in Ids) /\ class # "ok"
                 /\ ~(class = "session_lost" /\ id \in Ids)
        <3>1. d = c
            BY <2>4
        <3> QED
            BY <1>2, <3>1
    <2> QED
        BY <2>1, <2>2, <2>3, <2>4
<1> HIDE DEF d
<1> QED
    BY <1>1, <1>3 DEF Journals

\* The end of a turn, as one of its own.
LEMMA EndsCalm ==
    ASSUME disk \in Journals, NEW class, NEW b, NEW t, Ends(class, b, t),
           phase = "run", phase' = "run", used' = used, acted' = acted, cur' \in {0, cur},
           orphans' \subseteq orphans
    PROVE  Calm
<1>1. child'.st = "none" /\ disk' = TurnEnded(disk, class, Current.id, mem.sid, b, t)
    BY DEF Ends, NoChild
<1>2. /\ disk'.open = None /\ disk'.consumed = disk.consumed
      /\ disk'.c.fresh = disk.c.fresh /\ disk'.c.sid = disk.c.sid
    BY <1>1, EndFrame
<1> QED
    BY <1>1, <1>2 DEF Calm, FreshCalm, ControlCalm, OpenCalm

\* A record that is not about sessions, turns or requests.
LEMMA RecordCalm ==
    ASSUME disk'.c.fresh = disk.c.fresh, disk'.c.sid = disk.c.sid, disk'.open = disk.open,
           disk'.consumed = disk.consumed, UNCHANGED <<phase, child, orphans, used>>,
           cur' \in {0, cur}, acted' \subseteq acted \cup ({cur} \cap 1 .. MaxReqs)
    PROVE  Calm
BY DEF Calm, FreshCalm, ControlCalm, OpenCalm

\* Going on with a handler keeps its request or, at its end, lets go of it.
LEMMA ThenCur ==
    ASSUME NEW steps, Then(steps)
    PROVE  cur' \in {0, cur}
BY DEF Then

\* Nothing is left of a process that is gone.
LEMMA GoneCalm ==
    ASSUME NEW next \in {"down", "off"}, Gone(next), disk' = disk, used' = used,
           acted' \subseteq acted \cup ({cur} \cap 1 .. MaxReqs)
    PROVE  /\ FreshCalm /\ ControlCalm
           /\ orphans' \subseteq orphans => Calm
<1>1. child'.st = "none" /\ cur' = 0 /\ phase' # "run"
    BY DEF Gone, NoChild
<1> QED
    BY <1>1 DEF Calm, FreshCalm, ControlCalm, OpenCalm

LEMMA TypedJournal ==
    ASSUME SInv
    PROVE  disk \in Journals /\ mem \in Counters /\ disk.c \in Counters /\ child \in Children
BY JournalFields DEF SInv, TypeOK

-----------------------------------------------------------------------------
(***************************************************************************)
(* The steps that are calm.                                                *)
(***************************************************************************)
LEMMA PollCalm ==
    ASSUME SInv, Poll
    PROVE  Calm
BY DEF Poll, PollRetry, PollMessage, outside, history, Calm, FreshCalm, ControlCalm, OpenCalm

LEMMA FinishCalm ==
    ASSUME SInv, Finish
    PROVE  Calm
<1>1. disk \in Journals
    BY TypedJournal
<1>2. /\ phase = "run" /\ phase' = "run" /\ used' = used /\ acted' = acted
      /\ orphans' = orphans
    BY DEF Finish, FinishOk, FinishRetry, FinishLost, FinishLostAgain, FinishFailure, Finishing,
           outside, history
<1>3. cur' \in {0, cur}
    BY ThenCur DEF Finish, FinishOk, FinishRetry, FinishLost, FinishLostAgain, FinishFailure
<1>4. \E class, b, t : Ends(class, b, t)
    BY DEF Finish, FinishOk, FinishRetry, FinishLost, FinishLostAgain, FinishFailure
<1> QED
    BY <1>1, <1>2, <1>3, <1>4, EndsCalm

LEMMA FollowUpCalm ==
    ASSUME SInv, FollowUp
    PROVE  Calm
<1>1. disk \in Journals /\ mem \in Counters /\ disk.c \in Counters
    BY TypedJournal
<1>2. CASE Restore
    <2>1. /\ disk'.c.sid = disk.c.sid /\ disk'.c.fresh = disk.c.fresh
          /\ disk'.open = disk.open /\ disk'.consumed = disk.consumed
        BY <1>1, <1>2, PersistenceRestoredType DEF Restore
    <2> QED
        BY <1>2, <2>1, RecordCalm, ThenCur DEF Restore, outside, history
<1>3. CASE Persist
    <2>1. At("persist") /\ mem.sid = disk.c.sid
        BY <1>3, AtStep DEF Persist, SInv, Agreed
    <2>2. /\ ~disk'.c.fresh /\ disk'.open = disk.open /\ disk'.consumed = disk.consumed
        BY <1>1, <1>3, <2>1, PersistenceFailedType DEF Persist
    <2>3. UNCHANGED <<phase, child, orphans, used, acted>> /\ cur' \in {0, cur}
        BY <1>3, ThenCur DEF Persist, outside, history
    <2> QED
        BY <2>2, <2>3 DEF Calm, FreshCalm, ControlCalm, OpenCalm
<1>4. CASE OffDuty
    <2>1. /\ disk'.c.sid = disk.c.sid /\ disk'.c.fresh = disk.c.fresh
          /\ disk'.open = disk.open /\ disk'.consumed = disk.consumed
        BY <1>1, <1>4, DutyType DEF OffDuty
    <2> QED
        BY <1>4, <2>1, RecordCalm, ThenCur DEF OffDuty, outside, history
<1>5. CASE Drop
    BY <1>5, RecordCalm, ThenCur DEF Drop, outside, history
<1>6. CASE Close
    BY <1>6, RecordCalm, ThenCur DEF Close, outside, history
<1>7. CASE add_handover_note
    <2>1. /\ disk'.c.sid = disk.c.sid /\ disk'.c.fresh = disk.c.fresh
          /\ disk'.open = disk.open /\ disk'.consumed = disk.consumed
        <3>1. CASE Open(Note)
            BY <1>7, <3>1 DEF add_handover_note
        <3>2. CASE ~Open(Note)
            <4>1. disk' = [disk EXCEPT !.c = NewNote(@), !.errs[Note] = 0]
                BY <1>7, <3>2 DEF add_handover_note
            <4>2. /\ disk'.c = NewNote(disk.c) /\ disk'.open = disk.open
                  /\ disk'.consumed = disk.consumed
                BY <1>1, <4>1, NoteRecordType
            <4> QED
                BY <1>1, <4>2, NewNoteType
        <3> QED
            BY <3>1, <3>2
    <2> QED
        BY <1>7, <2>1, RecordCalm, ThenCur DEF add_handover_note, outside, history
<1>8. CASE Raises
    <2>1. disk' = disk /\ UNCHANGED <<orphans, used, acted>>
        BY <1>8 DEF Raises, outside, history
    <2>2. CASE cur # 0 \/ phase = "boot"
        BY <1>8, <2>1, <2>2, GoneCalm DEF Raises
    <2>3. CASE ~(cur # 0 \/ phase = "boot")
        <3>1. child'.st = "none" /\ phase' = phase /\ cur' = cur
            BY <1>8, <2>3 DEF Raises, NoChild
        <3> QED
            BY <2>1, <3>1 DEF Calm, FreshCalm, ControlCalm, OpenCalm
    <2> QED
        BY <2>2, <2>3
<1>9. CASE _message_engine_error
    <2>1. /\ disk'.c = disk.c /\ disk'.open = disk.open /\ disk'.consumed = disk.consumed
        BY <1>1, <1>9, EngineErrorType DEF _message_engine_error
    <2> QED
        BY <1>9, <2>1, RecordCalm, ThenCur DEF _message_engine_error, outside, history
<1> QED
    BY <1>2, <1>3, <1>4, <1>5, <1>6, <1>7, <1>8, <1>9 DEF FollowUp

\* Of the control steps only taking up a request, and the kill that may leave
\* the provider running, are not calm.
LEMMA ControlStepCalm ==
    ASSUME SInv, Control
    PROVE  \/ Calm
           \/ \E r \in 1 .. MaxReqs : accept_control(r)
           \/ CancelKills
<1>1. disk \in Journals /\ mem \in Counters /\ disk.c \in Counters
    BY TypedJournal
<1>2. ASSUME NEW x \in ControlSteps, At(x) PROVE cur \in 1 .. MaxReqs
    BY <1>2, ActingFor
<1>3. ASSUME NEW r \in 1 .. MaxReqs, reject_control(r) PROVE Calm
    <2>1. /\ disk'.c = disk.c /\ disk'.open = disk.open
          /\ disk'.consumed = disk.consumed \cup {r}
        BY <1>1, <1>3, ConsumedType DEF reject_control
    <2>2. UNCHANGED <<phase, child, orphans, used, acted, cur>>
        BY <1>3 DEF reject_control, outside, history
    <2> QED
        BY <2>1, <2>2 DEF Calm, FreshCalm, ControlCalm, OpenCalm
<1>4. CASE CancelCollects
    BY <1>4, RecordCalm, ThenCur DEF CancelCollects, outside, history
<1>5. CASE clear_brake
    <2>1. cur \in 1 .. MaxReqs /\ acted' = acted \cup {cur}
        BY <1>2, <1>5 DEF clear_brake, ControlSteps
    <2>2. /\ disk'.c.sid = disk.c.sid /\ disk'.c.fresh = disk.c.fresh
          /\ disk'.open = disk.open /\ disk'.consumed = disk.consumed
        <3>1. CASE disk' = disk
            BY <3>1
        <3>2. CASE disk' = [disk EXCEPT !.c = BrakeReset(@)]
            <4> DEFINE d == BrakeReset(disk.c)
            <4>1. d \in Counters /\ d.sid = disk.c.sid /\ d.fresh = disk.c.fresh
                BY <1>1, BrakeResetType
            <4>2. disk' = [disk EXCEPT !.c = d]
                BY <3>2
            <4> HIDE DEF d
            <4> QED
                BY <1>1, <4>1, <4>2, CounterRecord
        <3> QED
            BY <1>5, <3>1, <3>2 DEF clear_brake
    <2> QED
        BY <1>5, <2>1, <2>2, RecordCalm, ThenCur DEF clear_brake, outside
<1>6. CASE RotateFresh
    <2> DEFINE d == NoSession(disk.c)
    <2>1. d \in Counters /\ ~d.fresh
        BY <1>1, NoSessionType
    <2>2. disk' = [disk EXCEPT !.c = d]
        BY <1>6 DEF RotateFresh, RotatedFresh
    <2> HIDE DEF d
    <2>3. ~disk'.c.fresh /\ disk'.open = disk.open /\ disk'.consumed = disk.consumed
        BY <1>1, <2>1, <2>2, CounterRecord
    <2>4. UNCHANGED <<phase, child, orphans, used, acted>> /\ cur' \in {0, cur}
        BY <1>6, ThenCur DEF RotateFresh, outside
    <2> QED
        BY <2>3, <2>4 DEF Calm, FreshCalm, ControlCalm, OpenCalm
<1>7. CASE Restart
    BY <1>7, GoneCalm DEF Restart, outside, history
<1>8. CASE OnDuty
    <2>1. cur \in 1 .. MaxReqs /\ acted' = acted \cup {cur}
        BY <1>2, <1>8 DEF OnDuty, ControlSteps
    <2>2. /\ disk'.c.sid = disk.c.sid /\ disk'.c.fresh = disk.c.fresh
          /\ disk'.open = disk.open /\ disk'.consumed = disk.consumed
        BY <1>1, <1>8, DutyType DEF OnDuty
    <2> QED
        BY <1>8, <2>1, <2>2, RecordCalm, ThenCur DEF OnDuty, outside
<1>9. CASE begin_control_routine
    <2>1. cur \in 1 .. MaxReqs /\ acted' = acted \cup {cur}
        BY <1>2, <1>9 DEF begin_control_routine, ControlSteps
    <2> QED
        BY <1>9, <2>1, RecordCalm, ThenCur DEF begin_control_routine, outside
<1>10. CASE ShutDown
    <2>1. cur \in 1 .. MaxReqs /\ acted' = acted \cup {cur}
        BY <1>2, <1>10 DEF ShutDown, ControlSteps
    <2> QED
        BY <1>10, <2>1, GoneCalm DEF ShutDown, outside
<1> QED
    BY <1>3, <1>4, <1>5, <1>6, <1>7, <1>8, <1>9, <1>10 DEF Control

\* The launcher's exit.
LEMMA ExitCalm ==
    ASSUME SInv, NEW st \in Results, Exit(st)
    PROVE  Calm
<1>1. child'.st = st /\ child.st # "none"
    BY TypedJournal, ChildStatus DEF Exit
<1>2. st # "prepared"
    BY DEF Results
<1> QED
    BY <1>1, <1>2 DEF Exit, history, Calm, FreshCalm, ControlCalm, OpenCalm

\* A turn that is left behind stays in the journal.
LEMMA StrandCalm ==
    ASSUME SInv, Crash \/ Terminate
    PROVE  FreshCalm /\ ControlCalm
BY GoneCalm DEF Crash, Terminate, history

LEMMA EnvironmentCalm ==
    ASSUME SInv, Environment
    PROVE  Calm \/ Crash \/ Terminate
<1>1. ASSUME NEW m \in Msgs, Receive(m) PROVE Calm
    BY <1>1, RecordCalm DEF Receive, history
<1>2. ASSUME NEW v \in Verbs, File(v) PROVE Calm
    BY <1>2, RecordCalm DEF File, history
<1>3. ASSUME NEW st \in {"infra", "failure"}, Fails(st) PROVE Calm
    BY <1>3, ExitCalm DEF Fails, Results
<1>4. CASE Refuses
    BY <1>4, ExitCalm DEF Refuses, Results
<1>5. CASE Rehome
    BY <1>5, RecordCalm DEF Rehome, history
<1>6. CASE Reexec
    BY <1>6, GoneCalm DEF Reexec, outside, history
<1>7. ASSUME NEW s \in known, Forget(s) PROVE Calm
    BY <1>7, RecordCalm DEF Forget, history
<1> QED
    BY <1>1, <1>2, <1>3, <1>4, <1>5, <1>6, <1>7 DEF Environment

\* Every step is calm or one of these.
LEMMA StepCalm ==
    ASSUME SInv, [Next]_vars
    PROVE  \/ Calm
           \/ bind_session \/ start_turn \/ Launch \/ CancelKills \/ Boot \/ handle_orphan
           \/ Crash \/ Terminate
           \/ \E r \in 1 .. MaxReqs : accept_control(r)
<1>1. CASE LaunchFails
    <2>1. child'.st = "infra" /\ child.st = "prepared"
        BY <1>1, TypedJournal, ChildStatus, LaunchLast DEF LaunchFails, Results
    <2>2. UNCHANGED <<disk, phase, orphans, used, acted>> /\ cur' \in {0, cur}
        BY <1>1, ThenCur DEF LaunchFails, outside, history
    <2> QED
        BY <2>1, <2>2 DEF Calm, FreshCalm, ControlCalm, OpenCalm
<1>2. CASE Start
    <2>1. phase' # "run" /\ UNCHANGED <<disk, child, orphans, used, acted, cur>>
        BY <1>2 DEF Start, outside, history
    <2> QED
        BY <2>1 DEF Calm, FreshCalm, ControlCalm, OpenCalm
<1>3. CASE Answers \/ Loses
    BY <1>3, ExitCalm DEF Answers, Loses, Results
<1>4. ASSUME NEW s \in orphans, OrphanEnds(s) PROVE Calm
    <2>1. UNCHANGED <<disk, child, phase, used, acted, cur>> /\ orphans' \subseteq orphans
        BY <1>4 DEF OrphanEnds, history
    <2> QED
        BY <2>1 DEF Calm, FreshCalm, ControlCalm, OpenCalm
<1>5. CASE UNCHANGED vars
    BY <1>5, RecordCalm DEF vars
<1> QED
    BY <1>1, <1>2, <1>3, <1>4, <1>5, PollCalm, FinishCalm, FollowUpCalm, ControlStepCalm,
       EnvironmentCalm DEF Next, Steady, Turn

-----------------------------------------------------------------------------
(***************************************************************************)
(* The steps that are not calm.                                            *)
(***************************************************************************)
\* Where a session is bound.
LEMMA BindContext ==
    ASSUME SInv, bind_session
    PROVE  /\ child.st = "none" /\ child' = child /\ phase' = phase /\ orphans' = orphans
           /\ used' = used \cap InUse /\ acted' = acted /\ cur' \in {0, cur}
           /\ disk'.c.sid \notin InUse /\ disk'.c.sid \in Sids
           /\ disk'.open = disk.open /\ disk'.consumed = disk.consumed
<1> DEFINE s == CHOOSE t \in Sids : t \notin InUse
<1>1. s \in Sids /\ s \notin InUse
    BY DEF bind_session
<1>2. /\ disk' = SessionBound(disk, s) /\ used' = used \cap InUse /\ cur' \in {0, cur}
      /\ UNCHANGED <<child, phase, orphans, acted>>
    BY ThenCur DEF bind_session
<1> HIDE DEF s
<1>3. child.st = "none"
    BY AtStep DEF bind_session
<1>4. /\ disk'.c.sid = s /\ disk'.open = disk.open /\ disk'.consumed = disk.consumed
    BY <1>1, <1>2, TypedJournal, SessionBoundType
<1> QED
    BY <1>1, <1>2, <1>3, <1>4

\* Where a turn begins: the plan is the one the main loop or a control request
\* made, and the journal says started before anything is launched.
LEMMA TurnContext ==
    ASSUME SInv, start_turn
    PROVE  /\ "start" \in In(todo) /\ phase = "run" /\ phase' = phase /\ mem.sid \in Sids
           /\ mem.sid = disk.c.sid /\ mem.fresh = disk.c.fresh
           /\ mem.off = disk.c.off /\ strikes = mem.brake
           /\ (mem.brake >= Burst => mem.tripped)
           /\ child'.st = "prepared" /\ child'.sid = mem.sid
           /\ (child'.arg = "new" => mem.fresh)
           /\ ~disk'.c.fresh /\ disk'.open = mem.sid /\ disk'.consumed = disk.consumed
           /\ orphans' = orphans /\ used' = used /\ acted' = acted /\ cur' \in {0, cur}
<1>1. /\ child' = [sid |-> mem.sid, arg |-> IF mem.fresh THEN "new" ELSE "resume", st |-> "prepared"]
      /\ disk' = TurnStarted(disk, mem.sid) /\ At("start")
      /\ UNCHANGED <<phase, orphans, used, acted>> /\ cur' \in {0, cur}
    BY ThenCur DEF start_turn, outside
<1>2. /\ todo # <<>> /\ Head(todo) = "start" /\ Alive
      /\ mem \in Counters /\ disk \in Journals /\ todo \in Seq(Steps)
    BY <1>1, AtStep
<1>3. "start" \in In(todo)
    BY <1>2, HeadIn
<1>4. todo = <<"start", "launch">>
    <2>1. todo \in LaunchPlans
        BY <1>3 DEF SInv, Planned, TodoOK
    <2> QED
        BY <1>2, <2>1 DEF LaunchPlans
<1>5. mem.sid \in Sids
    BY <1>2, <1>4, CountersFields DEF SInv, Planned, StartOK
<1>6. phase = "run"
    BY <1>2, <1>3 DEF SInv, Planned, TodoOK
<1>7. /\ mem.sid = disk.c.sid /\ mem.fresh = disk.c.fresh
      /\ mem.off = disk.c.off /\ strikes = mem.brake
      /\ (mem.brake >= Burst => mem.tripped)
    BY <1>2 DEF SInv, Agreed
<1>8. ~disk'.c.fresh /\ disk'.open = mem.sid /\ disk'.consumed = disk.consumed
    <2>1. mem.sid \in Sids \cup {None}
        BY <1>5
    <2>2. disk'.c.fresh = (disk.c.fresh /\ mem.sid # disk.c.sid)
          /\ disk'.open = mem.sid /\ disk'.consumed = disk.consumed
        BY <1>1, <1>2, <2>1, TurnStartedType
    <2> QED
        BY <1>7, <2>2
<1> QED
    BY <1>1, <1>3, <1>5, <1>6, <1>7, <1>8

\* Where a turn is launched.
LEMMA LaunchContext ==
    ASSUME SInv, Launch
    PROVE  /\ child.st = "prepared" /\ child'.st = "running" /\ phase = "run"
           /\ UNCHANGED <<disk, phase, orphans, acted>> /\ cur' \in {0, cur}
           /\ used' = IF child.arg = "new" THEN used \cup {child.sid} ELSE used
BY LaunchLast, TypedJournal, ChildStatus, ThenCur DEF Launch, outside

\* A cancelled turn that does not exit is ended in the journal.
LEMMA KillContext ==
    ASSUME SInv, CancelKills
    PROVE  /\ FreshCalm /\ ControlCalm
           /\ "linger" \notin Faults => Calm
<1>1. child.st = "running" /\ UNCHANGED <<phase, used, acted>> /\ cur' \in {0, cur}
    BY ThenCur DEF CancelKills, history
<1>2. phase = "run"
    BY <1>1 DEF SInv, Planned, ChildOK
<1>3. \E class, b, t : Ends(class, b, t)
    BY DEF CancelKills
<1>4. /\ child'.st = "none" /\ disk'.consumed = disk.consumed
      /\ disk'.c.fresh = disk.c.fresh /\ disk'.c.sid = disk.c.sid
    BY <1>3, TypedJournal, EndFrame DEF Ends, NoChild
<1>5. FreshCalm /\ ControlCalm
    BY <1>1, <1>4 DEF FreshCalm, ControlCalm
<1>6. ASSUME "linger" \notin Faults PROVE Calm
    <2>1. orphans' = orphans
        BY <1>6 DEF CancelKills
    <2> QED
        BY <1>1, <1>2, <1>3, <2>1, TypedJournal, EndsCalm
<1> QED
    BY <1>5, <1>6

LEMMA BootContext ==
    ASSUME SInv, Boot
    PROVE  /\ FreshCalm /\ ControlCalm
           /\ child.st = "none" /\ UNCHANGED <<disk, child, orphans>>
           /\ phase' = IF disk.open # None THEN "orphaned" ELSE "run"
<1>1. /\ UNCHANGED <<disk, child, orphans, used, acted>> /\ cur' \in {0, cur}
      /\ phase' = IF disk.open # None THEN "orphaned" ELSE "run"
    BY ThenCur DEF Boot, outside, history
<1>2. child.st = "none"
    BY AtStep DEF Boot
<1> QED
    BY <1>1, <1>2 DEF FreshCalm, ControlCalm

LEMMA OrphanContext ==
    ASSUME SInv, handle_orphan
    PROVE  /\ FreshCalm /\ ControlCalm
           /\ child'.st = "none" /\ disk'.open = None /\ orphans' = orphans
           /\ "overrun" \notin Faults => orphans = {}
<1>1. /\ disk' = TurnEnded(disk, "orphan_gone", None, disk.open, mem.brake, FALSE)
      /\ UNCHANGED <<child, orphans, used, acted, cur>>
    BY DEF handle_orphan, outside, history
<1>2. child.st = "none"
    BY DEF handle_orphan, SInv, Planned, ChildOK
<1>3. /\ disk'.open = None /\ disk'.consumed = disk.consumed
      /\ disk'.c.fresh = disk.c.fresh /\ disk'.c.sid = disk.c.sid
    <2>1. EndsTurn(disk', disk, "orphan_gone", None, disk.open, mem, FALSE)
        BY <1>1, TypedJournal, TurnEndedType
    <2> QED
        BY <2>1 DEF EndsTurn
<1> QED
    BY <1>1, <1>2, <1>3 DEF FreshCalm, ControlCalm, handle_orphan, Fault

LEMMA AcceptContext ==
    ASSUME SInv, NEW r \in 1 .. MaxReqs, accept_control(r)
    PROVE  /\ FreshCalm /\ OpenCalm
           /\ r \notin disk.consumed /\ cur' = r /\ acted' = acted
           /\ disk'.consumed = disk.consumed \cup {r}
<1>1. /\ disk' = Consumed(disk, r) /\ cur' = r
      /\ UNCHANGED <<phase, child, orphans, used, acted>>
    BY DEF accept_control, outside, history
<1>2. disk'.c = disk.c /\ disk'.open = disk.open /\ disk'.consumed = disk.consumed \cup {r}
    BY <1>1, TypedJournal, ConsumedType
<1>3. r \notin disk.consumed
    BY DEF accept_control, Pending
<1> QED
    BY <1>1, <1>2, <1>3 DEF FreshCalm, OpenCalm

-----------------------------------------------------------------------------
(***************************************************************************)
(* Types and restarts.                                                     *)
(***************************************************************************)
\* Every variable keeps its type: the journal that restore folds, the plans of
\* handlers, the work, the launcher.
THEOREM SupervisorTypes == Spec => []TypeOK
<1>1. SInv => TypeOK
    BY DEF SInv
<1> QED
    BY <1>1, PlannedAndAgreed, PTL

\* Between handlers a process restored from the journal is the one that runs:
\* it has the session, the turns, the brake, the streak and the duty of the
\* running one, it does not release a tripped brake and does not count a loss
\* that did not happen (restore against _finish_result).
THEOREM RestartsAgree == Spec => []RestartAgrees
<1>1. SInv => RestartAgrees
    <2> SUFFICES ASSUME SInv, phase = "run", todo = <<>>
                 PROVE  LET r == Restored(disk) IN
                        /\ <<r.sid, r.fresh, r.turns, r.brake, r.streak, r.off>>
                             = <<mem.sid, mem.fresh, mem.turns, mem.brake, mem.streak, mem.off>>
                        /\ mem.tripped => r.tripped
                        /\ \A i \in Ids : r.losses[i] <= mem.losses[i]
        BY DEF RestartAgrees
    <2>1. Agreed /\ Alive /\ ~At("restored") /\ ~At("persist") /\ disk \in Journals
        BY DEF SInv, TypeOK, Alive, At
    <2>2. LET r == Restored(disk) IN
          /\ r.sid = disk.c.sid /\ r.fresh = disk.c.fresh /\ r.turns = disk.c.turns
          /\ r.brake = disk.c.brake /\ r.streak = disk.c.streak /\ r.off = disk.c.off
          /\ r.losses = disk.c.losses /\ r.tripped = (disk.c.tripped \/ disk.c.brake >= Burst)
        BY <2>1, RestoredType, SupervisorAssumption
    <2> QED
        BY <2>1, <2>2 DEF Agreed
<1> QED
    BY <1>1, PlannedAndAgreed, PTL

-----------------------------------------------------------------------------
(***************************************************************************)
(* What may begin.                                                         *)
(***************************************************************************)
LEMMA BeginsAtStart ==
    ASSUME SInv, [Next]_vars, Begins
    PROVE  start_turn
<1>1. child.st = "none" /\ child'.st = "prepared"
    BY DEF Begins
<1>2. ~FreshCalm
    BY <1>1 DEF FreshCalm
<1>3. ~bind_session /\ ~Launch
    BY <1>1, BindContext, LaunchContext
<1> QED
    BY <1>2, <1>3, StepCalm, KillContext, BootContext, OrphanContext, StrandCalm,
       AcceptContext DEF Calm

\* A turn that is not a control routine begins only with the brake released
\* and on duty, also in the eyes of an observer who counts the failures across
\* restarts: the main loop's guard reads counters that every crash leaves in
\* the journal.
THEOREM HaltedStayHalted == Spec => HaltedStartsNothing
<1>1. SInv /\ [Next]_vars /\ Begins /\ Head(work).kind # "ctl"
         => strikes < Burst /\ ~disk.c.off
    <2> SUFFICES ASSUME SInv, [Next]_vars, Begins, Head(work).kind # "ctl"
                 PROVE  strikes < Burst /\ ~disk.c.off
        OBVIOUS
    <2>1. start_turn
        BY BeginsAtStart
    <2>2. "start" \in In(todo) /\ mem.off = disk.c.off /\ strikes = mem.brake
          /\ (mem.brake >= Burst => mem.tripped)
        BY <2>1, TurnContext
    <2>3. ~mem.tripped /\ ~mem.off
        BY <2>2 DEF SInv, Planned, StartOK
    <2>4. mem.brake \in Nat
        BY TypedJournal, CountersFields
    <2> QED
        BY <2>2, <2>3, <2>4, SupervisorAssumption
<1> QED
    BY <1>1, PlannedAndAgreed, PTL DEF Spec, HaltedStartsNothing

-----------------------------------------------------------------------------
(***************************************************************************)
(* A control request acts once.                                            *)
(***************************************************************************)
\* What was acted on, and what is being executed, is consumed in the journal.
Consuming == acted \subseteq disk.consumed /\ cur \in disk.consumed \cup {0}

LEMMA ConsumingInit == Init => Consuming
BY DEF Init, Consuming

LEMMA ConsumingStep ==
    ASSUME SInv, Consuming, [Next]_vars
    PROVE  Consuming' /\ (cur' \notin {0, cur} => cur' \notin acted)
<1>1. CASE ControlCalm
    BY <1>1 DEF ControlCalm, Consuming
<1>2. CASE bind_session
    BY <1>2, BindContext DEF Consuming
<1>3. CASE start_turn
    BY <1>3, TurnContext DEF Consuming
<1>4. CASE Launch
    BY <1>4, LaunchContext DEF Consuming
<1>5. ASSUME NEW r \in 1 .. MaxReqs, accept_control(r)
      PROVE  Consuming' /\ (cur' \notin {0, cur} => cur' \notin acted)
    BY <1>5, AcceptContext DEF Consuming
<1> QED
    BY <1>1, <1>2, <1>3, <1>4, <1>5, StepCalm, KillContext, BootContext, OrphanContext,
       StrandCalm DEF Calm

\* A control request whose effect has begun is not accepted again, whatever
\* crash falls into it: ctl.consumed is journalled before the first effect, and
\* a consumed request is not pending.
THEOREM ControlActsOnce == Spec => ControlOnce
<1>1. Init => SInv /\ Consuming
    BY InitSInv, ConsumingInit
<1>2. SInv /\ Consuming /\ [Next]_vars => (SInv /\ Consuming)'
    BY NextSInv, ConsumingStep
<1>3. SInv /\ Consuming /\ [Next]_vars => (cur' \notin {0, cur} => cur' \notin acted)
    BY ConsumingStep
<1> QED
    BY <1>1, <1>2, <1>3, PTL DEF Spec, ControlOnce

-----------------------------------------------------------------------------
(***************************************************************************)
(* A session is new once.                                                  *)
(***************************************************************************)
LEMMA FreshInit == Init => FreshOK
BY DEF Init, FreshOK, EmptyJournal, Unset, NoChild

LEMMA FreshStep ==
    ASSUME SInv, FreshOK, [Next]_vars
    PROVE  FreshOK'
<1>1. CASE FreshCalm
    BY <1>1 DEF FreshCalm, FreshOK
<1>2. CASE bind_session
    <2>1. child'.st = "none" /\ used' = used \cap InUse /\ disk'.c.sid \notin InUse
        BY <1>2, BindContext
    <2> QED
        BY <2>1 DEF FreshOK
<1>3. CASE start_turn
    BY <1>3, TurnContext DEF FreshOK
<1>4. CASE Launch
    BY <1>4, LaunchContext DEF FreshOK
<1> QED
    BY <1>1, <1>2, <1>3, <1>4, StepCalm, KillContext, BootContext, OrphanContext,
       StrandCalm, AcceptContext DEF Calm

\* No session id is handed to the provider as new: twice: bind_session takes an
\* id that nothing names, and turn.started makes the session old in the journal
\* before the launch, so no restart takes it for new again.
THEOREM NewSessionsOnce == Spec => NewOnce
<1>1. Init => SInv /\ FreshOK
    BY InitSInv, FreshInit
<1>2. SInv /\ FreshOK /\ [Next]_vars => (SInv /\ FreshOK)'
    BY NextSInv, FreshStep
<1>3. FreshOK => (child.st = "prepared" /\ child'.st = "running" /\ child.arg = "new"
                    => child.sid \notin used)
    BY DEF FreshOK
<1> QED
    BY <1>1, <1>2, <1>3, PTL DEF Spec, NewOnce

-----------------------------------------------------------------------------
(***************************************************************************)
(* One turn at a time.                                                     *)
(***************************************************************************)
LEMMA OpenInit == Init => OpenOK
BY DEF Init, OpenOK, EmptyJournal, NoChild

LEMMA OpenStep ==
    ASSUME {"linger", "overrun"} \cap Faults = {}, SInv, OpenOK, [Next]_vars
    PROVE  OpenOK'
<1>1. CASE OpenCalm
    BY <1>1 DEF OpenCalm, OpenOK
<1>2. CASE bind_session
    BY <1>2, BindContext DEF OpenOK
<1>3. CASE start_turn
    <2>1. mem.sid # None
        BY <1>3, TurnContext, SupervisorAssumption
    <2> QED
        BY <1>3, <2>1, TurnContext DEF OpenOK
<1>4. CASE Launch
    BY <1>4, LaunchContext DEF OpenOK
<1>5. CASE Boot
    BY <1>5, BootContext DEF OpenOK
<1>6. CASE handle_orphan
    BY <1>6, OrphanContext DEF OpenOK
<1>7. CASE Crash \/ Terminate
    <2>1. disk' = disk /\ child'.st = "none" /\ phase' # "run" /\ Strand
        BY <1>7 DEF Crash, Terminate, Gone, NoChild
    <2>2. orphans' # {} => orphans # {} \/ child.st # "none"
        BY <2>1 DEF Strand
    <2> QED
        BY <2>1, <2>2 DEF OpenOK
<1> QED
    BY <1>1, <1>2, <1>3, <1>4, <1>5, <1>6, <1>7, StepCalm, KillContext,
       AcceptContext DEF Calm

\* Where a killed turn ends within its grace period and no orphan outlives
\* cap_timeout, a turn is launched only when none of an earlier process is
\* still running: turn.started is on disk before the launch, and a started
\* supervisor waits for what the journal leaves open (handle_orphan).
THEOREM OneTurnAtATime ==
    ASSUME {"linger", "overrun"} \cap Faults = {}
    PROVE  Spec => OneTurn
<1>1. Init => SInv /\ OpenOK
    BY InitSInv, OpenInit
<1>2. SInv /\ OpenOK /\ [Next]_vars => (SInv /\ OpenOK)'
    BY NextSInv, OpenStep
<1>3. SInv /\ OpenOK => (child.st = "prepared" /\ child'.st = "running" => orphans = {})
    BY DEF SInv, Planned, ChildOK, OpenOK
<1> QED
    BY <1>1, <1>2, <1>3, PTL DEF Spec, OneTurn

-----------------------------------------------------------------------------
(***************************************************************************)
(* A replaced session is handed over.                                      *)
(*                                                                         *)
(* The note is in the inbox before the session goes; the main loop takes   *)
(* it up first, or a message that the agent had sent to itself before it;  *)
(* and what was being worked on is dropped before a turn can begin for it. *)
(* A routine keeps its work and makes up a handover turn of its own, which *)
(* a crash loses with the routine: the argument is for agents whose        *)
(* requests are no routines.                                               *)
(***************************************************************************)
MessageWork(w) ==
    \A i \in 1 .. Len(w) :
        \/ w[i].kind = "msg" /\ w[i].id \in Ids
        \/ w[i].kind = "rotate" /\ w[i].id = None

\* The messages among the work are of this set.
MessagesIn(w, s) == \A i \in 1 .. Len(w) : w[i].kind = "msg" => w[i].id \in s

\* The note, and what may be chosen before it.
Ahead == {Note} \cup {m \in Msgs : Precedes(m, Note)}

\* An open message was listed before the note that is open, or after it.
NoteListed ==
    Open(Note) => \A m \in Msgs : Open(m) => <<m, Note>> \in order \/ <<Note, m>> \in order

Routines == {"feierabend", "standup"}

OnlyMessages ==
    /\ \A r \in DOMAIN ctl : ctl[r].verb \notin Routines
    /\ MessageWork(work)
    /\ phase # "run" => work = <<>>

\* In a plan that replaces the session the note comes first.
NoteFirst(s) ==
    \A j \in 1 .. Len(s) : s[j] \in {"rebind", "fresh"} => \E i \in 1 .. j - 1 : s[i] = "note"

\* What may be left of a plan whose note is sent.
AfterNote == Afters \cup {"rebind", "drop", "boot"}

NoteSent ==
    /\ NoteFirst(todo) \/ (Open(Note) /\ In(todo) \subseteq AfterNote)
    /\ "rebind" \in In(todo) /\ phase = "run" => "drop" \in In(todo)
    /\ "fresh" \in In(todo) => "restart" \in In(todo)

\* The main loop's plan to rotate: its note is still to be sent.
Rotating == cur = 0 /\ phase = "run" /\ "note" \in In(todo)

\* A turn was tried for the work at hand.
Tried == child.st # "none" \/ In(todo) \cap {"done", "fail", "persist", "engine"} # {} \/ Rotating

\* The plan gives up the work at hand.
Dropped == ("drop" \in In(todo) /\ ~Rotating) \/ "restart" \in In(todo)

\* While a handover is owed its note is open, what is worked on is the note or
\* goes before it, or is being dropped, and no turn was tried for the note.
Owing ==
    owed => /\ Open(Note)
            /\ MessagesIn(work, Ahead) \/ Dropped
            /\ Tried => Head(work).id # Note

HandedOver == NoteSent /\ Owing

LEMMA MessagesOfMore ==
    ASSUME NEW w, NEW s, NEW t, s \subseteq t, MessagesIn(w, s)
    PROVE  MessagesIn(w, t)
BY DEF MessagesIn

LEMMA MessagesOfNone ==
    ASSUME NEW s
    PROVE  MessagesIn(<<>>, s)
BY DEF MessagesIn

\* What goes before the note still does when more is listed.
LEMMA AheadGrows ==
    ASSUME order \subseteq order'
    PROVE  Ahead \subseteq Ahead'
BY DEF Ahead, Precedes, LaneOf

\* The note comes first in what is left, until it is the next step.
LEMMA NoteTail ==
    ASSUME NEW s \in Seq(Steps), s # <<>>, NoteFirst(s)
    PROVE  /\ Head(s) \notin {"rebind", "fresh"}
           /\ Head(s) # "note" => NoteFirst(Tail(s))
<1>1. /\ Tail(s) \in Seq(Steps) /\ Len(Tail(s)) = Len(s) - 1 /\ Len(s) \in Nat \ {0}
      /\ Head(s) = s[1] /\ \A i \in 1 .. Len(Tail(s)) : Tail(s)[i] = s[i + 1]
    BY EmptySeq, HeadTailProperties, LenProperties
<1>2. Head(s) \notin {"rebind", "fresh"}
    BY <1>1 DEF NoteFirst
<1>3. ASSUME Head(s) # "note", NEW j \in 1 .. Len(Tail(s)), Tail(s)[j] \in {"rebind", "fresh"}
      PROVE  \E i \in 1 .. j - 1 : Tail(s)[i] = "note"
    <2>1. j + 1 \in 1 .. Len(s) /\ s[j + 1] \in {"rebind", "fresh"}
        BY <1>1, <1>3
    <2>2. PICK i \in 1 .. (j + 1) - 1 : s[i] = "note"
        BY <2>1 DEF NoteFirst
    <2>3. i # 1 /\ i \in Int /\ 1 <= i /\ i <= j
        BY <1>1, <1>3, <2>2
    <2>4. i - 1 \in 1 .. j - 1 /\ i - 1 \in 1 .. Len(Tail(s))
        BY <1>1, <2>3
    <2>5. Tail(s)[i - 1] = s[(i - 1) + 1] /\ (i - 1) + 1 = i
        BY <1>1, <2>3, <2>4
    <2> QED
        BY <2>2, <2>4, <2>5
<1> QED
    BY <1>2, <1>3 DEF NoteFirst

LEMMA NoteJoined ==
    ASSUME NEW p \in Seq(Steps), NEW r \in Seq(Steps), NoteFirst(p), NoteFirst(r)
    PROVE  NoteFirst(p \o r)
<1> DEFINE t == p \o r
<1>1. /\ Len(t) = Len(p) + Len(r) /\ Len(p) \in Nat /\ Len(r) \in Nat
      /\ \A i \in 1 .. Len(p) : t[i] = p[i]
      /\ \A i \in 1 .. Len(r) : t[Len(p) + i] = r[i]
    BY ConcatProperties, LenProperties
<1> HIDE DEF t
<1>2. ASSUME NEW j \in 1 .. Len(t), t[j] \in {"rebind", "fresh"}
      PROVE  \E i \in 1 .. j - 1 : t[i] = "note"
    <2>1. CASE j <= Len(p)
        <3>1. j \in 1 .. Len(p) /\ t[j] = p[j]
            BY <1>1, <2>1
        <3>2. PICK i \in 1 .. j - 1 : p[i] = "note"
            BY <1>2, <3>1 DEF NoteFirst
        <3>3. i \in 1 .. Len(p)
            BY <1>1, <3>1, <3>2
        <3> QED
            BY <1>1, <3>2, <3>3
    <2>2. CASE j > Len(p)
        <3>1. j - Len(p) \in 1 .. Len(r) /\ t[j] = r[j - Len(p)]
            BY <1>1, <2>2
        <3>2. PICK i \in 1 .. (j - Len(p)) - 1 : r[i] = "note"
            BY <1>2, <3>1 DEF NoteFirst
        <3>3. Len(p) + i \in 1 .. j - 1 /\ t[Len(p) + i] = "note"
            BY <1>1, <3>1, <3>2
        <3> QED
            BY <3>3
    <2> QED
        BY <1>1, <2>1, <2>2
<1> QED
    BY <1>2 DEF NoteFirst, t

\* A plan that keeps the session.
LEMMA NoteIdle ==
    ASSUME NEW s \in Seq(Steps), In(s) \cap {"rebind", "fresh"} = {}
    PROVE  NoteFirst(s)
BY DEF NoteFirst, In

\* The steps of a plan are the next one and the others.
LEMMA InTail ==
    ASSUME NEW s \in Seq(Steps), s # <<>>
    PROVE  In(s) = {Head(s)} \cup In(Tail(s))
<1>1. /\ Len(Tail(s)) = Len(s) - 1 /\ Len(s) \in Nat \ {0}
      /\ Head(s) = s[1] /\ \A i \in 1 .. Len(Tail(s)) : Tail(s)[i] = s[i + 1]
    BY EmptySeq, HeadTailProperties, LenProperties
<1>2. ASSUME NEW i \in 1 .. Len(s) PROVE i = 1 \/ i - 1 \in 1 .. Len(Tail(s))
    BY <1>1
<1>3. ASSUME NEW i \in 1 .. Len(Tail(s)) PROVE i + 1 \in 1 .. Len(s)
    BY <1>1
<1>4. In(s) \subseteq {Head(s)} \cup In(Tail(s))
    <2> SUFFICES ASSUME NEW i \in 1 .. Len(s) PROVE s[i] \in {Head(s)} \cup In(Tail(s))
        BY DEF In
    <2>1. CASE i = 1
        BY <1>1, <2>1
    <2>2. CASE i # 1
        <3>1. i - 1 \in 1 .. Len(Tail(s)) /\ Tail(s)[i - 1] = s[i]
            BY <1>1, <1>2, <2>2
        <3> QED
            BY <3>1 DEF In
    <2> QED
        BY <2>1, <2>2
<1>5. {Head(s)} \cup In(Tail(s)) \subseteq In(s)
    <2>1. Head(s) \in In(s)
        BY HeadIn
    <2>2. ASSUME NEW i \in 1 .. Len(Tail(s)) PROVE Tail(s)[i] \in In(s)
        BY <1>1, <1>3 DEF In
    <2> QED
        BY <2>1, <2>2 DEF In
<1> QED
    BY <1>4, <1>5

\* The first item of the work, and the others.
LEMMA FirstItem ==
    ASSUME NEW w \in Seq(Items), w # <<>>, MessageWork(w)
    PROVE  /\ Head(w) = w[1] /\ MessageWork(Tail(w))
           /\ \/ Head(w).kind = "msg" /\ Head(w).id \in Ids
              \/ Head(w).kind = "rotate" /\ Head(w).id = None
<1>1. /\ Len(Tail(w)) = Len(w) - 1 /\ Len(w) \in Nat \ {0} /\ 1 \in 1 .. Len(w)
      /\ Head(w) = w[1] /\ \A i \in 1 .. Len(Tail(w)) : Tail(w)[i] = w[i + 1]
    BY EmptySeq, HeadTailProperties, LenProperties
<1>2. ASSUME NEW i \in 1 .. Len(Tail(w))
      PROVE  i + 1 \in 1 .. Len(w) /\ Tail(w)[i] = w[i + 1]
    BY <1>1
<1>3. MessageWork(Tail(w))
    BY <1>2 DEF MessageWork
<1> QED
    BY <1>1, <1>3 DEF MessageWork

LEMMA FirstMessage ==
    ASSUME NEW w \in Seq(Items), w # <<>>, NEW s, MessagesIn(w, s)
    PROVE  MessagesIn(Tail(w), s) /\ (Head(w).kind = "msg" => Head(w).id \in s)
<1>1. /\ Len(Tail(w)) = Len(w) - 1 /\ Len(w) \in Nat \ {0} /\ 1 \in 1 .. Len(w)
      /\ Head(w) = w[1] /\ \A i \in 1 .. Len(Tail(w)) : Tail(w)[i] = w[i + 1]
    BY EmptySeq, HeadTailProperties, LenProperties
<1>2. ASSUME NEW i \in 1 .. Len(Tail(w))
      PROVE  i + 1 \in 1 .. Len(w) /\ Tail(w)[i] = w[i + 1]
    BY <1>1
<1> QED
    BY <1>1, <1>2 DEF MessagesIn

\* The turn before a rotation goes in front of the work.
LEMMA RotateFirst ==
    ASSUME NEW w \in Seq(Items), MessageWork(w)
    PROVE  /\ MessageWork(PolicyHandover(w))
           /\ \A s : MessagesIn(w, s) => MessagesIn(PolicyHandover(w), s)
<1> DEFINE it == Item("rotate", None, 0)
           t == <<it>> \o w
<1>1. it \in Items /\ it.kind = "rotate" /\ it.id = None
    BY SupervisorAssumption DEF Item, Items, Kinds
<1> HIDE DEF it
<1>2. /\ t \in Seq(Items) /\ Len(t) = 1 + Len(w) /\ Len(w) \in Nat
      /\ t[1] = it /\ \A i \in 2 .. Len(t) : t[i] = w[i - 1]
    BY <1>1, ConcatProperties, LenProperties
<1> HIDE DEF t
<1>3. ASSUME NEW i \in 1 .. Len(t)
      PROVE  \/ t[i].kind = "rotate" /\ t[i].id = None
             \/ i - 1 \in 1 .. Len(w) /\ t[i] = w[i - 1]
    BY <1>1, <1>2
<1>4. MessageWork(t)
    BY <1>3 DEF MessageWork
<1>5. ASSUME NEW s, MessagesIn(w, s) PROVE MessagesIn(t, s)
    BY <1>3, <1>5 DEF MessagesIn
<1>6. PolicyHandover(w) \in {w, t}
    BY DEF PolicyHandover, t, it
<1> QED
    BY <1>4, <1>5, <1>6

\* A count of the first item changes.
LEMMA CountedItem ==
    ASSUME NEW w \in Seq(Items), w # <<>>, MessageWork(w),
           NEW it, it.kind = w[1].kind, it.id = w[1].id, NEW v \in Seq(Items),
           v = [w EXCEPT ![1] = it]
    PROVE  /\ MessageWork(v) /\ v # <<>> /\ Head(v).kind = Head(w).kind /\ Head(v).id = Head(w).id
           /\ \A s : MessagesIn(w, s) => MessagesIn(v, s)
<1>1. Len(w) \in Nat \ {0} /\ 1 \in 1 .. Len(w) /\ Head(w) = w[1] /\ DOMAIN w = 1 .. Len(w)
    BY EmptySeq, LenProperties, HeadTailProperties
<1>2. DOMAIN v = 1 .. Len(w) /\ DOMAIN v = 1 .. Len(v) /\ Len(v) \in Nat
    BY <1>1, LenProperties
<1>3. Len(v) = Len(w)
    BY <1>1, <1>2
<1>4. \A i \in 1 .. Len(v) : v[i] = IF i = 1 THEN it ELSE w[i]
    BY <1>1, <1>3
<1>5. v # <<>> /\ Head(v) = it
    BY <1>1, <1>3, <1>4, EmptySeq, HeadTailProperties
<1> QED
    BY <1>1, <1>3, <1>4, <1>5 DEF MessageWork, MessagesIn

\* The next step is done: the note is sent or still comes first.
LEMMA NoteGoesOn ==
    ASSUME SInv, NoteSent, todo # <<>>, Then(<<>>), phase' = phase, Head(todo) # "restart",
           Head(todo) = "note" => Open(Note)',
           Open(Note) /\ In(todo) \subseteq AfterNote => Open(Note)'
    PROVE  NoteSent'
<1>1. /\ todo \in Seq(Steps) /\ Ordered(todo) /\ TodoOK
    BY DEF SInv, TypeOK, Planned, TodoOK
<1>2. /\ todo' = Tail(todo) /\ todo' \in Seq(Steps) /\ In(todo) = {Head(todo)} \cup In(todo')
      /\ \A y \in In(todo') : MayPrecede(Head(todo), y)
    BY <1>1, StepDone, InTail
<1>3. NoteFirst(todo)' \/ (Open(Note) /\ In(todo) \subseteq AfterNote)'
    <2>1. CASE Head(todo) = "note"
        <3>1. In(todo') \subseteq AfterNote
            BY <1>2, <2>1 DEF MayPrecede, AfterNote, Afters
        <3> QED
            BY <2>1, <3>1
    <2>2. CASE Head(todo) # "note" /\ NoteFirst(todo)
        BY <1>1, <1>2, <2>2, NoteTail
    <2>3. CASE Open(Note) /\ In(todo) \subseteq AfterNote
        BY <1>2, <2>3
    <2> QED
        BY <2>1, <2>2, <2>3 DEF NoteSent
<1>4. "rebind" \in In(todo') /\ phase' = "run" => "drop" \in In(todo')
    <2> SUFFICES ASSUME "rebind" \in In(todo'), phase' = "run" PROVE "drop" \in In(todo')
        OBVIOUS
    <2>1. MayPrecede(Head(todo), "rebind") /\ "drop" \in In(todo)
        BY <1>2 DEF NoteSent
    <2>2. Head(todo) # "drop"
        BY <2>1 DEF MayPrecede, Afters
    <2> QED
        BY <1>2, <2>1, <2>2
<1>5. "fresh" \in In(todo') => "restart" \in In(todo')
    BY <1>2 DEF NoteSent
<1> QED
    BY <1>3, <1>4, <1>5 DEF NoteSent

\* The main loop's plan to rotate is all there is.
LEMMA RotatingPlan ==
    ASSUME SInv, Rotating
    PROVE  todo = <<"note", "rebind", "drop">>
BY DEF SInv, Planned, WorkOK, Rotating

\* The work is kept, or none is left.
LEMMA MessagesKept ==
    ASSUME OnlyMessages, ctl' = ctl, work' \in {work, <<>>},
           phase' = "run" \/ phase' = phase \/ work' = <<>>
    PROVE  OnlyMessages'
BY DEF OnlyMessages, MessageWork

LEMMA MessagesGone ==
    ASSUME OnlyMessages, ctl' = ctl, NEW next, Gone(next)
    PROVE  OnlyMessages'
BY MessagesKept DEF Gone

LEMMA MessagesPolled ==
    ASSUME SInv, OnlyMessages, Poll
    PROVE  OnlyMessages'
<1>1. /\ phase' = phase /\ phase = "run" /\ ctl' = ctl /\ todo = <<>>
      /\ work \in Seq(Items)
    BY DEF Poll, PollRetry, PollMessage, MayPoll, Idle, outside, SInv, TypeOK
<1>2. MessageWork(work')
    <2>1. ASSUME NEW i \in Ids, PollMessage(i) PROVE MessageWork(work')
        <3>1. Item("msg", i, 0) \in Items /\ Item("msg", i, 0).kind = "msg"
              /\ Item("msg", i, 0).id = i
            BY SupervisorAssumption DEF Item, Items, Kinds
        <3>2. <<Item("msg", i, 0)>> \in Seq(Items) /\ MessageWork(<<Item("msg", i, 0)>>)
            BY <3>1 DEF MessageWork
        <3> QED
            BY <2>1, <3>2, RotateFirst DEF PollMessage
    <2>2. CASE PollRetry
        BY <1>1, <2>2, RotateFirst DEF PollRetry, OnlyMessages
    <2> QED
        BY <2>1, <2>2 DEF Poll
<1> QED
    BY <1>1, <1>2 DEF OnlyMessages

LEMMA MessagesFinished ==
    ASSUME SInv, OnlyMessages, Finish
    PROVE  OnlyMessages'
<1>1. /\ Finishing /\ phase' = phase /\ ctl' = ctl
    BY DEF Finish, FinishOk, FinishRetry, FinishLost, FinishLostAgain, FinishFailure, outside
<1>2. /\ work \in Seq(Items) /\ work # <<>> /\ Current \in Items /\ Current = work[1]
      /\ phase = "run"
    BY <1>1, FinishContext
<1>3. MessageWork(Tail(work)) /\ MessageWork(work) /\ Current.kind # "ctl"
    BY <1>2, FirstItem DEF OnlyMessages, Current
<1>4. MessageWork(work')
    <2>1. CASE FinishOk
        BY <1>3, <2>1 DEF FinishOk
    <2>2. CASE FinishLost
        <3> DEFINE n == IF Current.id \in Ids THEN 0 ELSE 1
                   it == [Current EXCEPT !.lost = n]
                   v == [work EXCEPT ![1] = it]
        <3>1. n \in 0 .. 1
            OBVIOUS
        <3>2. work' = [work EXCEPT ![1].lost = n]
            BY <1>3, <2>2 DEF FinishLost
        <3> HIDE DEF n
        <3>3. it \in Items /\ it.kind = work[1].kind /\ it.id = work[1].id
            BY <1>2, <3>1 DEF Items
        <3>4. work' = v
            BY <1>2, <3>2
        <3>5. v \in Seq(Items)
            <4>1. Len(work) \in Nat \ {0} /\ 1 \in 1 .. Len(work)
                BY <1>2, EmptySeq, LenProperties
            <4> HIDE DEF it
            <4> QED
                BY <1>2, <3>3, <4>1, ExceptSeq
        <3> HIDE DEF it, v
        <3>6. v = [work EXCEPT ![1] = it]
            BY DEF v
        <3> QED
            BY <1>2, <1>3, <3>3, <3>4, <3>5, <3>6, CountedItem
    <2>3. CASE FinishRetry \/ FinishLostAgain \/ FinishFailure
        BY <1>3, <2>3 DEF FinishRetry, FinishLostAgain, FinishFailure
    <2> QED
        BY <2>1, <2>2, <2>3 DEF Finish
<1> QED
    BY <1>1, <1>2, <1>4 DEF OnlyMessages

\* What an engine error leaves of the work.
LEMMA EngineWork ==
    ASSUME SInv, OnlyMessages, _message_engine_error
    PROVE  /\ work # <<>> /\ MessageWork(work') /\ Head(work').id = Head(work).id
           /\ MessagesIn(work, Ahead) => MessagesIn(work', Ahead)
<1>1. /\ At("engine") /\ work' = IF Current.id \in Ids THEN work ELSE [work EXCEPT ![1].errs = @ + 1]
    BY DEF _message_engine_error
<1>2. /\ todo # <<>> /\ Head(todo) = "engine" /\ todo \in Seq(Steps)
      /\ work \in Seq(Items)
    BY <1>1, AtStep
<1>3. work # <<>>
    BY <1>2, HeadIn DEF SInv, Planned, WorkOK, WorkSteps
<1>4. Current \in Items /\ Current = work[1] /\ MessageWork(work)
    BY <1>2, <1>3, HeadTailProperties DEF Current, OnlyMessages
<1>5. CASE Current.id \in Ids
    BY <1>1, <1>3, <1>4, <1>5
<1>6. CASE Current.id \notin Ids
    <2> DEFINE it == [Current EXCEPT !.errs = Current.errs + 1]
               v == [work EXCEPT ![1] = it]
    <2>1. it \in Items /\ it.kind = work[1].kind /\ it.id = work[1].id
        BY <1>4 DEF Items
    <2>2. work' = v
        BY <1>1, <1>4, <1>6
    <2>3. v \in Seq(Items)
        <3>1. Len(work) \in Nat \ {0} /\ 1 \in 1 .. Len(work)
            BY <1>2, <1>3, EmptySeq, LenProperties
        <3> HIDE DEF it
        <3> QED
            BY <1>2, <2>1, <3>1, ExceptSeq
    <2> HIDE DEF it, v
    <2>4. v = [work EXCEPT ![1] = it]
        BY DEF v
    <2> QED
        BY <1>2, <1>3, <1>4, <2>1, <2>2, <2>3, <2>4, CountedItem
<1> QED
    BY <1>5, <1>6

\* Only a request for a routine makes a plan with one.
LEMMA NoRoutine ==
    ASSUME SInv, OnlyMessages
    PROVE  ~begin_control_routine
<1> SUFFICES ASSUME At("routine") PROVE FALSE
    BY DEF begin_control_routine
<1>1. "routine" \in In(todo)
    BY AtStep, HeadIn
<1> QED
    BY <1>1 DEF SInv, Planned, TodoOK, OnlyMessages, Routines

LEMMA MessagesInit == Init => OnlyMessages
BY DEF Init, OnlyMessages, MessageWork

\* The work is only ever messages and rotations.
LEMMA MessagesStep ==
    ASSUME \A v \in Verbs : v.verb \notin Routines, SInv, OnlyMessages, [Next]_vars
    PROVE  OnlyMessages'
<1>1. CASE Turn
    BY <1>1, MessagesKept DEF Turn, start_turn, Launch, LaunchFails, bind_session, outside
<1>2. CASE FollowUp
    <2>1. CASE Raises
        <3>1. CASE cur # 0 \/ phase = "boot"
            BY <2>1, <3>1, MessagesGone DEF Raises, outside
        <3>2. CASE ~(cur # 0 \/ phase = "boot")
            BY <2>1, <3>2, MessagesKept DEF Raises, outside
        <3> QED
            BY <3>1, <3>2
    <2>2. CASE _message_engine_error
        <3>1. phase' = phase /\ ctl' = ctl /\ work # <<>> /\ MessageWork(work')
            BY <2>2, EngineWork DEF _message_engine_error, outside
        <3> QED
            BY <3>1 DEF OnlyMessages
    <2>3. CASE Restore \/ Persist \/ OffDuty \/ Drop \/ Close \/ add_handover_note
        BY <2>3, MessagesKept DEF Restore, Persist, OffDuty, Drop, Close, add_handover_note, outside
    <2> QED
        BY <1>2, <2>1, <2>2, <2>3 DEF FollowUp
<1>3. CASE Control
    <2>1. CASE Restart \/ ShutDown
        BY <2>1, MessagesGone DEF Restart, ShutDown, outside
    <2>2. CASE CancelCollects \/ CancelKills \/ clear_brake \/ RotateFresh \/ OnDuty
        BY <2>2, MessagesKept DEF CancelCollects, CancelKills, clear_brake, RotateFresh, OnDuty,
           outside
    <2>3. ASSUME NEW r \in 1 .. MaxReqs, accept_control(r) \/ reject_control(r)
          PROVE  OnlyMessages'
        BY <2>3, MessagesKept DEF accept_control, reject_control, outside
    <2> QED
        BY <1>3, <2>1, <2>2, <2>3, NoRoutine DEF Control
<1>4. CASE Boot \/ handle_orphan \/ Start
    <2>1. work = <<>> /\ work' = work /\ ctl' = ctl
        <3>1. CASE Boot
            <4>1. "boot" \in In(todo)
                BY <3>1, AtStep, HeadIn DEF Boot
            <4> QED
                BY <3>1, <4>1 DEF Boot, outside, SInv, Planned, TodoOK, OnlyMessages
        <3>2. CASE handle_orphan \/ Start
            BY <3>2 DEF handle_orphan, Start, outside, OnlyMessages
        <3> QED
            BY <1>4, <3>1, <3>2
    <2> QED
        BY <2>1, MessagesKept
<1>5. CASE Environment
    <2>1. CASE Crash \/ Terminate \/ Reexec
        BY <2>1, MessagesGone DEF Crash, Terminate, Reexec, outside
    <2>2. ASSUME NEW v \in Verbs, File(v) PROVE OnlyMessages'
        <3>1. ctl' = Append(ctl, v) /\ work' = work /\ phase' = phase
            BY <2>2 DEF File
        <3>2. ctl \in Seq(Requests) /\ v \in Requests
            BY SupervisorAssumption DEF SInv, TypeOK
        <3>3. \A r \in DOMAIN ctl' : ctl'[r] = v \/ (r \in DOMAIN ctl /\ ctl'[r] = ctl[r])
            BY <3>1, <3>2, AppendProperties
        <3> QED
            BY <3>1, <3>3 DEF OnlyMessages
    <2>3. ASSUME NEW m \in Msgs, Receive(m) PROVE OnlyMessages'
        BY <2>3, MessagesKept DEF Receive
    <2>4. ASSUME NEW st, Fails(st) PROVE OnlyMessages'
        BY <2>4, MessagesKept DEF Fails, Exit
    <2>5. ASSUME NEW s, Forget(s) PROVE OnlyMessages'
        BY <2>5, MessagesKept DEF Forget
    <2>6. CASE Refuses \/ Rehome
        BY <2>6, MessagesKept DEF Refuses, Exit, Rehome
    <2> QED
        BY <1>5, <2>1, <2>2, <2>3, <2>4, <2>5, <2>6 DEF Environment
<1>6. CASE Answers \/ Loses
    BY <1>6, MessagesKept DEF Answers, Loses, Exit
<1>7. ASSUME NEW s, OrphanEnds(s) PROVE OnlyMessages'
    BY <1>7, MessagesKept DEF OrphanEnds
<1>8. CASE UNCHANGED vars
    BY <1>8, MessagesKept DEF vars
<1> QED
    BY <1>1, <1>2, <1>3, <1>4, <1>5, <1>6, <1>7, <1>8, MessagesPolled, MessagesFinished
       DEF Next, Steady

LEMMA InJoined ==
    ASSUME NEW p \in Seq(Steps), NEW r \in Seq(Steps)
    PROVE  In(p \o r) = In(p) \cup In(r)
<1> DEFINE t == p \o r
<1>1. /\ Len(t) = Len(p) + Len(r) /\ Len(p) \in Nat /\ Len(r) \in Nat
      /\ \A i \in 1 .. Len(p) : t[i] = p[i]
      /\ \A i \in 1 .. Len(r) : t[Len(p) + i] = r[i]
    BY ConcatProperties, LenProperties
<1> HIDE DEF t
<1>2. ASSUME NEW i \in 1 .. Len(t) PROVE t[i] \in In(p) \cup In(r)
    <2>1. CASE i \in 1 .. Len(p)
        BY <1>1, <2>1 DEF In
    <2>2. CASE i \notin 1 .. Len(p)
        <3>1. i - Len(p) \in 1 .. Len(r) /\ Len(p) + (i - Len(p)) = i
            BY <1>1, <2>2
        <3>2. t[i] = r[i - Len(p)]
            BY <1>1, <3>1
        <3> QED
            BY <3>1, <3>2 DEF In
    <2> QED
        BY <2>1, <2>2
<1>3. ASSUME NEW i \in 1 .. Len(p) PROVE p[i] \in In(t)
    <2>1. i \in 1 .. Len(t) /\ t[i] = p[i]
        BY <1>1
    <2> QED
        BY <2>1 DEF In
<1>4. ASSUME NEW i \in 1 .. Len(r) PROVE r[i] \in In(t)
    <2>1. Len(p) + i \in 1 .. Len(t) /\ t[Len(p) + i] = r[i]
        BY <1>1
    <2> QED
        BY <2>1 DEF In
<1>5. In(t) = In(p) \cup In(r)
    BY <1>2, <1>3, <1>4 DEF In
<1> QED
    BY <1>5 DEF t

\* The next step is done: what is owed stays owed, or becomes so with the note
\* sent and the work given up.
LEMMA OwingGoesOn ==
    ASSUME SInv, OnlyMessages, HandedOver, todo # <<>>, Then(<<>>), phase' = phase,
           Head(todo) # "restart",
           owed' => owed \/ Head(todo) \in {"rebind", "fresh"},
           child'.st # "none" => child.st # "none",
           \/ work' = work /\ Head(todo) \notin {"drop", "off", "done", "fail"}
           \/ work' = <<>> /\ Head(todo) \in {"drop", "off", "done", "fail"},
           Head(todo) = "note" => Open(Note)',
           owed \/ In(todo) \subseteq AfterNote => (Open(Note) => Open(Note)'),
           owed => order \subseteq order'
    PROVE  HandedOver'
<1>1. /\ todo \in Seq(Steps) /\ TodoOK /\ NoteSent /\ Owing
    BY DEF SInv, TypeOK, Planned, HandedOver
<1>2. /\ todo' = Tail(todo) /\ In(todo) = {Head(todo)} \cup In(todo')
      /\ \A y \in In(todo') : MayPrecede(Head(todo), y)
      /\ In(todo') # {} => cur' = cur
    BY <1>1, StepDone, InTail, InEmpty
<1>3. NoteSent'
    BY <1>1, NoteGoesOn
<1>4. Rotating' => Rotating
    BY <1>2 DEF Rotating
<1>5. Rotating => todo = <<"note", "rebind", "drop">> /\ Head(todo) = "note"
    <2>1. Head(<<"note", "rebind", "drop">>) = "note"
        OBVIOUS
    <2> QED
        BY <2>1, RotatingPlan
<1>6. ~Rotating'
    <2> SUFFICES ASSUME Rotating' PROVE FALSE
        OBVIOUS
    <2>1. todo' = <<"rebind", "drop">>
        BY <1>2, <1>4, <1>5, FixedPlans
    <2> QED
        BY <2>1, FixedPlans DEF Rotating
<1>7. Tried' => Tried
    BY <1>2, <1>6 DEF Tried
<1>8. CASE owed /\ Head(todo) \notin {"rebind", "fresh"}
    <2>1. Open(Note)'
        BY <1>1, <1>8 DEF Owing
    <2>2. CASE Head(todo) \notin {"drop", "off", "done", "fail"}
        <3>1. work' = work
            BY <2>2
        <3>2. Dropped => Dropped'
            BY <1>2, <1>6, <2>2 DEF Dropped
        <3>3. MessagesIn(work', Ahead') \/ Dropped'
            BY <1>1, <1>8, <3>1, <3>2, AheadGrows, MessagesOfMore DEF Owing
        <3>4. Tried' => Head(work').id # Note
            BY <1>1, <1>7, <1>8, <3>1 DEF Owing
        <3> QED
            BY <1>3, <2>1, <3>3, <3>4 DEF HandedOver, Owing
    <2>3. CASE Head(todo) \in {"drop", "off", "done", "fail"}
        <3>1. child.st = "none"
            BY <1>1, <2>3, NoChildAt DEF SInv, Planned
        <3>2. In(todo') \cap {"done", "fail", "persist", "engine"} = {}
            BY <1>2, <2>3 DEF MayPrecede, Afters
        <3>3. ~Tried'
            BY <1>6, <3>1, <3>2 DEF Tried
        <3>4. MessagesIn(work', Ahead')
            BY <2>3, MessagesOfNone
        <3> QED
            BY <1>3, <2>1, <3>3, <3>4 DEF HandedOver, Owing
    <2> QED
        BY <2>2, <2>3
<1>9. CASE Head(todo) \in {"rebind", "fresh"}
    <2>1. child.st = "none" /\ work' = work
        BY <1>1, <1>9, NoChildAt DEF SInv, Planned
    <2>2. Open(Note) /\ In(todo) \subseteq AfterNote
        BY <1>1, <1>9, NoteTail DEF NoteSent
    <2>3. In(todo') \cap {"done", "fail", "persist", "engine"} = {}
        BY <1>2, <1>9 DEF MayPrecede, Afters
    <2>4. ~Tried' /\ Open(Note)'
        BY <1>6, <2>1, <2>2, <2>3 DEF Tried
    <2>5. MessagesIn(work', Ahead') \/ Dropped'
        <3>1. CASE phase = "run" /\ Head(todo) = "rebind"
            BY <1>1, <1>2, <1>6, <3>1 DEF NoteSent, Dropped
        <3>2. CASE Head(todo) = "fresh"
            BY <1>1, <1>2, <3>2 DEF NoteSent, Dropped
        <3>3. CASE phase # "run"
            BY <2>1, <3>3, MessagesOfNone DEF OnlyMessages
        <3> QED
            BY <1>9, <3>1, <3>2, <3>3
    <2> QED
        BY <1>3, <2>4, <2>5 DEF HandedOver, Owing
<1>10. CASE ~owed /\ Head(todo) \notin {"rebind", "fresh"}
    BY <1>3, <1>10 DEF HandedOver, Owing
<1> QED
    BY <1>8, <1>9, <1>10

\* The next step, or a finished turn, asks for others.
LEMMA OwingPlans ==
    ASSUME SInv, HandedOver, phase = "run",
           todo = <<>> \/ Head(todo) \in {"launch", "cancel", "finish", "engine"},
           NEW pre \in Seq(Steps), Then(pre), NoteFirst(pre), "fresh" \notin In(pre),
           "rebind" \in In(pre) => "drop" \in In(pre),
           UNCHANGED <<phase, inbox, order, owed>>,
           MessagesIn(work, Ahead) => MessagesIn(work', Ahead),
           owed => \/ Head(work').id # Note
                   \/ child'.st = "none"
                      /\ In(pre) \cap {"note", "done", "fail", "persist", "engine"} = {}
    PROVE  HandedOver'
<1>1. /\ todo \in Seq(Steps) /\ TodoOK /\ NoteSent /\ Owing
    BY DEF SInv, TypeOK, Planned, HandedOver
<1>2. /\ Rest \in Seq(Steps) /\ NoteFirst(Rest)
      /\ In(Rest) \subseteq Afters /\ ("restart" \in In(todo) => "restart" \in In(Rest))
      /\ In(Rest) \subseteq In(todo) /\ "drop" \notin In(todo)
    <2>1. CASE todo = <<>>
        <3>1. Rest = <<>> /\ In(<<>>) = {} /\ NoteFirst(<<>>)
            BY <2>1, InEmpty DEF Rest, NoteFirst
        <3> QED
            BY <2>1, <3>1
    <2>2. CASE todo # <<>>
        <3>1. /\ Rest = Tail(todo) /\ Rest \in Seq(Steps)
              /\ In(todo) = {Head(todo)} \cup In(Rest)
              /\ \A y \in In(Rest) : MayPrecede(Head(todo), y)
            BY <1>1, <2>2, TailOrdered, InTail DEF Rest, TodoOK
        <3>2. Head(todo) \notin AfterNote /\ Head(todo) # "note"
            BY <2>2 DEF AfterNote, Afters
        <3>3. NoteFirst(Rest)
            BY <1>1, <2>2, <3>1, <3>2, NoteTail DEF NoteSent
        <3>4. In(Rest) \subseteq Afters
            <4>1. CASE Head(todo) = "launch"
                <5>1. At("launch")
                    BY <2>2, <4>1 DEF At
                <5> QED
                    BY <5>1, LaunchLast, InEmpty
            <4>2. CASE Head(todo) # "launch"
                BY <2>2, <3>1, <4>2 DEF MayPrecede
            <4> QED
                BY <4>1, <4>2
        <3>5. "drop" \notin In(todo)
            BY <2>2, <3>1, <3>4 DEF Afters
        <3> QED
            BY <2>2, <3>1, <3>3, <3>4, <3>5
    <2> QED
        BY <2>1, <2>2
<1>3. /\ todo' = pre \o Rest /\ cur' = IF todo' = <<>> THEN 0 ELSE cur
      /\ todo' \in Seq(Steps)
    BY <1>2, ConcatProperties DEF Then
<1>4. In(todo') = In(pre) \cup In(Rest)
    BY <1>2, <1>3, InJoined
<1>5. NoteFirst(todo')
    BY <1>2, <1>3, NoteJoined
<1>6. NoteSent'
    BY <1>1, <1>2, <1>4, <1>5 DEF NoteSent, Afters
<1>7. ASSUME owed
      PROVE  /\ Open(Note)' /\ (MessagesIn(work', Ahead') \/ Dropped')
             /\ Tried' => Head(work').id # Note
    <2>1. /\ Open(Note)' /\ (MessagesIn(work', Ahead) \/ Dropped)
          /\ MessagesIn(work', Ahead) => MessagesIn(work', Ahead')
        BY <1>1, <1>7, AheadGrows, MessagesOfMore DEF Owing, Open
    <2>2. Dropped => Dropped'
        BY <1>2, <1>4 DEF Dropped
    <2>3. ASSUME child'.st = "none",
                 In(pre) \cap {"note", "done", "fail", "persist", "engine"} = {}
          PROVE  ~Tried'
        <3>1. ~Rotating'
            <4> SUFFICES ASSUME Rotating' PROVE FALSE
                OBVIOUS
            <4>1. "note" \in In(Rest) /\ todo' # <<>>
                BY <1>3, <1>4, <2>3, InEmpty DEF Rotating
            <4>2. Rotating
                BY <1>2, <1>3, <4>1 DEF Rotating
            <4>3. todo = <<"note", "rebind", "drop">>
                BY <4>2, RotatingPlan
            <4>4. Head(<<"note", "rebind", "drop">>) = "note"
                OBVIOUS
            <4> QED
                BY <4>3, <4>4
        <3> QED
            BY <1>2, <1>4, <2>3, <3>1 DEF Tried, Afters
    <2> QED
        BY <1>7, <2>1, <2>2, <2>3
<1> QED
    BY <1>6, <1>7 DEF HandedOver, Owing

\* Nothing that the handover is about changes.
LEMMA OwingKept ==
    ASSUME HandedOver, UNCHANGED <<phase, todo, cur, work, owed>>, order \subseteq order',
           inbox'[Note] = inbox[Note], child'.st # "none" => child.st # "none"
    PROVE  HandedOver'
<1>1. /\ Open(Note)' = Open(Note) /\ Dropped' = Dropped /\ (Tried' => Tried)
      /\ MessagesIn(work, Ahead) => MessagesIn(work', Ahead')
    BY AheadGrows, MessagesOfMore DEF Open, Dropped, Tried, Rotating
<1> QED
    BY <1>1 DEF HandedOver, NoteSent, Owing

LEMMA OwingGone ==
    ASSUME HandedOver, NEW next, Gone(next), UNCHANGED <<inbox, owed>>
    PROVE  HandedOver'
<1>1. In(todo') = {} /\ NoteFirst(todo') /\ child'.st = "none" /\ MessagesIn(work', Ahead')
    BY InEmpty, MessagesOfNone DEF Gone, NoChild, NoteFirst
<1>2. Open(Note)' = Open(Note)
    BY DEF Open
<1> QED
    BY <1>1, <1>2 DEF HandedOver, NoteSent, Owing, Tried, Rotating

\* The main loop takes up the note, or what goes before it.
LEMMA OwingPolled ==
    ASSUME SInv, OnlyMessages, NoteListed, HandedOver, Poll
    PROVE  HandedOver'
<1>1. /\ phase = "run" /\ phase' = phase /\ todo = <<>> /\ child.st = "none" /\ child' = child
      /\ todo' = StartSteps /\ UNCHANGED <<owed, order>> /\ work \in Seq(Items)
    BY DEF Poll, PollRetry, PollMessage, MayPoll, Idle, outside, history, SInv, TypeOK
<1>2. In(todo') \subseteq {"bind", "start", "launch"} /\ todo' \in Seq(Steps)
    <2>1. <<"start", "launch">> \in Seq(Steps) /\ <<"bind", "start", "launch">> \in Seq(Steps)
        BY DEF Steps
    <2> QED
        BY <1>1, <2>1, StartStepsPlan, FixedPlans
<1>3. NoteSent' /\ ~Tried'
    <2>1. NoteFirst(todo')
        BY <1>2, NoteIdle
    <2> QED
        BY <1>1, <1>2, <2>1 DEF NoteSent, Tried, Rotating
<1>4. ASSUME owed PROVE Open(Note)' /\ MessagesIn(work', Ahead)
    <2>1. Open(Note) /\ MessagesIn(work, Ahead)
        BY <1>1, <1>4, InEmpty DEF HandedOver, Owing, Dropped
    <2>2. CASE PollRetry
        BY <1>1, <2>1, <2>2, RotateFirst DEF PollRetry, Open, OnlyMessages
    <2>3. ASSUME NEW i \in Ids, PollMessage(i) PROVE Open(Note)' /\ MessagesIn(work', Ahead)
        <3>1. i \in Ahead
            <4> SUFFICES ASSUME i # Note PROVE Precedes(i, Note)
                BY DEF Ahead, Ids
            <4>1. i \in Msgs /\ Lane[i] \in 0 .. 3 /\ Note \in Ids
                BY SupervisorAssumption DEF Ids
            <4>2. Open(i) /\ ~Precedes(Note, i)
                BY <2>1, <2>3, <4>1 DEF PollMessage, choose_message
            <4>3. Lane[i] = 0 /\ <<Note, i>> \notin order
                BY <4>1, <4>2 DEF Precedes, LaneOf
            <4>4. <<i, Note>> \in order
                BY <2>1, <4>1, <4>2, <4>3 DEF NoteListed
            <4> QED
                BY <4>3, <4>4 DEF Precedes, LaneOf
        <3>2. Open(Note)'
            BY <2>1, <2>3 DEF PollMessage, Open, SInv, TypeOK
        <3> DEFINE it == Item("msg", i, 0)
        <3>3. it \in Items /\ it.kind = "msg" /\ it.id = i
            BY SupervisorAssumption DEF Item, Items, Kinds, Ids
        <3>4. work' = PolicyHandover(<<it>>)
            BY <2>3 DEF PollMessage
        <3> HIDE DEF it
        <3>5. <<it>> \in Seq(Items) /\ MessageWork(<<it>>) /\ MessagesIn(<<it>>, Ahead)
            BY <3>1, <3>3 DEF MessageWork, MessagesIn
        <3> QED
            BY <3>2, <3>4, <3>5, RotateFirst
    <2> QED
        BY <2>2, <2>3 DEF Poll
<1>5. MessagesIn(work', Ahead) => MessagesIn(work', Ahead')
    BY <1>1, AheadGrows, MessagesOfMore
<1> QED
    BY <1>1, <1>3, <1>4, <1>5 DEF HandedOver, Owing

\* The turn that begins is the note's, of what goes before it, or the one before
\* a rotation.
LEMMA OwingStarted ==
    ASSUME SInv, OnlyMessages, HandedOver, start_turn
    PROVE  /\ owed => Open(Note)
           /\ owed /\ Head(work).kind = "msg" => Head(work).id \in Ahead
           /\ HandedOver'
<1>1. /\ At("start") /\ Then(<<>>) /\ UNCHANGED <<phase, work, inbox, order>>
      /\ owed' = (owed /\ ~(Head(work).kind = "rehand" \/ Head(work).id = Note))
    BY DEF start_turn, outside
<1>2. todo # <<>> /\ Head(todo) = "start" /\ todo \in Seq(Steps) /\ work \in Seq(Items)
    BY <1>1, AtStep
<1>3. "start" \in In(todo)
    BY <1>2, HeadIn
<1>4. todo = <<"start", "launch">> /\ todo' = <<"launch">>
    <2>1. todo \in LaunchPlans
        BY <1>3 DEF SInv, Planned, TodoOK
    <2>2. todo' = Tail(todo)
        BY <1>1, <1>2, StepDone DEF SInv, Planned
    <2>3. todo = <<"start", "launch">>
        BY <1>2, <2>1 DEF LaunchPlans
    <2> QED
        BY <2>2, <2>3, FixedPlans
<1>5. In(todo) = {"start", "launch"} /\ In(todo') = {"launch"}
    BY <1>4, FixedPlans
<1>6. work # <<>>
    BY <1>3 DEF SInv, Planned, WorkOK, WorkSteps
<1>7. owed => MessagesIn(work, Ahead) /\ Open(Note)
    BY <1>5 DEF HandedOver, Owing, Dropped
<1>8. owed /\ Head(work).kind = "msg" => Head(work).id \in Ahead
    BY <1>2, <1>6, <1>7, FirstMessage
<1>9. /\ owed' => owed /\ Head(work').id # Note
      /\ MessagesIn(work, Ahead) => MessagesIn(work', Ahead')
    BY <1>1, AheadGrows, MessagesOfMore
<1>10. NoteSent'
    BY <1>1, <1>2, NoteGoesOn DEF HandedOver, Open
<1>11. Owing'
    BY <1>1, <1>7, <1>9 DEF Owing, Open
<1> QED
    BY <1>7, <1>8, <1>10, <1>11 DEF HandedOver

\* A message is closed that is not the note.
LEMMA OwingClosed ==
    ASSUME SInv, OnlyMessages, HandedOver, Close
    PROVE  HandedOver'
<1>1. /\ At("done") \/ At("fail")
      /\ inbox' = inbox \/ \E st : inbox' = [inbox EXCEPT ![Current.id] = st]
      /\ work' = <<>> /\ Then(<<>>) /\ UNCHANGED <<phase, child, owed, order>>
    BY DEF Close, outside, history
<1>2. /\ todo # <<>> /\ Head(todo) \in {"done", "fail"} /\ todo \in Seq(Steps)
      /\ work \in Seq(Items)
    BY <1>1, AtStep
<1>3. Head(todo) \in In(todo)
    BY <1>2, HeadIn
<1>4. ~(In(todo) \subseteq AfterNote)
    BY <1>2, <1>3 DEF AfterNote, Afters
<1>5. work # <<>>
    BY <1>2, <1>3 DEF SInv, Planned, WorkOK, WorkSteps
<1>6. owed => Current.id # Note
    <2>1. Tried
        BY <1>2, <1>3 DEF Tried
    <2> QED
        BY <2>1 DEF HandedOver, Owing, Current
<1>7. owed => inbox'[Note] = inbox[Note]
    BY <1>1, <1>6 DEF SInv, TypeOK, Ids
<1>8. owed \/ In(todo) \subseteq AfterNote => (Open(Note) => Open(Note)')
    BY <1>4, <1>7 DEF Open
<1> QED
    BY <1>1, <1>2, <1>8, OwingGoesOn

\* The other steps that are done one after another.
LEMMA OwingStep ==
    ASSUME SInv, OnlyMessages, HandedOver,
           \/ bind_session \/ Launch \/ Restore \/ Persist \/ OffDuty \/ Drop
           \/ add_handover_note \/ CancelKills \/ clear_brake \/ RotateFresh \/ OnDuty
    PROVE  HandedOver'
<1>1. ASSUME NEW x, At(x), Then(<<>>), phase' = phase, x # "restart",
             owed' => owed \/ x \in {"rebind", "fresh"},
             child'.st # "none" => child.st # "none",
             \/ work' = work /\ x \notin {"drop", "off", "done", "fail"}
             \/ work' = <<>> /\ x \in {"drop", "off"},
             inbox' = inbox \/ Open(Note)',
             x = "note" => Open(Note)',
             owed => order' = order
      PROVE  HandedOver'
    <2>1. todo # <<>> /\ Head(todo) = x
        BY <1>1, AtStep
    <2>2. Open(Note) => Open(Note)'
        BY <1>1 DEF Open
    <2> QED
        BY <1>1, <2>1, <2>2, OwingGoesOn
<1>2. CASE bind_session
    <2>1. /\ Then(<<>>) /\ UNCHANGED <<phase, child, work, inbox, order>>
          /\ owed' = (owed \/ At("rebind"))
        BY <1>2 DEF bind_session
    <2>2. CASE At("rebind")
        BY <1>1, <2>1, <2>2
    <2>3. CASE At("bind")
        <3>1. ~At("rebind")
            BY <2>3 DEF At
        <3> QED
            BY <1>1, <2>1, <2>3, <3>1
    <2> QED
        BY <1>2, <2>2, <2>3 DEF bind_session
<1>3. CASE Launch
    <2>1. child.st # "none"
        BY <1>3, LaunchContext
    <2>2. At("launch") /\ Then(<<>>) /\ UNCHANGED <<phase, work, inbox, order, owed>>
        BY <1>3 DEF Launch, outside
    <2> QED
        BY <1>1, <2>1, <2>2
<1>4. CASE Restore
    BY <1>1, <1>4 DEF Restore, outside, history
<1>5. CASE Persist
    BY <1>1, <1>5 DEF Persist, outside, history
<1>6. CASE OffDuty
    BY <1>1, <1>6 DEF OffDuty, outside, history
<1>7. CASE Drop
    BY <1>1, <1>7 DEF Drop, outside, history
<1>8. CASE add_handover_note
    <2>1. /\ At("note") /\ Then(<<>>) /\ UNCHANGED <<phase, work, child, owed>>
          /\ IF Open(Note) THEN UNCHANGED <<inbox, order>>
                           ELSE inbox' = [inbox EXCEPT ![Note] = "PERSISTED"]
        BY <1>8 DEF add_handover_note, history
    <2>2. Open(Note)'
        BY <2>1 DEF Open, SInv, TypeOK, Ids
    <2>3. owed => order' = order
        BY <2>1 DEF HandedOver, Owing
    <2> QED
        BY <1>1, <2>1, <2>2, <2>3
<1>9. CASE CancelKills
    <2>1. child'.st = "none"
        BY <1>9 DEF CancelKills, Ends, NoChild
    <2>2. At("cancel") /\ Then(<<>>) /\ UNCHANGED <<phase, work, inbox, order, owed>>
        BY <1>9 DEF CancelKills, history
    <2> QED
        BY <1>1, <2>1, <2>2
<1>10. CASE clear_brake
    BY <1>1, <1>10 DEF clear_brake, outside
<1>11. CASE RotateFresh
    BY <1>1, <1>11 DEF RotateFresh, outside
<1>12. CASE OnDuty
    BY <1>1, <1>12 DEF OnDuty, outside
<1> QED
    BY <1>2, <1>3, <1>4, <1>5, <1>6, <1>7, <1>8, <1>9, <1>10, <1>11, <1>12

\* A start-up that rebinds the session sends the note first.
LEMMA OwingStarts ==
    ASSUME SInv, OnlyMessages, HandedOver, Start \/ Boot \/ handle_orphan
    PROVE  HandedOver'
<1>1. CASE Start
    <2>1. /\ phase \in {"down", "off"} /\ phase' = "boot" /\ UNCHANGED <<work, child, inbox, owed>>
          /\ todo' = (IF Restored(disk).sid # None /\ moved THEN <<"note", "rebind">> ELSE <<>>)
                        \o <<"boot">>
        BY <1>1 DEF Start, outside, history
    <2>2. child.st = "none" /\ work = <<>> /\ MessagesIn(work, Ahead')
        BY <2>1, MessagesOfNone DEF SInv, Planned, ChildOK, OnlyMessages
    <2>3. NoteFirst(todo') /\ In(todo') \subseteq {"note", "rebind", "boot"}
        <3> DEFINE p == <<"note", "rebind">>
                   q == <<"boot">>
        <3>1. /\ p \in Seq(Steps) /\ q \in Seq(Steps) /\ <<>> \in Seq(Steps)
              /\ In(p) = {"note", "rebind"} /\ In(q) = {"boot"} /\ In(<<>>) = {}
            BY DEF Steps, In
        <3>2. NoteFirst(p)
            BY DEF NoteFirst
        <3>3. NoteFirst(q) /\ NoteFirst(<<>>)
            BY <3>1, NoteIdle
        <3> HIDE DEF p, q
        <3>4. NoteFirst(p \o q) /\ NoteFirst(<<>> \o q)
            BY <3>1, <3>2, <3>3, NoteJoined
        <3>5. In(p \o q) = In(p) \cup In(q) /\ In(<<>> \o q) = In(<<>>) \cup In(q)
            BY <3>1, InJoined
        <3>6. todo' \in {p \o q, <<>> \o q}
            BY <2>1 DEF p, q
        <3> QED
            BY <3>1, <3>4, <3>5, <3>6
    <2>4. NoteSent'
        BY <2>1, <2>3 DEF NoteSent
    <2>5. ~Tried' /\ Open(Note)' = Open(Note)
        BY <2>1, <2>2, <2>3 DEF Tried, Rotating, Open
    <2> QED
        BY <2>1, <2>2, <2>4, <2>5 DEF HandedOver, Owing
<1>2. CASE Boot \/ handle_orphan
    <2>1. child.st = "none" /\ work = <<>> /\ UNCHANGED <<work, child, inbox, owed>> /\ todo' = <<>>
        <3>1. CASE Boot
            <4>1. At("boot") /\ Then(<<>>) /\ UNCHANGED <<work, child, inbox, owed>>
                BY <3>1 DEF Boot, outside, history
            <4>2. todo # <<>> /\ Head(todo) = "boot" /\ todo \in Seq(Steps) /\ child.st = "none"
                BY <4>1, AtStep
            <4>3. "boot" \in In(todo)
                BY <4>2, HeadIn
            <4>4. phase = "boot" /\ work = <<>>
                BY <4>3 DEF SInv, Planned, TodoOK, OnlyMessages
            <4>5. todo' \in Seq(Steps) /\ \A y \in In(todo') : MayPrecede("boot", y)
                BY <4>1, <4>2, StepDone DEF SInv, Planned
            <4>6. In(todo') = {}
                BY <4>5 DEF MayPrecede
            <4> QED
                BY <4>1, <4>2, <4>4, <4>5, <4>6, InEmpty
        <3>2. CASE handle_orphan
            BY <3>2 DEF handle_orphan, outside, history, SInv, Planned, TodoOK, ChildOK,
               OnlyMessages
        <3> QED
            BY <1>2, <3>1, <3>2
    <2>2. In(todo') = {} /\ NoteFirst(todo') /\ MessagesIn(work', Ahead')
        BY <2>1, InEmpty, MessagesOfNone DEF NoteFirst
    <2>3. Open(Note)' = Open(Note)
        BY <2>1 DEF Open
    <2> QED
        BY <2>1, <2>2, <2>3 DEF HandedOver, NoteSent, Owing, Tried, Rotating
<1> QED
    BY <1>1, <1>2

\* A finished turn: the one before a rotation leaves the note's, and one that
\* lost its session sends the note before it drops what it was about.
LEMMA OwingFinished ==
    ASSUME SInv, OnlyMessages, HandedOver, Finish
    PROVE  HandedOver'
<1>1. /\ Finishing /\ UNCHANGED <<phase, inbox, order, owed>> /\ child'.st = "none"
    BY DEF Finish, FinishOk, FinishRetry, FinishLost, FinishLostAgain, FinishFailure, Ends,
       NoChild, outside, history
<1>2. /\ work \in Seq(Items) /\ work # <<>> /\ Current = work[1] /\ Current \in Items
      /\ phase = "run" /\ child.st # "none"
      /\ (todo = <<>> \/ Head(todo) \in {"launch", "cancel", "finish", "engine"})
    BY <1>1, FinishContext DEF Finishing, Exited, Results, At
<1>3. MessageWork(work)
    BY DEF OnlyMessages
<1>4. owed => Head(work).id # Note
    BY <1>2 DEF HandedOver, Owing, Tried
<1>5. /\ <<>> \in Seq(Steps) /\ In(<<>>) = {} /\ NoteFirst(<<>>)
    BY InEmpty DEF NoteFirst
<1>6. ASSUME NEW a \in Steps \ {"rebind", "fresh"}
      PROVE  <<a>> \in Seq(Steps) /\ In(<<a>>) = {a} /\ NoteFirst(<<a>>)
    <2>1. <<a>> \in Seq(Steps) /\ In(<<a>>) = {a}
        BY DEF In
    <2> QED
        BY <2>1, NoteIdle
<1>7. CASE FinishOk
    <2> DEFINE healed == mem.streak > 0 /\ child.arg = "resume"
               rest == IF healed THEN <<"restored">> ELSE <<>>
               s == Success(Current)
    <2>1. /\ Then(rest \o s)
          /\ work' = IF Current.kind \in {"rotate", "rehand"} THEN Tail(work) ELSE work
        BY <1>7 DEF FinishOk
    <2>2. rest \in {<<>>, <<"restored">>}
        OBVIOUS
    <2>3. /\ s \in {<<"done">>, <<"off">>, <<"drop">>, <<"bind">>, <<>>}
          /\ (Current.kind = "rotate" => s = <<"bind">>)
        BY <1>1, SuccessPlan DEF Success
    <2> HIDE DEF rest, s
    <2>4. /\ rest \in Seq(Steps) /\ NoteFirst(rest) /\ In(rest) \subseteq {"restored"}
          /\ s \in Seq(Steps) /\ NoteFirst(s) /\ In(s) \subseteq {"done", "off", "drop", "bind"}
          /\ (Current.kind = "rotate" => In(s) = {"bind"})
        <3>1. rest \in Seq(Steps) /\ NoteFirst(rest) /\ In(rest) \subseteq {"restored"}
            <4>1. "restored" \in Steps \ {"rebind", "fresh"}
                BY DEF Steps
            <4> QED
                BY <1>5, <1>6, <2>2, <4>1
        <3>2. ASSUME NEW a \in {"done", "off", "drop", "bind"}, s = <<a>>
              PROVE  s \in Seq(Steps) /\ NoteFirst(s) /\ In(s) = {a}
            <4>1. a \in Steps \ {"rebind", "fresh"}
                BY DEF Steps
            <4> QED
                BY <1>6, <3>2, <4>1
        <3>3. CASE s = <<>>
            <4>1. Current.kind # "rotate"
                BY <2>3, <3>3
            <4> QED
                BY <1>5, <3>1, <3>3, <4>1
        <3>4. CASE s # <<>>
            <4>1. PICK a \in {"done", "off", "drop", "bind"} : s = <<a>>
                BY <2>3, <3>4
            <4>2. s \in Seq(Steps) /\ NoteFirst(s) /\ In(s) = {a}
                BY <3>2, <4>1
            <4>3. Current.kind = "rotate" => In(s) = {"bind"}
                <5>1. "bind" \in {"done", "off", "drop", "bind"}
                    OBVIOUS
                <5> QED
                    BY <2>3, <3>2, <5>1
            <4> QED
                BY <3>1, <4>2, <4>3
        <3> QED
            BY <3>3, <3>4
    <2>5. /\ rest \o s \in Seq(Steps) /\ NoteFirst(rest \o s)
          /\ In(rest \o s) = In(rest) \cup In(s)
        BY <2>4, ConcatProperties, NoteJoined, InJoined
    <2>6. MessagesIn(work, Ahead) => MessagesIn(work', Ahead)
        BY <1>2, <2>1, FirstMessage
    <2>7. owed => \/ Head(work').id # Note
                  \/ In(rest \o s) \cap {"note", "done", "fail", "persist", "engine"} = {}
        <3>1. CASE Current.kind = "rotate"
            BY <2>4, <2>5, <3>1
        <3>2. CASE Current.kind # "rotate"
            BY <1>2, <1>3, <1>4, <2>1, <3>2, FirstItem DEF Current
        <3> QED
            BY <3>1, <3>2
    <2>8. "fresh" \notin In(rest \o s) /\ "rebind" \notin In(rest \o s)
        BY <2>4, <2>5
    <2> DEFINE pre == rest \o s
    <2> HIDE DEF pre
    <2>9. /\ pre \in Seq(Steps) /\ Then(pre) /\ NoteFirst(pre) /\ "fresh" \notin In(pre)
          /\ "rebind" \notin In(pre)
          /\ owed => \/ Head(work').id # Note
                     \/ In(pre) \cap {"note", "done", "fail", "persist", "engine"} = {}
        BY <2>1, <2>5, <2>7, <2>8 DEF pre
    <2> QED
        BY <1>1, <1>2, <2>6, <2>9, OwingPlans
<1>8. CASE FinishRetry
    <2>1. Then(<<>>) /\ work' = work
        BY <1>8 DEF FinishRetry
    <2> QED
        BY <1>1, <1>2, <1>5, <2>1, OwingPlans
<1>9. CASE FinishLost
    <2>1. Head(work).kind # "ctl" /\ Current = Head(work)
        BY <1>2, <1>3, FirstItem
    <2> DEFINE n == IF Current.id \in Ids THEN 0 ELSE 1
               it == [Current EXCEPT !.lost = n]
               v == [work EXCEPT ![1] = it]
    <2>2. n \in 0 .. 1
        OBVIOUS
    <2>3. work' = [work EXCEPT ![1].lost = n] /\ Then(<<"note", "rebind", "drop">>)
        BY <1>9, <2>1 DEF FinishLost
    <2> HIDE DEF n
    <2>4. it \in Items /\ it.kind = work[1].kind /\ it.id = work[1].id
        BY <1>2, <2>2 DEF Items
    <2>5. work' = v
        BY <1>2, <2>3
    <2>6. v \in Seq(Items)
        <3>1. Len(work) \in Nat \ {0} /\ 1 \in 1 .. Len(work)
            BY <1>2, EmptySeq, LenProperties
        <3> HIDE DEF it
        <3> QED
            BY <1>2, <2>4, <3>1, ExceptSeq
    <2> HIDE DEF it, v
    <2>7. v = [work EXCEPT ![1] = it]
        BY DEF v
    <2>8. Head(work').id = Head(work).id /\ (MessagesIn(work, Ahead) => MessagesIn(work', Ahead))
        BY <1>2, <1>3, <2>4, <2>5, <2>6, <2>7, CountedItem
    <2> DEFINE pre == <<"note", "rebind", "drop">>
    <2>9. pre \in Seq(Steps) /\ In(pre) = {"note", "rebind", "drop"} /\ NoteFirst(pre)
        BY DEF Steps, In, NoteFirst
    <2> HIDE DEF pre
    <2>10. Then(pre)
        BY <2>3 DEF pre
    <2> QED
        BY <1>1, <1>2, <1>4, <2>8, <2>9, <2>10, OwingPlans
<1>10. CASE FinishLostAgain
    <2> DEFINE last == IF Current.id \in Ids THEN <<"fail">> ELSE <<"drop">>
               pre == <<"persist">> \o last
    <2>1. Then(pre) /\ work' = work
        BY <1>10 DEF FinishLostAgain
    <2>2. last \in {<<"fail">>, <<"drop">>}
        OBVIOUS
    <2> HIDE DEF last
    <2>3. /\ <<"persist">> \in Seq(Steps) /\ NoteFirst(<<"persist">>) /\ In(<<"persist">>) = {"persist"}
          /\ last \in Seq(Steps) /\ NoteFirst(last) /\ In(last) \subseteq {"fail", "drop"}
        <3>1. {"persist", "fail", "drop"} \subseteq Steps \ {"rebind", "fresh"}
            BY DEF Steps
        <3>2. CASE last = <<"fail">>
            BY <1>6, <3>1, <3>2
        <3>3. CASE last = <<"drop">>
            BY <1>6, <3>1, <3>3
        <3> QED
            BY <2>2, <3>2, <3>3
    <2>4. pre \in Seq(Steps) /\ NoteFirst(pre) /\ In(pre) \subseteq {"persist", "fail", "drop"}
        BY <2>3, ConcatProperties, NoteJoined, InJoined
    <2> HIDE DEF pre
    <2> QED
        BY <1>1, <1>2, <1>4, <2>1, <2>4, OwingPlans
<1>11. CASE FinishFailure
    <2>1. work' = work /\ \E pre \in {<<"fail">>, <<>>} : Then(pre)
        BY <1>11 DEF FinishFailure
    <2>2. PICK pre \in {<<"fail">>, <<>>} : Then(pre)
        BY <2>1
    <2>3. pre \in Seq(Steps) /\ NoteFirst(pre) /\ In(pre) \subseteq {"fail"}
        BY <1>5, <1>6 DEF Steps
    <2> QED
        BY <1>1, <1>2, <1>4, <2>1, <2>2, <2>3, OwingPlans
<1> QED
    BY <1>7, <1>8, <1>9, <1>10, <1>11 DEF Finish

\* A launch that fails, a turn that is cancelled, an error that is counted.
LEMMA OwingAsked ==
    ASSUME SInv, OnlyMessages, HandedOver,
           LaunchFails \/ CancelCollects \/ _message_engine_error
    PROVE  HandedOver'
<1>1. ASSUME NEW a \in Steps \ {"rebind", "fresh"}
      PROVE  <<a>> \in Seq(Steps) /\ In(<<a>>) = {a} /\ NoteFirst(<<a>>)
    <2>1. <<a>> \in Seq(Steps) /\ In(<<a>>) = {a}
        BY DEF In
    <2> QED
        BY <2>1, NoteIdle
<1>2. CASE LaunchFails
    <2>1. At("launch") /\ Then(<<"finish">>) /\ UNCHANGED <<phase, work, inbox, order, owed>>
        BY <1>2 DEF LaunchFails, outside, history
    <2>2. todo = <<"launch">> /\ phase = "run" /\ child.st = "prepared" /\ Head(todo) = "launch"
        BY <2>1, LaunchLast DEF At
    <2>3. owed => Head(work').id # Note
        BY <2>1, <2>2 DEF HandedOver, Owing, Tried
    <2> QED
        BY <1>1, <2>1, <2>2, <2>3, OwingPlans DEF Steps
<1>3. CASE CancelCollects
    <2>1. /\ At("cancel") /\ Exited /\ Then(<<"finish">>)
          /\ UNCHANGED <<phase, work, inbox, order, owed>>
        BY <1>3 DEF CancelCollects, outside, history
    <2>2. child.st # "none" /\ Head(todo) = "cancel"
        BY <2>1 DEF Exited, Results, At
    <2>3. phase = "run"
        BY <2>2 DEF SInv, Planned, ChildOK
    <2>4. owed => Head(work').id # Note
        BY <2>1, <2>2 DEF HandedOver, Owing, Tried
    <2> QED
        BY <1>1, <2>1, <2>2, <2>3, <2>4, OwingPlans DEF Steps
<1>4. CASE _message_engine_error
    <2>1. /\ At("engine") /\ UNCHANGED <<phase, inbox, order, owed>>
          /\ \E pre \in {<<"fail">>, <<"drop">>, <<>>} : Then(pre)
        BY <1>4 DEF _message_engine_error, outside, history
    <2>2. PICK pre \in {<<"fail">>, <<"drop">>, <<>>} : Then(pre)
        BY <2>1
    <2>3. pre \in Seq(Steps) /\ NoteFirst(pre) /\ In(pre) \subseteq {"fail", "drop"}
        <3>1. <<>> \in Seq(Steps) /\ In(<<>>) = {} /\ NoteFirst(<<>>)
            BY InEmpty DEF NoteFirst
        <3> QED
            BY <1>1, <3>1 DEF Steps
    <2>4. todo # <<>> /\ Head(todo) = "engine" /\ todo \in Seq(Steps)
        BY <2>1, AtStep
    <2>5. "engine" \in In(todo)
        BY <2>4, HeadIn
    <2>6. phase = "run"
        BY <2>1, <2>5, AtStep DEF SInv, Planned, TodoOK
    <2>7. /\ Head(work').id = Head(work).id
          /\ MessagesIn(work, Ahead) => MessagesIn(work', Ahead)
        BY <1>4, EngineWork
    <2>8. owed => Head(work').id # Note
        BY <2>5, <2>7 DEF HandedOver, Owing, Tried
    <2> QED
        BY <2>1, <2>2, <2>3, <2>4, <2>6, <2>7, <2>8, OwingPlans
<1> QED
    BY <1>2, <1>3, <1>4

\* Only a turn that was tried raises over its work.
LEMMA OwingRaised ==
    ASSUME SInv, OnlyMessages, HandedOver, Raises
    PROVE  HandedOver'
<1>1. UNCHANGED <<inbox, order, owed>> /\ (At("note") \/ At("launch") \/ Finishing)
    BY DEF Raises, outside, history
<1>2. CASE cur # 0 \/ phase = "boot"
    BY <1>1, <1>2, OwingGone DEF Raises
<1>3. CASE cur = 0 /\ phase # "boot"
    <2>1. todo' = <<"engine">> /\ child'.st = "none" /\ UNCHANGED <<phase, work, cur>>
        BY <1>3 DEF Raises, NoChild
    <2>2. In(<<"engine">>) = {"engine"} /\ <<"engine">> \in Seq(Steps)
        BY DEF In, Steps
    <2>3. NoteSent'
        BY <2>1, <2>2, NoteIdle DEF NoteSent
    <2>4. Tried /\ ~Dropped
        <3>1. "restart" \notin In(todo)
            BY <1>3 DEF SInv, Planned, TodoOK, ControlSteps
        <3>2. CASE At("note")
            <4>1. todo # <<>> /\ Head(todo) = "note" /\ todo \in Seq(Steps) /\ phase = "run"
                BY <1>3, <3>2, AtStep
            <4>2. Rotating
                BY <1>3, <4>1, HeadIn DEF Rotating
            <4> QED
                BY <3>1, <4>2 DEF Tried, Dropped
        <3>3. CASE At("launch")
            <4>1. child.st = "prepared" /\ todo = <<"launch">>
                BY <3>3, LaunchLast
            <4> QED
                BY <3>1, <4>1, FixedPlans DEF Tried, Dropped
        <3>4. CASE Finishing
            <4>1. child.st # "none"
                BY <3>4 DEF Finishing, Exited, Results
            <4>2. "drop" \notin In(todo)
                <5>1. CASE todo = <<>>
                    BY <5>1, InEmpty
                <5>2. CASE todo # <<>>
                    <6>1. Head(todo) = "finish" /\ todo \in Seq(Steps) /\ Rest = Tail(todo)
                        BY <3>4, <5>2 DEF Finishing, At, SInv, TypeOK, Rest
                    <6>2. In(Rest) \subseteq Afters
                        BY <3>4, AfterTurn DEF SInv
                    <6> QED
                        BY <5>2, <6>1, <6>2, InTail DEF Afters
                <5> QED
                    BY <5>1, <5>2
            <4> QED
                BY <3>1, <4>1, <4>2 DEF Tried, Dropped
        <3> QED
            BY <1>1, <3>2, <3>3, <3>4
    <2>5. owed => Open(Note)' /\ MessagesIn(work', Ahead') /\ Head(work').id # Note
        BY <1>1, <2>1, <2>4, AheadGrows, MessagesOfMore DEF HandedOver, Owing, Open
    <2> QED
        BY <1>1, <2>3, <2>5 DEF HandedOver, Owing
<1> QED
    BY <1>2, <1>3

\* A request that is no routine sends the note before it gives up the session,
\* and ends the process after it.
LEMMA EffectNote ==
    ASSUME NEW v \in Requests, v.verb \notin Routines
    PROVE  LET e == Effect(v) IN
           /\ e \in Seq(Steps) /\ NoteFirst(e)
           /\ In(e) \subseteq Afters /\ ("fresh" \in In(e) => "restart" \in In(e))
<1> DEFINE mid == IF v.fresh THEN <<"note", "fresh">> ELSE <<>>
           Fits(e) == /\ e \in Seq(Steps) /\ NoteFirst(e)
                      /\ In(e) \subseteq Afters /\ ("fresh" \in In(e) => "restart" \in In(e))
<1>1. ASSUME NEW a \in {"clear", "restart", "stop"}
      PROVE  <<a>> \in Seq(Steps) /\ In(<<a>>) = {a} /\ NoteFirst(<<a>>)
    <2>1. <<a>> \in Seq(Steps) /\ In(<<a>>) = {a}
        BY DEF In, Steps
    <2> QED
        BY <2>1, NoteIdle
<1>2. v.verb \in {"reset-brake", "neustart", "abschalten"}
    BY DEF Requests, Routines
<1>3. CASE v.verb = "reset-brake"
    <2>1. Effect(v) = <<"clear">>
        BY <1>3 DEF Effect
    <2> QED
        BY <1>1, <2>1 DEF Afters
<1>4. CASE v.verb = "abschalten"
    <2>1. Effect(v) = <<"stop">>
        BY <1>4 DEF Effect
    <2> QED
        BY <1>1, <2>1 DEF Afters
<1>5. CASE v.verb = "neustart"
    <2>1. Effect(v) = <<"clear">> \o mid \o <<"restart">>
        BY <1>5 DEF Effect
    <2>2. mid \in Seq(Steps) /\ NoteFirst(mid) /\ In(mid) \subseteq {"note", "fresh"}
        <3>1. CASE v.fresh
            <4>1. mid = <<"note", "fresh">>
                BY <3>1
            <4>2. /\ <<"note", "fresh">> \in Seq(Steps) /\ NoteFirst(<<"note", "fresh">>)
                  /\ In(<<"note", "fresh">>) = {"note", "fresh"}
                BY DEF Steps, NoteFirst, In
            <4> QED
                BY <4>1, <4>2
        <3>2. CASE ~v.fresh
            <4>1. mid = <<>> /\ <<>> \in Seq(Steps) /\ NoteFirst(<<>>)
                BY <3>2 DEF NoteFirst
            <4> QED
                BY <4>1, InEmpty
        <3> QED
            BY <3>1, <3>2
    <2> HIDE DEF mid
    <2> DEFINE p == <<"clear">> \o mid
               e == p \o <<"restart">>
    <2>3. p \in Seq(Steps) /\ NoteFirst(p) /\ In(p) \subseteq {"clear", "note", "fresh"}
        <3>1. <<"clear">> \in Seq(Steps) /\ In(<<"clear">>) = {"clear"} /\ NoteFirst(<<"clear">>)
            BY <1>1
        <3>2. In(p) = {"clear"} \cup In(mid)
            BY <2>2, <3>1, InJoined
        <3> QED
            BY <2>2, <3>1, <3>2, ConcatProperties, NoteJoined
    <2> HIDE DEF p
    <2>4. e \in Seq(Steps) /\ NoteFirst(e) /\ In(e) = In(p) \cup {"restart"}
        BY <1>1, <2>3, ConcatProperties, NoteJoined, InJoined
    <2>5. Effect(v) = e
        BY <2>1 DEF p
    <2> HIDE DEF e
    <2> QED
        BY <2>3, <2>4, <2>5 DEF Afters
<1> QED
    BY <1>2, <1>3, <1>4, <1>5

LEMMA OwingAccepted ==
    ASSUME SInv, OnlyMessages, HandedOver, NEW r \in 1 .. MaxReqs, accept_control(r)
    PROVE  HandedOver'
<1> DEFINE e == Effect(ctl[r])
           pre == IF Process /\ ctl[r].force THEN <<"cancel">> ELSE <<>>
<1>1. /\ phase = "run" /\ todo = <<>> /\ Pending(r) /\ cur' = r /\ todo' = pre \o e
      /\ UNCHANGED <<phase, work, child, inbox, order, owed>>
    BY DEF accept_control, outside, history
<1>2. r \in DOMAIN ctl /\ ctl[r] \in Requests /\ ctl[r].verb \notin Routines
    BY <1>1, PendingType DEF SInv, TypeOK, OnlyMessages
<1>3. /\ e \in Seq(Steps) /\ NoteFirst(e)
      /\ In(e) \subseteq Afters /\ ("fresh" \in In(e) => "restart" \in In(e))
    BY <1>2, EffectNote
<1>4. pre \in Seq(Steps) /\ NoteFirst(pre) /\ In(pre) \subseteq {"cancel"}
    <2>1. <<>> \in Seq(Steps) /\ NoteFirst(<<>>) /\ In(<<>>) = {}
        BY InEmpty DEF NoteFirst
    <2>2. <<"cancel">> \in Seq(Steps) /\ In(<<"cancel">>) = {"cancel"}
        BY DEF Steps, In
    <2>3. NoteFirst(<<"cancel">>)
        BY <2>2, NoteIdle
    <2> QED
        BY <2>1, <2>2, <2>3
<1> HIDE DEF e, pre
<1>5. NoteFirst(todo') /\ In(todo') = In(pre) \cup In(e)
    BY <1>1, <1>3, <1>4, NoteJoined, InJoined
<1>6. NoteSent'
    BY <1>3, <1>4, <1>5 DEF NoteSent, Afters
<1>7. Tried' => Tried
    <2>1. r # 0
        BY SupervisorAssumption
    <2>2. ~Rotating'
        BY <1>1, <2>1 DEF Rotating
    <2>3. In(todo') \cap {"done", "fail", "persist", "engine"} = {}
        BY <1>3, <1>4, <1>5 DEF Afters
    <2> QED
        BY <1>1, <2>2, <2>3 DEF Tried
<1>8. ~Dropped
    BY <1>1, InEmpty DEF Dropped
<1>9. Owing'
    BY <1>1, <1>7, <1>8, AheadGrows, MessagesOfMore DEF HandedOver, Owing, Open
<1> QED
    BY <1>6, <1>9 DEF HandedOver

\* Of what the supervisor does not control, only a fault ends the process.
LEMMA OwingOutside ==
    ASSUME SInv, HandedOver,
           \/ Environment \/ Answers \/ Loses \/ UNCHANGED vars
           \/ \E s \in orphans : OrphanEnds(s)
    PROVE  HandedOver'
<1>1. ASSUME NEW st, Exit(st) PROVE child.st # "none" /\ UNCHANGED <<phase, todo, cur, work, owed, inbox, order>>
    BY <1>1 DEF Exit, history
<1>2. CASE Crash \/ Terminate \/ Reexec
    BY <1>2, OwingGone DEF Crash, Terminate, Reexec, outside, history
<1>3. ASSUME NEW m \in Msgs, Receive(m) PROVE HandedOver'
    <2>1. m # Note
        BY SupervisorAssumption
    <2>2. /\ inbox'[Note] = inbox[Note] /\ order \subseteq order'
          /\ UNCHANGED <<phase, todo, cur, work, owed, child>>
        BY <1>3, <2>1 DEF Receive, history, SInv, TypeOK, Ids
    <2> QED
        BY <2>2, OwingKept
<1>4. ASSUME NEW v, File(v) PROVE HandedOver'
    BY <1>4, OwingKept DEF File, history
<1>5. ASSUME NEW st, Fails(st) PROVE HandedOver'
    BY <1>1, <1>5, OwingKept DEF Fails
<1>6. CASE Refuses \/ Answers \/ Loses
    BY <1>1, <1>6, OwingKept DEF Refuses, Answers, Loses
<1>7. ASSUME NEW s, Forget(s) \/ OrphanEnds(s) PROVE HandedOver'
    BY <1>7, OwingKept DEF Forget, OrphanEnds, history
<1>8. CASE Rehome \/ UNCHANGED vars
    BY <1>8, OwingKept DEF Rehome, history, vars
<1> QED
    BY <1>2, <1>3, <1>4, <1>5, <1>6, <1>7, <1>8 DEF Environment

LEMMA OwingInit == Init => HandedOver
<1> SUFFICES ASSUME Init PROVE HandedOver
    OBVIOUS
<1>1. In(todo) = {} /\ NoteFirst(todo) /\ ~owed
    BY InEmpty DEF Init, NoteFirst
<1> QED
    BY <1>1 DEF HandedOver, NoteSent, Owing

\* Every step keeps the note ahead of the session that goes.
LEMMA OwingNext ==
    ASSUME SInv, OnlyMessages, NoteListed, HandedOver, [Next]_vars
    PROVE  HandedOver'
<1>1. CASE Turn
    BY <1>1, OwingStep, OwingStarted, OwingAsked DEF Turn
<1>2. CASE FollowUp
    BY <1>2, OwingStep, OwingClosed, OwingRaised, OwingAsked DEF FollowUp
<1>3. CASE Control
    <2>1. CASE Restart \/ ShutDown
        BY <2>1, OwingGone DEF Restart, ShutDown, outside, history
    <2>2. ASSUME NEW r \in 1 .. MaxReqs, reject_control(r) PROVE HandedOver'
        BY <2>2, OwingKept DEF reject_control, outside, history
    <2> QED
        BY <1>3, <2>1, <2>2, NoRoutine, OwingAccepted, OwingAsked, OwingStep DEF Control
<1> QED
    BY <1>1, <1>2, <1>3, OwingPolled, OwingFinished, OwingStarts, OwingOutside DEF Next, Steady

\* A message that comes, and a note that is sent, are listed after the others.
LEMMA ListedInit == Init => NoteListed
BY DEF Init, NoteListed, Open, Ids

LEMMA ListedStep ==
    ASSUME SInv, NoteListed, [Next]_vars
    PROVE  NoteListed'
<1>1. inbox \in [Ids -> {"absent", "PERSISTED", "SEEN", "PROCESSED", "FAILED"}]
    BY DEF SInv, TypeOK
<1>2. ASSUME order' = order, \A i \in Ids : Open(i)' => Open(i) PROVE NoteListed'
    BY <1>2 DEF NoteListed, Ids
<1>3. CASE UNCHANGED <<inbox, order>>
    BY <1>2, <1>3 DEF Open
<1>4. ASSUME NEW i \in Ids, PollMessage(i) PROVE NoteListed'
    BY <1>1, <1>2, <1>4 DEF PollMessage, choose_message, outside, Open
<1>5. CASE Close
    BY <1>1, <1>2, <1>5 DEF Close, outside, Open
<1>6. CASE add_handover_note /\ ~Open(Note)
    <2>1. /\ order' = {p \in order : Note \notin {p[1], p[2]}} \cup Listed(Note)
          /\ inbox' = [inbox EXCEPT ![Note] = "PERSISTED"]
        BY <1>6 DEF add_handover_note
    <2>2. ASSUME NEW m \in Msgs, Open(m)' PROVE <<m, Note>> \in Listed(Note)
        BY <1>1, <2>1, <2>2, SupervisorAssumption DEF Listed, Open, Ids
    <2> QED
        BY <2>1, <2>2 DEF NoteListed
<1>7. ASSUME NEW m \in Msgs, Receive(m) PROVE NoteListed'
    <2>1. order' = order \cup Listed(m) /\ inbox' = [inbox EXCEPT ![m] = "PERSISTED"] /\ m # Note
        BY <1>7, SupervisorAssumption DEF Receive
    <2>2. Open(Note)' => Open(Note) /\ <<Note, m>> \in Listed(m)
        BY <1>1, <2>1 DEF Listed, Open, Ids
    <2>3. ASSUME NEW k \in Msgs, k # m, Open(k)' PROVE Open(k)
        BY <1>1, <2>1, <2>3 DEF Open, Ids
    <2> QED
        BY <2>1, <2>2, <2>3 DEF NoteListed
<1>8. CASE Turn \/ Finish \/ Control \/ Boot \/ handle_orphan \/ Start
    BY <1>3, <1>8 DEF Turn, start_turn, Launch, LaunchFails, bind_session, Finish, FinishOk,
       FinishRetry, FinishLost, FinishLostAgain, FinishFailure, Control, accept_control,
       reject_control, CancelCollects, CancelKills, clear_brake, RotateFresh, Restart, OnDuty,
       begin_control_routine, ShutDown, Boot, handle_orphan, Start, outside
<1>9. CASE FollowUp /\ ~Close /\ ~(add_handover_note /\ ~Open(Note))
    BY <1>3, <1>9 DEF FollowUp, Restore, Persist, OffDuty, Drop, add_handover_note, Raises,
       _message_engine_error, outside
<1>10. CASE PollRetry \/ Answers \/ Loses \/ (\E s \in orphans : OrphanEnds(s))
    BY <1>3, <1>10 DEF PollRetry, Answers, Loses, Exit, OrphanEnds, outside
<1>11. CASE Environment /\ ~(\E m \in Msgs : Receive(m))
    BY <1>3, <1>11 DEF Environment, File, Fails, Exit, Refuses, Rehome, Crash, Terminate,
       Reexec, Forget, outside
<1>12. CASE UNCHANGED vars
    BY <1>3, <1>12 DEF vars
<1> QED
    BY <1>4, <1>5, <1>6, <1>7, <1>8, <1>9, <1>10, <1>11, <1>12 DEF Next, Steady, Poll, FollowUp,
       Environment

\* Where no request is a routine, a message is worked on in a session that
\* replaced another before a handover turn has begun only if the agent sent it
\* to itself before the note, and the note is then still to come, whatever is
\* lost, crashes or fails in between: add_handover_note comes before the session
\* is bound anew, rotate_with_note drops the work, choose_message takes the note
\* in the first lane, as it is listed there.
THEOREM RotationIsHandedOver ==
    ASSUME \A v \in Verbs : v.verb \notin Routines
    PROVE  Spec => RotationNeverSilent
<1> DEFINE Inv == SInv /\ OnlyMessages /\ NoteListed /\ HandedOver
<1>1. Init => Inv
    BY InitSInv, MessagesInit, ListedInit, OwingInit
<1>2. Inv /\ [Next]_vars => Inv'
    BY NextSInv, MessagesStep, ListedStep, OwingNext
<1>3. Inv /\ [Next]_vars
         => (Begins /\ owed /\ Head(work).kind = "msg" /\ Head(work).id # Note
             => Open(Note) /\ Precedes(Head(work).id, Note))
    BY BeginsAtStart, OwingStarted DEF Ahead
<1> QED
    BY <1>1, <1>2, <1>3, PTL DEF Spec, RotationNeverSilent
=============================================================================
