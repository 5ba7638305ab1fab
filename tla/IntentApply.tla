----------------------------- MODULE IntentApply ----------------------------
(***************************************************************************)
(* One task in the hands of its worker's supervisor                        *)
(* (lib/aib_supervisor.py): from the assignment message to the report.     *)
(*                                                                         *)
(* A turn is started for a message of the task; the worker appends rows to *)
(* the turn's intent file; after the turn, and again at every poll and     *)
(* every start, the supervisor reads the file and turns its rows into task *)
(* events, then tells the requester or sends itself a message for the next *)
(* turn.  What it decides is in its journal, and it may be killed between  *)
(* any two durable steps: as in Supervisor, a handler is a list of such    *)
(* steps (todo).                                                           *)
(*                                                                         *)
(* Outside: the ledger decides as TaskLedger does, seen through the answer *)
(* of one bin/task call; bin/message and the launch broker are external.   *)
(* Left out: sessions, the brake and control requests (Supervisor), timers *)
(* (a poll finds every retry due), reassignment, and the text of messages. *)
(***************************************************************************)
EXTENDS Naturals, Sequences, FiniteSets

CONSTANTS
    None,           \* no message; an attempt that is not closed
    MaxAttempts,    \* bound: turns
    MaxRows,        \* MAX_INTENTS, rows of one intent file
    Files,          \* what a worker may leave in its file
    Budget,         \* max_turns of the task
    RetryLimit,     \* failed applications of a file before it is quarantined
    ReportLimit,    \* failed deliveries of a report before it is given up
    DeferLimit,     \* failed lookups of an orphan before it is given up
    MessageErrors,  \* engine errors, or failed turns, of a message before it is failed
    ByMessage,      \* the requester is an agent; otherwise it reads an outbox
    Faults,         \* the kinds of fault that may happen
    MaxFaults       \* bound: how many happen

Attempts == 1 .. MaxAttempts

\* What a row can ask.  A delegation and a report with an improper result_ref
\* are refused by the supervisor itself; "bad" is a row that does not parse or
\* that validate_intent_records refuses.
Final == {"done", "failed", "blocked"}
Reports == Final \cup {"progress", "continue"}
Rows == Reports \cup {"delegate", "bad_ref", "bad"}

ASSUME IntentAssumption ==
    /\ MaxAttempts \in Nat /\ MaxRows \in Nat /\ Budget \in Nat /\ MaxFaults \in Nat
    /\ RetryLimit \in Nat \ {0} /\ ReportLimit \in Nat \ {0} /\ DeferLimit \in Nat \ {0}
    /\ MessageErrors \in Nat \ {0}
    /\ ByMessage \in BOOLEAN
    /\ \A f \in Files : f \in Seq(Rows) /\ Len(f) \in 1 .. MaxRows
    /\ \A f \in Files \cup {<<>>} : f # None

VARIABLES
    up,         \* the supervisor runs
    todo,       \* the durable steps its handler still has to take
    acc,        \* apply_intent_file's locals: the file read and what its rows came to
    work,       \* self.work
    turn,       \* the attempt the supervisor waits for, or 0
    born,       \* attempts started before this process was
    alive,      \* attempts whose worker still runs
    jn,         \* the supervisor's journal
    ledger,     \* the task in the ledger
    file,       \* the intent files; an absent one is empty
    inbox,      \* the messages of the task
    told,       \* what the requester was told, per report id
    faults,     \* how many faults happened
    waived      \* history: why nobody acts on the task any more

vars == <<up, todo, acc, work, turn, born, alive, jn, ledger, file, inbox,
          told, faults, waived>>

outside == <<alive, ledger, file, inbox, told>>

\* Message ids: the assignment, the nudge, and per attempt the continuation
\* <task>.c.<attempt>.<index> and the receipt <task>.r.<attempt>.
Assignment == <<"assign", 0>>
Nudge == <<"nudge", 0>>
MsgIds == {Assignment, Nudge} \cup ({"c", "r"} \X Attempts)

\* Report ids task-report-<task>-<x>: an attempt, startup-<task> or delivery-failed.
Startup == 0
Delivery == MaxAttempts + 1
ReportIds == 0 .. Delivery

Causes == {"row", "start", "budget", "fail", "no_report", "delivery"}
            \X (0 .. MaxAttempts) \X (0 .. MaxRows)

\* intent.ledger: the row, or that it was refused or ended in a block.
Outcomes == Reports \cup {"rejected", "budget"}

NoReport == [st |-> "none", n |-> 0, says |-> "none"]

EmptyJournal ==
    [open |-> 0,                                 \* turn.started without turn.ended
     last |-> 0,                                 \* attempts so far
     msg |-> [a \in Attempts |-> None],          \* turn.started: its message and
     task |-> [a \in Attempts |-> FALSE],        \* whether it is bound to the task
     of |-> [a \in Attempts |-> 0],              \* turn.attempt: the turn it belongs to
     closed |-> [a \in Attempts |-> None],       \* intents.closed
     rec |-> [a \in Attempts |-> <<>>],          \* intent.ledger by index
     applied |-> {}, tainted |-> {},             \* intents.applied, .tainted
     retries |-> [a \in Attempts |-> 0],         \* intent.retry
     report |-> [r \in ReportIds |-> NoReport],  \* report.pending, .retry, ...
     missing |-> 0, missed |-> Startup,          \* task.no_report, the latest's id
     defer |-> [a \in Attempts |-> 0],           \* orphan.deferred: n, 0 if resolved
     pending |-> [a \in Attempts |-> {}],        \* and the files it holds back
     dlq |-> FALSE,                              \* task.dlq_processed
     prep |-> [m \in MsgIds |-> 0],              \* unmatched message.preparing
     errs |-> [m \in MsgIds |-> 0],              \* message.engine_error
     fails |-> [m \in MsgIds |-> 0]]             \* turns that failed

NoWork == [msg |-> None, ready |-> FALSE, task |-> FALSE, state |-> "none"]

NoAcc == [rows |-> <<>>, i |-> 1, was |-> "none", handled |-> FALSE, refused |-> FALSE,
          cont |-> FALSE, final |-> "none"]

Init ==
    /\ up = FALSE /\ todo = <<>> /\ acc = NoAcc /\ work = NoWork
    /\ turn = 0 /\ born = 0 /\ alive = {}
    /\ jn = EmptyJournal
    /\ ledger = [state |-> "ASSIGNED", turns |-> 0, yes |-> {}, no |-> {}]
    /\ file = [a \in Attempts |-> <<>>]
    /\ inbox = [m \in MsgIds |-> IF m = Assignment THEN "open" ELSE "absent"]
    /\ told = [r \in ReportIds |-> <<>>]
    /\ faults = 0 /\ waived = {}

Step(op, a, w) == [op |-> op, a |-> a, w |-> w]
Do(op, a) == Step(op, a, "none")

At(op) == up /\ todo # <<>> /\ Head(todo).op = op
Arg == Head(todo).a
Word == Head(todo).w

\* The handler goes on with these steps and then with what it had left.
Then(steps) == todo' = steps \o Tail(todo)

MayFault(kind) == kind \in Faults /\ faults < MaxFaults
Fault(kind) == MayFault(kind) /\ faults' = faults + 1

(***************************************************************************)
(* The ledger behind one bin/task call (external: TaskLedger).             *)
(***************************************************************************)
Accepted(c) == \E y \in ledger.yes : y.cause = c

Allowed(ev) ==
    \/ ev \in {"start", "cancelled"} /\ ledger.state = "ASSIGNED"
    \/ ev \in Final /\ ledger.state = "IN_PROGRESS"
    \/ ev \in {"progress", "continue"} /\ ledger.state = "IN_PROGRESS" /\ ledger.turns < Budget

Becomes(ev) ==
    CASE ev = "done" -> "DONE" [] ev = "failed" -> "FAILED" [] ev = "blocked" -> "BLOCKED"
      [] ev = "cancelled" -> "CANCELLED" [] OTHER -> "IN_PROGRESS"

Answer(c, ev) ==
    IF Accepted(c) \/ (c \notin ledger.no /\ Allowed(ev)) THEN "ok" ELSE "refused"

After(c, ev) ==
    IF Accepted(c) \/ c \in ledger.no THEN ledger
    ELSE IF Allowed(ev)
    THEN [ledger EXCEPT !.state = Becomes(ev), !.yes = @ \cup {[cause |-> c, ev |-> ev]},
                        !.turns = IF ev \in {"progress", "continue"} THEN @ + 1 ELSE @]
    ELSE [ledger EXCEPT !.no = @ \cup {c}]

\* task_event: the answer is 0, 77, 75 (the stream is locked) or 124 (the call
\* was killed, before or after it appended).
task_event(c, ev, r) ==
    \/ r = Answer(c, ev) /\ ledger' = After(c, ev) /\ UNCHANGED faults
    \/ r = "busy" /\ Fault("ledger") /\ UNCHANGED ledger
    \/ r = "killed" /\ Fault("ledger") /\ ledger' \in {ledger, After(c, ev)}

Rcs == {"ok", "refused", "busy", "killed"}

InProgress == ledger.state = "IN_PROGRESS"

Open(m) == inbox[m] \in {"open", "seen"}

\* bin/message: sending is idempotent by id; seen, done and fail are for messages
\* that are open.
Sent(m) == IF inbox[m] = "absent" THEN [inbox EXCEPT ![m] = "open"] ELSE inbox
Marked(m, st) == IF Open(m) THEN [inbox EXCEPT ![m] = st] ELSE inbox

\* _persist_self_task_message.  Nobody notices a message that is not sent, or
\* that is the one at work or already done with.
SelfMessage(m) ==
    \/ /\ inbox' = Sent(m)
       /\ waived' = IF inbox'[m] \in {"open", "seen"} /\ work.msg # m
                    THEN waived ELSE waived \cup {"idle"}
       /\ UNCHANGED faults
    \/ Fault("self") /\ UNCHANGED inbox /\ waived' = waived \cup {"idle"}

\* A finite set of numbers, in ascending order.
InOrder(S) ==
    LET n == Cardinality(S)
    IN  CHOOSE s \in [1 .. n -> S] : \A i, j \in 1 .. n : i < j => s[i] < s[j]

\* One step for each member of a set of attempts or reports, in their order.
Each(op, S) == [k \in 1 .. Cardinality(S) |-> Do(op, InOrder(S)[k])]

-----------------------------------------------------------------------------
(***************************************************************************)
(* Reports to the requester.                                               *)
(***************************************************************************)
ReportWaiting == \E r \in ReportIds : jn.report[r].st = "pending"

\* _deliver_task_report: nothing twice; report.pending before the first send.
deliver_task_report ==
    /\ At("report")
    /\ IF jn.report[Arg].st = "delivered"
       THEN Then(<<>>) /\ UNCHANGED jn
       ELSE /\ Then(<<Step("send", Arg, Word)>>)
            /\ jn' = [jn EXCEPT !.report[Arg] =
                        IF @.st = "none" THEN [@ EXCEPT !.st = "pending", !.says = Word] ELSE @]
    /\ UNCHANGED <<up, acc, work, turn, born, outside, faults, waived>>

Told(r, s) == IF ByMessage /\ told[r] # <<>> THEN told ELSE [told EXCEPT ![r] = Append(@, s)]

\* A failed send costs one fault; the retries of that report may fail as well.
SendFails ==
    \/ Fault("send")
    \/ "send" \in Faults /\ jn.report[Arg].n > 0 /\ UNCHANGED faults

Send ==
    /\ At("send")
    /\ \/ told' = Told(Arg, Word) /\ Then(<<Do("sent", Arg)>>) /\ UNCHANGED faults
       \/ /\ SendFails /\ told' \in {told, Told(Arg, Word)}
          /\ Then(<<Do("unsent", Arg)>>)
    /\ UNCHANGED <<up, acc, work, turn, born, alive, jn, ledger, file, inbox, waived>>

ReportDelivered ==
    /\ At("sent")
    /\ jn' = [jn EXCEPT !.report[Arg].st = "delivered"]
    /\ Then(<<>>)
    /\ UNCHANGED <<up, acc, work, turn, born, outside, faults, waived>>

\* _record_report_failure: report.retry, and at the limit report.undeliverable.
record_report_failure ==
    LET n == jn.report[Arg].n + 1 IN
    /\ At("unsent")
    /\ jn' = [jn EXCEPT !.report[Arg] =
                IF n >= ReportLimit THEN [@ EXCEPT !.st = "undeliverable"] ELSE [@ EXCEPT !.n = n]]
    /\ Then(<<>>)
    /\ UNCHANGED <<up, acc, work, turn, born, outside, faults, waived>>

\* Mutant: a report that failed once is not tried again.
retry_pending_reports_Fresh ==
    /\ At("reports")
    /\ Then(Each("resend", {r \in ReportIds : jn.report[r].st = "pending" /\ jn.report[r].n = 0}))
    /\ UNCHANGED <<up, acc, work, turn, born, outside, jn, faults, waived>>

\* _retry_pending_reports, whose sends say what report.pending says.
retry_pending_reports ==
    /\ At("reports")
    /\ Then(Each("resend", {r \in ReportIds : jn.report[r].st = "pending"}))
    /\ UNCHANGED <<up, acc, work, turn, born, outside, jn, faults, waived>>

Resend ==
    /\ At("resend")
    /\ Then(<<Step("report", Arg, jn.report[Arg].says)>>)
    /\ UNCHANGED <<up, acc, work, turn, born, outside, jn, faults, waived>>

(***************************************************************************)
(* Files that are not applied.                                             *)
(***************************************************************************)

\* _quarantine_intent: the copy is stored and the file unlinked, then
\* intents.tainted is journaled; a tainted attempt's file is only unlinked.
quarantine_intent ==
    /\ At("quarantine")
    /\ file' = [file EXCEPT ![Arg] = <<>>]
    /\ Then(IF Arg \in jn.tainted THEN <<>> ELSE <<Do("taint", Arg)>>)
    /\ UNCHANGED <<up, acc, work, turn, born, alive, jn, ledger, inbox, told, faults, waived>>

Taint ==
    /\ At("taint")
    /\ jn' = [jn EXCEPT !.tainted = @ \cup {Arg}]
    /\ Then(<<>>)
    /\ UNCHANGED <<up, acc, work, turn, born, outside, faults, waived>>

\* _intent_retry
intent_retry ==
    /\ At("retry")
    /\ jn' = [jn EXCEPT !.retries[Arg] = @ + 1]
    /\ Then(IF jn.retries[Arg] + 1 >= RetryLimit THEN <<Do("quarantine", Arg)>> ELSE <<>>)
    /\ UNCHANGED <<up, acc, work, turn, born, outside, faults, waived>>

intent_retry_pending(a) == jn.retries[a] > 0 /\ a \notin jn.applied \cup jn.tainted

(***************************************************************************)
(* apply_intent_file.                                                      *)
(***************************************************************************)

\* intents.closed as it stands once the file is read; after a turn the reading
\* closes the attempt.
ClosedAs(a) == IF Word = "close" /\ jn.closed[a] = None THEN file[a] ELSE jn.closed[a]

\* Mutant: the file is not compared with what was closed.
Stale_TaintedOnly(a) == a \in jn.tainted

\* A file of a tainted attempt, or not the one that was there at the close.
Stale(a) == a \in jn.tainted \/ (ClosedAs(a) # None /\ ClosedAs(a) # file[a])

HasBadRow(f) == \E k \in DOMAIN f : f[k] = "bad"

\* The first half: what is read, and whether its rows may be looked at.
ApplyFile ==
    LET a == Arg IN
    /\ At("apply")
    /\ jn' = [jn EXCEPT !.closed[a] = ClosedAs(a)]
    /\ \/ file[a] = <<>> /\ acc' = NoAcc /\ Then(<<>>) /\ UNCHANGED faults
       \/ /\ file[a] # <<>> /\ Stale(a)
          /\ acc' = NoAcc /\ Then(<<Do("quarantine", a)>>) /\ UNCHANGED faults
       \/ /\ file[a] # <<>> /\ ~Stale(a) /\ a \in jn.applied
          /\ acc' = NoAcc /\ Then(<<Do("unlink", a)>>) /\ UNCHANGED faults
       \/ /\ file[a] # <<>> /\ ~Stale(a) /\ a \notin jn.applied /\ HasBadRow(file[a])
          /\ acc' = NoAcc /\ Then(<<Do("quarantine", a)>>) /\ UNCHANGED faults
       \/ /\ file[a] # <<>> /\ ~Stale(a) /\ a \notin jn.applied /\ ~HasBadRow(file[a])
          /\ \/ /\ acc' = [NoAcc EXCEPT !.rows = file[a], !.was = ledger.state]
                /\ Then(<<Do("row", a)>>) /\ UNCHANGED faults
             \/ Fault("show") /\ acc' = NoAcc /\ Then(<<Do("retry", a)>>)
    /\ UNCHANGED <<up, work, turn, born, outside, waived>>

\* What an intent.ledger record adds to the locals.
Counted(c, o) ==
    [c EXCEPT !.i = @ + 1, !.handled = @ \/ o \in Reports, !.refused = @ \/ o = "rejected",
              !.cont = @ \/ o = "continue", !.final = IF o \in Final THEN o ELSE @]

Row == acc.rows[acc.i]
MoreRows == At("row") /\ acc.i <= Len(acc.rows)
NewRow == MoreRows /\ acc.i > Len(jn.rec[Arg])

\* A row an earlier application has recorded is not sent again.
RecordedRow ==
    /\ MoreRows /\ acc.i <= Len(jn.rec[Arg])
    /\ acc' = Counted(acc, jn.rec[Arg][acc.i])
    /\ UNCHANGED <<up, todo, work, turn, born, outside, jn, faults, waived>>

\* delegate, or a result_ref that names nothing of the task: the supervisor
\* itself has the refusal put on record.
RefusedRow ==
    /\ NewRow /\ Row \notin Reports
    /\ \/ Then(<<Step("record", Arg, "rejected")>>) /\ UNCHANGED <<acc, faults>>
       \/ Fault("ledger") /\ acc' = NoAcc /\ Then(<<Do("retry", Arg)>>)
    /\ UNCHANGED <<up, work, turn, born, outside, jn, waived>>

\* Mutant: a killed call is taken for a refusal.
AfterReport_KilledIsRefused(r) ==
    IF r = "ok" THEN Step("record", Arg, Row)
    ELSE IF r # "busy" /\ Row = "continue" /\ ledger'.turns >= Budget THEN Do("budget", Arg)
    ELSE IF r # "busy" THEN Step("record", Arg, "rejected")
    ELSE Do("retry", Arg)

\* A failed call counts as refused for the budget if the task has no turns left
\* (the task_show that looks is taken to succeed).
AfterReport(r) ==
    IF r = "ok" THEN Step("record", Arg, Row)
    ELSE IF r # "busy" /\ Row = "continue" /\ ledger'.turns >= Budget THEN Do("budget", Arg)
    ELSE IF r = "refused" THEN Step("record", Arg, "rejected")
    ELSE Do("retry", Arg)

ReportRow ==
    /\ NewRow /\ Row \in Reports
    /\ \E r \in Rcs :
         /\ task_event(<<"row", Arg, acc.i>>, Row, r)
         /\ Then(<<AfterReport(r)>>)
         /\ acc' = IF AfterReport(r).op = "retry" THEN NoAcc ELSE acc
    /\ UNCHANGED <<up, work, turn, born, alive, jn, file, inbox, told, waived>>

\* Mutant: a refused block is reported all the same.
BudgetBlock_Told ==
    /\ At("budget")
    /\ \E r \in Rcs :
         /\ task_event(<<"budget", Arg, 0>>, "blocked", r)
         /\ Then(IF r \in {"ok", "refused"}
                 THEN <<Step("report", Arg, "blocked"), Step("record", Arg, "budget")>>
                 ELSE <<Do("retry", Arg)>>)
         /\ acc' = IF r \in {"ok", "refused"} THEN acc ELSE NoAcc
    /\ UNCHANGED <<up, work, turn, born, alive, jn, file, inbox, told, waived>>

\* _service_block for a continuation beyond the budget.
BudgetBlock ==
    /\ At("budget")
    /\ \E r \in Rcs :
         /\ task_event(<<"budget", Arg, 0>>, "blocked", r)
         /\ CASE r = "ok" -> Then(<<Step("report", Arg, "blocked"), Step("record", Arg, "budget")>>)
              [] r = "refused" -> Then(<<Step("record", Arg, "budget")>>)
              [] OTHER -> Then(<<Do("retry", Arg)>>)
         /\ acc' = IF r \in {"ok", "refused"} THEN acc ELSE NoAcc
    /\ UNCHANGED <<up, work, turn, born, alive, jn, file, inbox, told, waived>>

\* Mutant: what the row asked is recorded, not what became of it.
RecordRow_Asked ==
    /\ At("record")
    /\ jn' = [jn EXCEPT !.rec[Arg] = Append(@, Row)]
    /\ acc' = [Counted(acc, Word) EXCEPT !.handled = @ \/ Word = "budget"]
    /\ Then(<<Do("row", Arg)>>)
    /\ UNCHANGED <<up, work, turn, born, outside, faults, waived>>

RecordRow ==
    /\ At("record")
    /\ jn' = [jn EXCEPT !.rec[Arg] = Append(@, Word)]
    /\ acc' = [Counted(acc, Word) EXCEPT !.handled = @ \/ Word = "budget"]
    /\ Then(<<Do("row", Arg)>>)
    /\ UNCHANGED <<up, work, turn, born, outside, faults, waived>>

\* Mutant: a receipt does not stand in for the continuation.
Settle_Both(a, state) ==
    /\ Then((IF acc.final = "none" THEN <<>> ELSE <<Step("report", a, acc.final)>>)
            \o (IF state = "IN_PROGRESS" /\ acc.handled /\ acc.refused
                THEN <<Step("self", a, "r")>> ELSE <<>>)
            \o (IF state = "IN_PROGRESS" /\ acc.cont THEN <<Step("self", a, "c")>> ELSE <<>>)
            \o <<Do("applied", a), Do("unlink", a), Do("done", a)>>)
    /\ UNCHANGED waived

\* After the rows: the last final report is told, a task still in progress gets
\* a receipt or a continuation, and the application is over.
Settle(a, state) ==
    /\ Then((IF acc.final = "none" THEN <<>> ELSE <<Step("report", a, acc.final)>>)
            \o (IF state # "IN_PROGRESS" THEN <<>>
                ELSE IF acc.handled /\ acc.refused THEN <<Step("self", a, "r")>>
                ELSE IF acc.cont THEN <<Step("self", a, "c")>>
                ELSE <<>>)
            \o <<Do("applied", a), Do("unlink", a), Do("done", a)>>)
    /\ waived' = IF InProgress /\ acc.handled /\ ~acc.refused /\ ~acc.cont
                 THEN waived \cup {"idle"} ELSE waived

\* The state is read again; if that fails it is the one read before the rows.
RowsDone ==
    /\ At("row") /\ acc.i > Len(acc.rows)
    /\ \/ Settle(Arg, ledger.state) /\ UNCHANGED faults
       \/ Fault("show") /\ Settle(Arg, acc.was)
    /\ UNCHANGED <<up, acc, work, turn, born, outside, jn>>

SendToSelf ==
    /\ At("self")
    /\ SelfMessage(<<Word, Arg>>)
    /\ Then(<<>>)
    /\ UNCHANGED <<up, acc, work, turn, born, alive, jn, ledger, file, told>>

IntentsApplied ==
    /\ At("applied")
    /\ jn' = [jn EXCEPT !.applied = @ \cup {Arg}]
    /\ Then(<<>>)
    /\ UNCHANGED <<up, acc, work, turn, born, outside, faults, waived>>

unlink_intent ==
    /\ At("unlink")
    /\ file' = [file EXCEPT ![Arg] = <<>>]
    /\ Then(<<>>)
    /\ UNCHANGED <<up, acc, work, turn, born, alive, jn, ledger, inbox, told, faults, waived>>

\* The message of the attempt's context is done with.
ContextDone ==
    /\ At("done")
    /\ \/ inbox' = Marked(jn.msg[jn.of[Arg]], "done") /\ UNCHANGED faults
       \/ Fault("done") /\ UNCHANGED inbox
    /\ Then(<<>>)
    /\ UNCHANGED <<up, acc, work, turn, born, alive, jn, ledger, file, told, waived>>

(***************************************************************************)
(* A turn that ends without a report, and the failures of a message.       *)
(***************************************************************************)
IfAssigned(w) == IF ledger'.state = "ASSIGNED" THEN waived \cup {w} ELSE waived
Failing(r) == IF r \in {"busy", "killed"} THEN waived \cup {"idle"} ELSE waived

\* task_show, or what the caller takes for the state when the call fails.
task_show(state, otherwise) ==
    \/ state = ledger.state /\ UNCHANGED faults
    \/ state = otherwise /\ Fault("show")

States == {"ASSIGNED", "IN_PROGRESS", "DONE", "FAILED", "BLOCKED", "CANCELLED", "none"}

Unseen(state) == IF InProgress /\ state # "IN_PROGRESS" THEN waived \cup {"idle"} ELSE waived

\* handle_missing_report: a nudge, and at the second time a block; task.no_report
\* is journaled whatever came of it.
handle_missing_report ==
    /\ At("missing")
    /\ \/ /\ jn.missing = 0
          /\ SelfMessage(Nudge)
          /\ Then(<<Do("no_report", Arg)>>)
          /\ UNCHANGED ledger
       \/ /\ jn.missing > 0
          /\ \E r \in Rcs :
               /\ task_event(<<"no_report", 0, 0>>, "blocked", r)
               /\ Then((IF r = "ok" THEN <<Step("report", Arg, "blocked")>> ELSE <<>>)
                       \o <<Do("no_report", Arg)>>)
               /\ waived' = Failing(r)
          /\ UNCHANGED inbox
    /\ UNCHANGED <<up, acc, work, turn, born, alive, jn, file, told>>

TaskNoReport ==
    /\ At("no_report")
    /\ jn' = [jn EXCEPT !.missing = @ + 1, !.missed = Arg]
    /\ Then(<<>>)
    /\ UNCHANGED <<up, acc, work, turn, born, outside, faults, waived>>

\* _service_fail after the last failure of a message's turns.
service_fail ==
    /\ At("service_fail")
    /\ \/ \E state \in States \ {"IN_PROGRESS"} :
            /\ task_show(state, "none")
            /\ waived' = Unseen(state) /\ Then(<<>>) /\ UNCHANGED ledger
       \/ /\ InProgress
          /\ \E r \in Rcs :
               /\ task_event(<<"fail", Arg, 0>>, "failed", r)
               /\ Then(IF r = "ok" THEN <<Step("report", Arg, "failed")>> ELSE <<>>)
               /\ waived' = Failing(r)
    /\ UNCHANGED <<up, acc, work, turn, born, alive, jn, file, inbox, told>>

WorkDone ==
    /\ At("work_done")
    /\ \/ inbox' = Marked(work.msg, "done") /\ UNCHANGED faults
       \/ Fault("done") /\ UNCHANGED inbox
    /\ work' = NoWork
    /\ Then(<<>>)
    /\ UNCHANGED <<up, acc, turn, born, alive, jn, ledger, file, told, waived>>

\* message fail; only a failed turn is followed by service_fail.
WorkFailed ==
    /\ At("work_failed")
    /\ inbox' = Marked(work.msg, "failed")
    /\ work' = NoWork
    /\ waived' = IF InProgress /\ Word # "turn" THEN waived \cup {"idle"} ELSE waived
    /\ Then(<<>>)
    /\ UNCHANGED <<up, acc, turn, born, alive, jn, ledger, file, told, faults>>

(***************************************************************************)
(* The main loop: poll, prepare, run a turn, collect it.                   *)
(***************************************************************************)
Preparations == 2       \* preparations that may kill the supervisor

Poll ==
    /\ up /\ todo = <<>> /\ turn = 0
    /\ todo' = <<Do("reports", 0), Do("orphans", 0), Do("scan", 0), Do("dlq", 0), Do("choose", 0)>>
    /\ UNCHANGED <<up, acc, work, turn, born, outside, jn, faults, waived>>

\* choose_message: the agent's own messages go first.
Chosen(m) ==
    /\ Open(m)
    /\ m = Assignment => \A k \in MsgIds \ {Assignment} : ~Open(k)

choose_message ==
    /\ At("choose")
    /\ \/ /\ work.msg # None
          /\ Then(<<Do(IF work.ready THEN "start" ELSE "prepare", 0)>>)
          /\ UNCHANGED <<work, inbox>>
       \/ /\ work.msg = None
          /\ \E m \in MsgIds : /\ Chosen(m)
                               /\ work' = [NoWork EXCEPT !.msg = m]
                               /\ inbox' = Marked(m, "seen")
          /\ Then(<<Do("prepare", 0)>>)
       \/ /\ work.msg = None
          /\ ~ \E m \in MsgIds : Chosen(m)
          /\ Then(<<>>) /\ UNCHANGED <<work, inbox>>
    /\ UNCHANGED <<up, acc, turn, born, alive, jn, ledger, file, told, faults, waived>>

\* prepare_task_work.  A message of a task that is over is done with; if the
\* task cannot be shown the message is taken for an ordinary one.
prepare_task_work ==
    LET m == work.msg IN
    /\ At("prepare")
    /\ \/ /\ Fault("show")
          /\ work' = [work EXCEPT !.ready = TRUE] /\ Then(<<Do("start", 0)>>)
          /\ waived' = waived \cup {IF ledger.state = "ASSIGNED" THEN "lost" ELSE "idle"}
          /\ UNCHANGED <<jn, inbox>>
       \/ /\ ledger.state \notin {"ASSIGNED", "IN_PROGRESS"}
          /\ inbox' = Marked(m, "done") /\ work' = NoWork /\ Then(<<>>)
          /\ UNCHANGED <<jn, faults, waived>>
       \/ /\ ledger.state \in {"ASSIGNED", "IN_PROGRESS"}
          /\ UNCHANGED <<inbox, work, waived>>
          /\ \/ Fault("sidecar") /\ Then(<<Do("work_failed", 0)>>) /\ UNCHANGED jn
             \/ /\ jn.prep[m] >= Preparations /\ Then(<<Do("engine", 0)>>)
                /\ UNCHANGED <<jn, faults>>
             \/ /\ jn.prep[m] < Preparations
                /\ jn' = [jn EXCEPT !.prep[m] = @ + 1]
                /\ Then(<<Step("activate", 0, ledger.state)>>) /\ UNCHANGED faults
    /\ UNCHANGED <<up, acc, turn, born, alive, ledger, file, told>>

\* message.prepared or message.preparation_failed.
Activate ==
    /\ At("activate")
    /\ jn' = [jn EXCEPT !.prep[work.msg] = @ - 1]
    /\ \/ /\ work' = [work EXCEPT !.ready = TRUE, !.task = TRUE, !.state = Word]
          /\ Then(<<Do(IF Word = "ASSIGNED" THEN "pickup" ELSE "start", 0)>>) /\ UNCHANGED faults
       \/ Fault("worktree") /\ Then(<<Do("engine", 0)>>) /\ UNCHANGED work
    /\ UNCHANGED <<up, acc, turn, born, outside, waived>>

\* The task is started once the work carries it.
Pickup ==
    /\ At("pickup")
    /\ \E r \in Rcs :
         /\ task_event(<<"start", 0, 0>>, "start", r)
         /\ Then(<<Do(IF r = "ok" THEN "start" ELSE "engine", 0)>>)
         /\ work' = IF r = "ok" THEN [work EXCEPT !.state = "IN_PROGRESS"] ELSE work
         /\ waived' = IfAssigned("lost")
    /\ UNCHANGED <<up, acc, turn, born, alive, jn, file, inbox, told>>

\* _message_engine_error: the work is kept as it is and tried again.
message_engine_error ==
    LET m == work.msg IN
    /\ At("engine")
    /\ jn' = [jn EXCEPT !.errs[m] = @ + 1]
    /\ Then(IF 1 + jn.prep[m] + jn.errs[m] >= MessageErrors THEN <<Do("work_failed", 0)>> ELSE <<>>)
    /\ UNCHANGED <<up, acc, work, turn, born, outside, faults, waived>>

start_turn ==
    LET a == jn.last + 1 IN
    /\ At("start") /\ a <= MaxAttempts
    /\ jn' = [jn EXCEPT !.last = a, !.open = a, !.msg[a] = work.msg, !.task[a] = work.task]
    /\ turn' = a /\ alive' = alive \cup {a}
    /\ Then(<<>>)
    /\ UNCHANGED <<up, acc, work, born, ledger, file, inbox, told, faults, waived>>

\* collect_turn: turn.attempt, then the intents, then the result.
collect_turn(result) ==
    /\ up /\ todo = <<>> /\ turn # 0 /\ turn \notin alive
    /\ IF result = "ok" THEN UNCHANGED faults ELSE Fault(result)
    /\ jn' = [jn EXCEPT !.of[turn] = turn]
    /\ todo' = (IF work.task THEN <<Step("apply", turn, "close")>> ELSE <<>>)
                 \o <<Step("finish", turn, result)>>
    /\ acc' = NoAcc /\ turn' = 0
    /\ UNCHANGED <<up, work, born, outside, waived>>

\* _finish_result: turn.ended.  A turn whose intents closed the task succeeded.
Succeeds(state) == Word = "ok" \/ (acc.handled /\ state \notin {"ASSIGNED", "IN_PROGRESS"})

finish_result ==
    /\ At("finish")
    /\ \E state \in States :
         /\ task_show(state, work.state)
         /\ \/ /\ Succeeds(state)
               /\ LET unreported == work.task /\ ~acc.handled /\ ~intent_retry_pending(Arg) IN
                  /\ Then((IF unreported /\ state = "IN_PROGRESS" THEN <<Do("missing", Arg)>> ELSE <<>>)
                          \o <<Do("work_done", 0)>>)
                  /\ waived' = IF unreported THEN Unseen(state) ELSE waived
               /\ jn' = [jn EXCEPT !.open = 0]
            \/ /\ ~Succeeds(state) /\ Word = "infra"
               /\ jn' = [jn EXCEPT !.open = 0]
               /\ Then(<<>>) /\ UNCHANGED waived
            \/ /\ ~Succeeds(state) /\ Word = "failure"
               /\ jn' = [jn EXCEPT !.open = 0, !.fails[work.msg] = @ + 1]
               /\ Then(IF jn'.fails[work.msg] < MessageErrors THEN <<>>
                       ELSE <<Step("work_failed", 0, "turn")>>
                              \o (IF work.task THEN <<Do("service_fail", Arg)>> ELSE <<>>))
               /\ UNCHANGED waived
    /\ UNCHANGED <<up, acc, work, turn, born, outside>>

(***************************************************************************)
(* Start-up: an orphaned turn, its attempt, and the scans.                 *)
(***************************************************************************)
Claimed == {a \in Attempts : jn.of[a] # 0}
PendingFiles == {a \in Attempts : file[a] # <<>> /\ a \notin jn.applied}
Unclaimed == PendingFiles \ Claimed

\* run: the orphan first, then every scan, then the sweep.
Restart ==
    /\ ~up
    /\ up' = TRUE /\ born' = jn.last
    /\ todo' = (IF jn.open = 0 THEN <<>>
                ELSE <<Do("await", 0), Step("adopt", jn.open, "first"), Do("gone", 0)>>)
               \o <<Do("close_all", 0), Do("reports", 0), Do("orphans", 0), Do("scan", 0),
                    Do("sweep", 0), Do("dlq", 0)>>
    /\ waived' = waived \ {"idle"}
    /\ UNCHANGED <<acc, work, turn, outside, jn, faults>>

\* handle_orphan waits for the broker's leases, for so long.
AwaitOrphan ==
    /\ At("await")
    /\ IF alive = {} THEN UNCHANGED faults ELSE Fault("cap")
    /\ Then(<<>>)
    /\ UNCHANGED <<up, acc, work, turn, born, outside, jn, waived>>

OrphanGone ==
    /\ At("gone")
    /\ jn' = [jn EXCEPT !.open = 0]
    /\ Then(<<>>)
    /\ UNCHANGED <<up, acc, work, turn, born, outside, faults, waived>>

\* The broker's decisions that fit turn l: pending, unclaimed, ended, and made
\* between the start of the turn and the start of this process.
Matches(l) == {a \in Unclaimed : l <= a /\ a <= born /\ a \notin alive}

\* _adopt_orphan_attempt.  The lookup of the broker's decisions may fail, and
\* go on failing.
adopt_orphan_attempt ==
    LET l == Arg
        n == IF Word = "first" THEN 1 ELSE jn.defer[l] + 1
        mine == {a \in Attempts : jn.of[a] = l}
    IN
    /\ At("adopt")
    /\ \/ /\ mine # {}
          /\ Then(Each("close", mine) \o <<Do("resolve", l)>>)
          /\ UNCHANGED <<jn, faults>>
       \/ /\ mine = {} /\ "bindings" \in Faults /\ UNCHANGED faults
          /\ \/ /\ n >= DeferLimit
                /\ Then(Each("quarantine", Unclaimed) \o <<Do("resolve", l)>>) /\ UNCHANGED jn
             \/ /\ n < DeferLimit
                /\ jn' = [jn EXCEPT !.defer[l] = n, !.pending[l] = Unclaimed]
                /\ Then(<<>>)
       \/ /\ mine = {} /\ Cardinality(Matches(l)) = 1
          /\ \E a \in Matches(l) :
               /\ jn' = [jn EXCEPT !.of[a] = l]
               /\ Then(<<Do("close", a), Do("resolve", l)>>)
          /\ UNCHANGED faults
       \/ /\ mine = {} /\ Cardinality(Matches(l)) # 1
          /\ Then(Each("quarantine", Unclaimed) \o <<Do("resolve", l)>>)
          /\ UNCHANGED <<jn, faults>>
    /\ UNCHANGED <<up, acc, work, turn, born, outside, waived>>

\* orphan.resolved, orphan.exhausted
ResolveOrphan ==
    /\ At("resolve")
    /\ jn' = [jn EXCEPT !.defer[Arg] = 0, !.pending[Arg] = {}]
    /\ Then(<<>>)
    /\ UNCHANGED <<up, acc, work, turn, born, outside, faults, waived>>

\* _close_intent_attempt with what the file holds now.
CloseAttempts(S) ==
    jn' = [jn EXCEPT !.closed = [a \in Attempts |->
                IF a \in S /\ @[a] = None THEN file[a] ELSE @[a]]]

close_intent_attempt ==
    /\ At("close")
    /\ CloseAttempts({Arg})
    /\ Then(<<>>)
    /\ UNCHANGED <<up, acc, work, turn, born, outside, faults, waived>>

close_unclosed_attempts ==
    /\ At("close_all")
    /\ CloseAttempts(Claimed)
    /\ Then(<<>>)
    /\ UNCHANGED <<up, acc, work, turn, born, outside, faults, waived>>

retry_deferred_orphans ==
    /\ At("orphans")
    /\ Then(Each("adopt", {l \in Attempts : jn.defer[l] > 0}))
    /\ UNCHANGED <<up, acc, work, turn, born, outside, jn, faults, waived>>

deferred_intent_names == (UNION {jn.pending[l] : l \in Attempts}) \ Claimed

scan_intents ==
    /\ At("scan")
    /\ Then(Each("file", {a \in Attempts : file[a] # <<>>}))
    /\ UNCHANGED <<up, acc, work, turn, born, outside, jn, faults, waived>>

\* One file of the scan.
ScanFile ==
    LET a == Arg IN
    /\ At("file")
    /\ Then(CASE a \in deferred_intent_names -> <<>>
              [] a \notin deferred_intent_names \cup Claimed -> <<Do("quarantine", a)>>
              [] a \in Claimed /\ ~jn.task[jn.of[a]] -> <<Do("quarantine", a)>>
              [] OTHER -> <<Step("apply", a, "scan")>>
                          \o (IF intent_retry_pending(a) THEN <<Do("recheck", a)>> ELSE <<>>))
    /\ UNCHANGED <<up, acc, work, turn, born, outside, jn, faults, waived>>

\* _recheck_missing_report_after_retry, once the retry is resolved.
recheck_missing_report_after_retry ==
    LET due == ~intent_retry_pending(Arg) /\ ~acc.handled /\ ~ReportWaiting IN
    /\ At("recheck")
    /\ \E state \in States :
         /\ task_show(state, "none")
         /\ Then(IF due /\ state = "IN_PROGRESS" THEN <<Do("missing", Arg)>> ELSE <<>>)
         /\ waived' = IF due THEN Unseen(state) ELSE waived
    /\ UNCHANGED <<up, acc, work, turn, born, outside, jn>>

\* Mutant: the sweep leaves a task alone that had its nudge.
Forgotten_OnceOnly ==
    /\ InProgress /\ ~ReportWaiting /\ jn.missing = 0
    /\ \A a \in Claimed : jn.task[jn.of[a]] => ~intent_retry_pending(a)
    /\ \A l \in Attempts : jn.defer[l] > 0 => ~jn.task[l]
    /\ \A m \in MsgIds : ~Open(m)

\* sweep_missing_reports: a task in progress that nothing else will move.
Forgotten ==
    /\ InProgress /\ ~ReportWaiting
    /\ \A a \in Claimed : jn.task[jn.of[a]] => ~intent_retry_pending(a)
    /\ \A l \in Attempts : jn.defer[l] > 0 => ~jn.task[l]
    /\ \A m \in MsgIds : ~Open(m)

sweep_missing_reports ==
    /\ At("sweep")
    /\ \E state \in States :
         /\ task_show(state, "none")
         /\ Then(IF Forgotten /\ state = "IN_PROGRESS" THEN <<Do("missing", jn.missed)>> ELSE <<>>)
         /\ waived' = IF Forgotten THEN Unseen(state) ELSE waived
    /\ UNCHANGED <<up, acc, work, turn, born, outside, jn>>

\* scan_task_dlq: the assignment could not be delivered; processed once,
\* whatever the ledger answered.
scan_task_dlq ==
    LET dead == inbox[Assignment] = "failed" /\ ~jn.dlq IN
    /\ At("dlq")
    /\ \/ ~dead /\ Then(<<>>) /\ UNCHANGED <<ledger, faults, waived>>
       \/ /\ dead
          /\ \E state \in States \ {"ASSIGNED"} : task_show(state, "none")
          /\ UNCHANGED ledger /\ waived' = IfAssigned("lost") /\ Then(<<Do("dlq_done", 0)>>)
       \/ /\ dead /\ ledger.state = "ASSIGNED"
          /\ \E r \in Rcs :
               /\ task_event(<<"delivery", 0, 0>>, "cancelled", r)
               /\ Then((IF r = "ok" THEN <<Step("report", Delivery, "cancelled")>> ELSE <<>>)
                       \o <<Do("dlq_done", 0)>>)
          /\ waived' = IfAssigned("lost")
    /\ UNCHANGED <<up, acc, work, turn, born, alive, jn, file, inbox, told>>

DlqProcessed ==
    /\ At("dlq_done")
    /\ jn' = [jn EXCEPT !.dlq = TRUE]
    /\ Then(<<>>)
    /\ UNCHANGED <<up, acc, work, turn, born, outside, faults, waived>>

(***************************************************************************)
(* The supervisor is killed; what goes on outside.                         *)
(***************************************************************************)
Crash ==
    /\ up /\ Fault("crash")
    /\ up' = FALSE /\ todo' = <<>> /\ acc' = NoAcc /\ work' = NoWork /\ turn' = 0
    /\ waived' = IF At("taint") /\ intent_retry_pending(Arg) THEN waived \cup {"lost"} ELSE waived
    /\ UNCHANGED <<born, outside, jn>>

IsPrefix(f, g) == Len(f) < Len(g) /\ f = SubSeq(g, 1, Len(f))

\* append_intent, by the worker or, late, by a process it left behind.
append_intent(a) ==
    /\ a <= jn.last
    /\ IF a \in alive THEN UNCHANGED faults ELSE Fault("late")
    /\ \E f \in Files : IsPrefix(file[a], f) /\ file' = [file EXCEPT ![a] = f]
    /\ UNCHANGED <<up, todo, acc, work, turn, born, alive, jn, ledger, inbox, told, waived>>

WorkerExits(a) ==
    /\ a \in alive
    /\ alive' = alive \ {a}
    /\ UNCHANGED <<up, todo, acc, work, turn, born, jn, ledger, file, inbox, told, faults, waived>>

\* The owner cancels the task.
OwnerCancels ==
    /\ ledger.state \in {"ASSIGNED", "IN_PROGRESS", "BLOCKED"} /\ Fault("cancel")
    /\ ledger' = [ledger EXCEPT !.state = "CANCELLED"]
    /\ UNCHANGED <<up, todo, acc, work, turn, born, alive, jn, file, inbox, told, waived>>

\* wakeup gives up an assignment the supervisor has not seen.
DeliveryFails ==
    /\ inbox[Assignment] = "open" /\ Fault("delivery")
    /\ inbox' = [inbox EXCEPT ![Assignment] = "failed"]
    /\ UNCHANGED <<up, todo, acc, work, turn, born, alive, jn, ledger, file, told, waived>>

Handler ==
    \/ deliver_task_report \/ Send \/ ReportDelivered \/ record_report_failure
    \/ retry_pending_reports \/ Resend
    \/ quarantine_intent \/ Taint \/ intent_retry
    \/ ApplyFile \/ RecordedRow \/ RefusedRow \/ ReportRow \/ BudgetBlock \/ RecordRow
    \/ RowsDone \/ SendToSelf \/ IntentsApplied \/ unlink_intent \/ ContextDone
    \/ handle_missing_report \/ TaskNoReport \/ service_fail \/ WorkDone \/ WorkFailed
    \/ choose_message \/ prepare_task_work \/ Activate \/ Pickup \/ message_engine_error
    \/ start_turn \/ finish_result
    \/ AwaitOrphan \/ OrphanGone \/ adopt_orphan_attempt \/ ResolveOrphan
    \/ close_intent_attempt \/ close_unclosed_attempts \/ retry_deferred_orphans
    \/ scan_intents \/ ScanFile \/ recheck_missing_report_after_retry
    \/ sweep_missing_reports \/ scan_task_dlq \/ DlqProcessed

Loop == Poll \/ \E result \in {"ok", "infra", "failure"} : collect_turn(result)

Workers == \E a \in Attempts : append_intent(a) \/ WorkerExits(a)

Next == Handler \/ Loop \/ Restart \/ Crash \/ Workers \/ OwnerCancels \/ DeliveryFails

Spec == Init /\ [][Next]_vars

\* The process goes on and is started again (systemd, Restart=on-failure), and
\* a worker ends.
Fairness ==
    /\ WF_vars(Handler \/ Loop \/ Restart)
    /\ WF_vars(\E a \in Attempts : WorkerExits(a))

FairSpec == Spec /\ Fairness
-----------------------------------------------------------------------------
TypeOK ==
    /\ up \in BOOLEAN /\ turn \in 0 .. MaxAttempts /\ born \in 0 .. MaxAttempts
    /\ alive \subseteq Attempts
    /\ file \in [Attempts -> Seq(Rows)]
    /\ inbox \in [MsgIds -> {"absent", "open", "seen", "done", "failed"}]
    /\ told \in [ReportIds -> Seq(Final \cup {"cancelled"})]
    /\ ledger.state \in {"ASSIGNED", "IN_PROGRESS", "DONE", "FAILED", "BLOCKED", "CANCELLED"}
    /\ ledger.turns \in 0 .. Budget
    /\ ledger.no \subseteq Causes /\ \A y \in ledger.yes : y.cause \in Causes
    /\ jn.last \in 0 .. MaxAttempts /\ jn.open \in 0 .. MaxAttempts
    /\ \A a \in Attempts :
         /\ jn.closed[a] \in {None} \cup Seq(Rows) /\ jn.rec[a] \in Seq(Outcomes)
         /\ jn.retries[a] \in Nat /\ jn.of[a] \in 0 .. MaxAttempts
    /\ faults \in 0 .. MaxFaults /\ waived \subseteq {"idle", "lost"}

\* Every report the ledger took for row i of an attempt is the row that stood
\* at place i of the attempt's file when it was closed: nothing a worker's
\* leftover process writes later is applied (the digest of intents.closed).
RowsAsClosed ==
    \A y \in ledger.yes :
        y.cause[1] = "row" =>
            LET rows == jn.closed[y.cause[2]] IN
            rows # None /\ y.cause[3] <= Len(rows) /\ rows[y.cause[3]] = y.ev

\* intent.ledger says what the ledger did, and an applied file has been
\* answered row by row, whatever crashes and retries came between.
JournalAgrees ==
    \A a \in Attempts :
        /\ \A i \in DOMAIN jn.rec[a] :
             /\ jn.rec[a][i] \in Reports => Accepted(<<"row", a, i>>)
             /\ jn.rec[a][i] = "rejected" => ~Accepted(<<"row", a, i>>)
        /\ a \in jn.applied => Len(jn.rec[a]) = Len(jn.closed[a])

\* The requester is told one outcome only, one the ledger took, and through one
\* report id only; the block for a missing report may go out under two ids (a
\* later turn still sees the task in progress and the ledger answers yes again).
ToldIsTrue ==
    \A r, q \in ReportIds : told[r] # <<>> /\ told[q] # <<>> =>
        \E y \in ledger.yes :
            /\ \A k \in DOMAIN told[r] : told[r][k] = y.ev
            /\ \A k \in DOMAIN told[q] : told[q][k] = y.ev
            /\ r = q \/ y.cause[1] = "no_report"

\* An attempt leads to at most one further message, however often its file is
\* applied (the ids of receipt and continuation).
OneFollowUp ==
    \A a \in Attempts : ~(inbox[<<"c", a>>] # "absent" /\ inbox[<<"r", a>>] # "absent")

Active == ledger.state \in {"ASSIGNED", "IN_PROGRESS"}

\* A task does not stay with the worker for ever: it is reported, blocked,
\* failed or cancelled, unless a helper call failed where nothing retries it or
\* the worker's turn only reported progress.
TaskSettles == Active ~> (~Active \/ waived # {})

\* The final report of a row reaches the requester, or is given up with an alarm,
\* or its file was quarantined half applied.
FinalRow(a) == \E y \in ledger.yes : y.cause[1] = "row" /\ y.cause[2] = a /\ y.ev \in Final

FinalReportReaches ==
    (\E a \in Attempts : FinalRow(a)) ~>
        \E a \in Attempts :
            /\ FinalRow(a)
            /\ jn.report[a].st \in {"delivered", "undeliverable"} \/ a \in jn.tainted

\* CONTRACT.md, "Task pickup emits `task.started` once": a turn that carries the
\* task runs only once the ledger has it started.
PickupStarts == turn # 0 /\ jn.task[turn] => Accepted(<<"start", 0, 0>>)
=============================================================================
