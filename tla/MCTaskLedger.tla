---------------------------- MODULE MCTaskLedger ----------------------------
(***************************************************************************)
(* Instances of TaskLedger for TLC.  Each run sends its own small set of   *)
(* requests; every request may be sent at any time, by any writer and any  *)
(* number of times.                                                        *)
(***************************************************************************)
EXTENDS TaskLedger

CONSTANTS ld, dev1, dev2, other, r1, r2, s1, t1, t2, b1, b2,
          c1, c2, c3, c4, c5, c6, w1, w2

MCAgents == {ld, dev1, dev2}
MCTeamOf == [a \in MCAgents |-> t1]
MCLeads == [t \in {t1} |-> ld]

human == [kind |-> "human", uid |-> None]
gateway == [kind |-> "gateway", uid |-> None]
agent(a) == [kind |-> "agent", uid |-> a]
supervisor(a) == [kind |-> "service", uid |-> a]

\* A request with every optional argument absent.
Bare(type, actor, cause) ==
    [type |-> type, actor |-> actor, attested |-> TRUE, team |-> t1, run |-> r1,
     task |-> None, cause |-> cause, source |-> None, assignee |-> None,
     gate |-> "none", body |-> None, report |-> None, outcome |-> None,
     reason |-> None, requested |-> None, expect |-> FALSE]

RunCreate(cause) == Bare("run.requested", human, cause)

RunClose(actor, outcome, cause) ==
    [Bare("run.closed", actor, cause) EXCEPT !.outcome = outcome]

Create(actor, uid, cause) ==
    [Bare("task.created", actor, cause) EXCEPT
        !.task = task_id(cause, 1), !.source = s1, !.assignee = uid, !.body = b1]

On(task, q) == [q EXCEPT !.task = task]

Start(task, uid, cause) == On(task, Bare("task.started", supervisor(uid), cause))

Report(task, uid, state, cause) ==
    On(task, [Bare("task.reported", agent(uid), cause) EXCEPT !.report = state])

EngineReport(task, uid, state, why, cause) ==
    On(task, [Bare("task.reported", supervisor(uid), cause) EXCEPT
                !.report = state, !.reason = why])

Cancel(task, actor, token, cause) ==
    On(task, [Bare("task.cancelled", actor, cause) EXCEPT !.expect = token])

Assign(task, actor, uid, token, cause) ==
    On(task, [Bare("task.reassigned", actor, cause) EXCEPT
                !.assignee = uid, !.expect = token])

Reopen(task, actor, uid, token, cause) ==
    On(task, [Bare("task.reopened", actor, cause) EXCEPT
                !.assignee = uid, !.expect = token])

Overdue(task, uid, cause) == On(task, Bare("task.overdue", supervisor(uid), cause))

EngineReject(uid, cause) ==
    [Bare("task.rejected", supervisor(uid), cause) EXCEPT !.requested = "task.reported"]

T == task_id(c2, 1)

\* A human and the lead steer one task from the board while its worker's
\* supervisor starts and blocks it; a report that the task is overdue comes
\* under the cause of its creation.
RaceRequests ==
    {RunCreate(c1), Create(agent(ld), dev1, c2), Start(T, dev1, c3),
     EngineReport(T, dev1, "blocked", "no_report", c4),
     Assign(T, agent(ld), dev2, TRUE, c5), Cancel(T, human, TRUE, c6),
     Overdue(T, ld, c2)}

\* Two creates compete for one open slot while the first task is worked on,
\* fails, is overdue or reopened; two different bodies are sent for the
\* second, and an engine rejection comes late.
LimitRequests ==
    {RunCreate(c1), Create(agent(ld), dev1, c2), Create(human, dev2, c3),
     [Create(human, dev2, c3) EXCEPT !.body = b2], Start(T, dev1, c4),
     Report(T, dev1, "progress", c5), Report(T, dev1, "progress", c6),
     EngineReport(T, dev1, "failed", "turn_failed", c6), Reopen(T, human, dev1, FALSE, c5),
     Overdue(T, ld, c6), EngineReject(dev1, c6)}

\* A run is closed by the lead or a human while its task is created, finished
\* and cancelled; an unattested caller interferes, and a second team with its
\* own lead and run id reaches for the first team's run.
CloseRequests ==
    {Bare("run.requested", gateway, c1), Create(agent(ld), dev1, c2),
     [Create(agent(ld), dev1, c2) EXCEPT !.gate = "code"],
     Start(T, dev1, c3), Report(T, dev1, "done", c4),
     [Cancel(T, supervisor(dev1), FALSE, c4) EXCEPT !.reason = "delivery_failed"],
     RunClose(agent(ld), "completed", c5), RunClose(human, "failed", c5),
     [RunClose(human, "failed", c4) EXCEPT !.attested = FALSE],
     [RunClose(agent(other), "cancelled", c3) EXCEPT !.team = t2],
     [Bare("run.requested", human, c4) EXCEPT !.run = r2, !.team = t2],
     Create(human, other, c4)}

TwoTeams == [a \in {ld, dev1, dev2, other} |-> IF a = other THEN t2 ELSE t1]
TwoLeads == [t \in {t1, t2} |-> IF t = t1 THEN ld ELSE other]
=============================================================================
