----------------------------- MODULE TaskLedger -----------------------------
(***************************************************************************)
(* The writers of the task ledger: concurrent "bin/task" processes         *)
(* (lib/task_cli.py, main) that each run one locked transaction            *)
(*                                                                         *)
(*     lock -> registry snapshot -> fold -> causation replay ->            *)
(*     decide (writes the body sidecar) -> append -> unlock -> answer      *)
(*                                                                         *)
(* and can be killed between any two of these steps (run_helper kills the  *)
(* helper's process group on a timeout).  A caller that lost its answer    *)
(* retries with the same causation id.  The append itself is atomic here:  *)
(* module EventStream looks inside it.                                     *)
(***************************************************************************)
EXTENDS TaskFold, Sequences

CONSTANTS
    Writers,        \* the task processes that can run at the same time
    Requested,      \* the requests callers send
    TeamOf,         \* the team of each agent
    Supervised,     \* agents of registry mode "supervised"
    Leads0,         \* the lead of each team at the start
    Candidates,     \* the agents an administrator may name lead
    max_open, max_tasks_per_run, max_assignments_per_task, max_turns_per_task

\* What the argument checks made before the lock guarantee: a create names the
\* derived task id and carries a body, engine requests carry no token.
WellFormed(q) ==
    /\ q.type = "task.created" =>
         /\ \E n \in IntentNs : q.task = task_id(q.cause, n)
         /\ q.assignee \in Agents /\ q.source \in Sources /\ q.body \in Bodies
    /\ q.type \in {"run.requested", "run.closed"} => q.task = None
    /\ q.type = "run.closed" => q.outcome # None
    /\ q.type = "task.reported" => q.report # None
    /\ q.type = "task.rejected" => q.requested \notin {None, "task.rejected"}
    /\ q.type \notin {"run.requested", "run.closed", "task.rejected"} => q.task # None
    /\ q.expect =>
         /\ q.type \in {"task.cancelled", "task.reassigned", "task.reopened"}
         /\ q.actor.kind # "service"

ASSUME NoneAssumption ==
    None \notin Runs \cup Causes \cup Agents \cup Teams \cup Sources \cup Bodies
                  \cup TaskIds \cup EVENT_TYPES \cup ENGINE_REASONS \cup Writers
                  \cup {"delivery_failed", "accepted", "partial", "progress", "done",
                        "failed", "blocked", "completed", "cancelled"}

ASSUME RequestedAssumption ==
    Requested \subseteq Requests /\ \A q \in Requested : WellFormed(q)

ASSUME RegistryAssumption ==
    /\ TeamOf \in [Agents -> Teams]
    /\ Supervised \subseteq Agents
    /\ Leads0 \in [Teams -> Agents]
    /\ Candidates \subseteq Agents
    /\ \A t \in Teams : TeamOf[Leads0[t]] = t

ASSUME LimitsAssumption ==
    /\ max_open \in Nat \ {0} /\ max_tasks_per_run \in Nat \ {0}
    /\ max_assignments_per_task \in Nat \ {0} /\ max_turns_per_task \in Nat \ {0}

ASSUME BodiesAssumption == "partial" \notin Bodies

ASSUME FiniteAssumption == IsFiniteSet(Causes) /\ IsFiniteSet(IntentNs)

VARIABLES
    stream,     \* the records of events.log, in order
    ledger,     \* fold(stream)
    bodies,     \* the body sidecar of each task id: None, "partial" or a body
    lead,       \* the registry's lead of each team
    lock,       \* the holder of the stream lock, or None
    pc,         \* where each writer stands
    req,        \* its request
    seen,       \* the task its caller read before sending the request
    verdict,    \* the record it decided to append
    answer      \* the exit status and reason its caller gets

vars == <<stream, ledger, bodies, lead, lock, pc, req, seen, verdict, answer>>

PCs == {"idle", "waiting", "locked", "body", "fill", "commit", "reply",
        "answered"}

\* rc 0 accepted, 75 lock timeout, 76 concurrent_update, 77 refused.
Answers == [rc : {0, 75, 76, 77},
            reason : Verdicts \cup {"causation_conflict", "lock_timeout"}]

TypeOK ==
    /\ stream \in Seq(Events)
    /\ ledger \in Ledgers
    /\ bodies \in [TaskIds -> Bodies \cup {None, "partial"}]
    /\ lead \in [Teams -> Agents]
    /\ lock \in Writers \cup {None}
    /\ pc \in [Writers -> PCs]
    /\ req \in [Writers -> Requested \cup {None}]
    /\ seen \in [Writers -> FoldedTasks]
    /\ verdict \in [Writers -> Events \cup {None}]
    /\ answer \in [Writers -> Answers \cup {None}]

Init ==
    /\ stream = <<>>
    /\ ledger = EmptyLedger
    /\ bodies = [t \in TaskIds |-> None]
    /\ lead = Leads0
    /\ lock = None
    /\ pc = [w \in Writers |-> "idle"]
    /\ req = [w \in Writers |-> None]
    /\ seen = [w \in Writers |-> NoTask]
    /\ verdict = [w \in Writers |-> None]
    /\ answer = [w \in Writers |-> None]

-----------------------------------------------------------------------------
(***************************************************************************)
(* The decision (lib/task_ledger.py, decide).  Its early returns are the   *)
(* conjuncts below; the wording of a refusal is abstracted to "refused"    *)
(* except for the two reasons callers act upon.                            *)
(***************************************************************************)

IsHuman(q) == q.actor.kind = "human"

IsGateway(q) == q.actor.kind = "gateway"

IsLead(ld, q) == IsAgent(q, ld[q.team])

\* Mutant of ValidAssignee: any supervised worker will do.
ValidAssignee_AnyTeam(ld, uid, team) ==
    uid \in Agents /\ uid \in Supervised /\ ld[team] # uid

\* _valid_assignee
ValidAssignee(ld, uid, team) ==
    /\ uid \in Agents
    /\ TeamOf[uid] = team
    /\ uid \in Supervised
    /\ ld[team] # uid

OpenCount(L, team) ==
    Cardinality({t \in TaskIds : /\ L.tasks[t].state \in OPEN_LIMIT
                                 /\ L.tasks[t].team = team})

\* Every assignment of every task of the run, as <<task, ordinal>> pairs: the
\* sum of the assignments counters is their number.
Allocations(L, run) ==
    UNION {{t} \X (1 .. L.tasks[t].assignments) :
             t \in {u \in TaskIds : L.tasks[u].run = run}}

RunOpen(L, q) ==
    /\ L.runs[q.run].state \notin CLOSED_RUN \cup {"NONE"}
    /\ L.runs[q.run].team = q.team

RunRequestAllowed(L, q) ==
    /\ IsHuman(q) \/ IsGateway(q)
    /\ L.runs[q.run].state = "NONE"

\* Mutant of RunCloseAllowed: a run completes over its open tasks.
RunCloseAllowed_OverOpen(L, ld, q) == RunOpen(L, q) /\ (IsHuman(q) \/ IsLead(ld, q))

RunCloseAllowed(L, ld, q) ==
    /\ RunOpen(L, q)
    /\ IsHuman(q) \/ IsLead(ld, q)
    /\ q.outcome = "completed" => OpenTasks(L, q.run) = {}

\* Retry dedupe: an open task for the same source message and worker.
DuplicateOf(L, q) ==
    {t \in TaskIds : /\ L.tasks[t].state \in NONTERMINAL
                     /\ L.tasks[t].source = q.source
                     /\ L.tasks[t].assignee = q.assignee}

\* Mutant of RoomFor: off by one at max_open.
RoomFor_OneMore(L, q) ==
    /\ OpenCount(L, q.team) <= max_open
    /\ Cardinality(Allocations(L, q.run)) < max_tasks_per_run

RoomFor(L, q) ==
    /\ OpenCount(L, q.team) < max_open
    /\ Cardinality(Allocations(L, q.run)) < max_tasks_per_run

CreateAllowed(L, ld, q) ==
    /\ IsHuman(q) \/ IsLead(ld, q)
    /\ RunOpen(L, q)
    /\ L.tasks[q.task].state = "NONE"
    /\ q.gate = "none"
    /\ ValidAssignee(ld, q.assignee, q.team)
    /\ DuplicateOf(L, q) = {}
    /\ RoomFor(L, q)

\* Common to every verb on an existing task.
TaskKnown(L, q) ==
    /\ L.tasks[q.task].state # "NONE"
    /\ L.tasks[q.task].run = q.run
    /\ L.tasks[q.task].team = q.team
    /\ RunOpen(L, q)

\* Mutant of Stale: the lead's token is not compared.
Stale_NotLead(L, ld, q, token) ==
    /\ q.type \in {"task.reassigned", "task.reopened", "task.cancelled"}
    /\ TaskKnown(L, q)
    /\ q.expect
    /\ IsHuman(q) \/ IsGateway(q)
    /\ L.tasks[q.task].state_seq # token

Stale(L, ld, q, token) ==
    /\ q.type \in {"task.reassigned", "task.reopened", "task.cancelled"}
    /\ TaskKnown(L, q)
    /\ q.expect
    /\ IsHuman(q) \/ IsGateway(q) \/ IsLead(ld, q)
    /\ L.tasks[q.task].state_seq # token

StartAllowed(L, q) ==
    /\ IsSupervisorOf(q, L.tasks[q.task].assignee)
    /\ L.tasks[q.task].state = "ASSIGNED"

ReportAllowed(L, q) ==
    LET task == L.tasks[q.task]
    IN  /\ \/ IsAgent(q, task.assignee)
           \/ /\ IsSupervisorOf(q, task.assignee)
              /\ q.report \in {"failed", "blocked"}
              /\ q.reason \in ENGINE_REASONS
        /\ task.state = "IN_PROGRESS"
        /\ q.report = "progress" => task.turns < max_turns_per_task

CancelAllowed(L, ld, q) ==
    LET task == L.tasks[q.task]
    IN  /\ \/ IsHuman(q) \/ IsGateway(q) \/ IsLead(ld, q)
           \/ /\ IsSupervisorOf(q, task.assignee)
              /\ q.reason = "delivery_failed"
              /\ task.state = "ASSIGNED"
        /\ task.state \notin TERMINAL

AssignAllowed(L, ld, q) ==
    LET task == L.tasks[q.task]
    IN  /\ IsHuman(q) \/ IsLead(ld, q)
        /\ task.state = "BLOCKED" \/ (q.type = "task.reopened" /\ task.state = "FAILED")
        /\ ValidAssignee(ld, q.assignee, q.team)
        /\ task.assignments < max_assignments_per_task
        /\ RoomFor(L, q)

OverdueAllowed(L, ld, q) ==
    /\ IsSupervisorOf(q, ld[q.team])
    /\ L.tasks[q.task].state \notin TERMINAL

Allowed(L, ld, q) ==
    \/ q.type = "run.requested" /\ RunRequestAllowed(L, q)
    \/ q.type = "run.closed" /\ RunCloseAllowed(L, ld, q)
    \/ q.type = "task.created" /\ CreateAllowed(L, ld, q)
    \/ /\ q.type \notin {"run.requested", "run.closed", "task.created", "task.rejected"}
       /\ TaskKnown(L, q)
       /\ \/ q.type = "task.started" /\ StartAllowed(L, q)
          \/ q.type = "task.reported" /\ ReportAllowed(L, q)
          \/ q.type = "task.cancelled" /\ CancelAllowed(L, ld, q)
          \/ q.type \in {"task.reassigned", "task.reopened"} /\ AssignAllowed(L, ld, q)
          \/ q.type = "task.overdue" /\ OverdueAllowed(L, ld, q)

rejection(q, reason) ==
    [kind |-> "task.rejected", requested |-> q.type, reason |-> reason, req |-> q]

acceptance(q) == [kind |-> q.type, requested |-> None, reason |-> "accepted", req |-> q]

\* The supervisor's own "task reject": recorded as asked when the service
\* belongs to the team.
engine_rejection(q) ==
    [kind |-> "task.rejected", requested |-> q.requested, reason |-> q.reason, req |-> q]

decide(L, ld, q, token) ==
    IF ~q.attested THEN rejection(q, "refused")
    ELSE IF q.type = "task.rejected"
    THEN IF q.actor.kind = "service" /\ TeamOf[q.actor.uid] = q.team
         THEN engine_rejection(q) ELSE rejection(q, "refused")
    ELSE IF Stale(L, ld, q, token) THEN rejection(q, "concurrent_update")
    ELSE IF Allowed(L, ld, q) THEN acceptance(q)
    ELSE rejection(q, "refused")

\* Mutant of Priors: rejections do not count as decisions.
Priors_AcceptedOnly(c) ==
    {i \in DOMAIN stream : stream[i].req.cause = c /\ stream[i].kind # "task.rejected"}

\* The records that already carry a causation id, and the first of them.
Priors(c) == {i \in DOMAIN stream : stream[i].req.cause = c}

FirstPrior(c) == CHOOSE i \in Priors(c) : \A j \in Priors(c) : i <= j

\* Mutant of SameRequest: the event type is not compared.
SameRequest_TaskOnly(e, q) == e.req.task = q.task

\* causation_replay on the first prior record e: the original decision, or a
\* conflict when the causation id was used for something else.
SameRequest(e, q) ==
    /\ IF q.type = "task.rejected" /\ e.kind = "task.rejected"
       THEN e.requested = q.requested /\ e.reason = q.reason
       ELSE (IF e.kind = "task.rejected" THEN e.requested ELSE e.kind) = q.type
    /\ e.req.task = q.task

causation_replay(e, q) ==
    IF ~SameRequest(e, q) THEN [rc |-> 77, reason |-> "causation_conflict"]
    ELSE IF e.kind = "task.rejected" THEN [rc |-> 77, reason |-> e.reason]
    ELSE [rc |-> 0, reason |-> "accepted"]

\* The exit status of a decision made now.
ExitStatus(e) ==
    [rc |-> IF e.kind # "task.rejected" THEN 0
            ELSE IF e.reason = "concurrent_update" THEN 76 ELSE 77,
     reason |-> e.reason]
-----------------------------------------------------------------------------
(***************************************************************************)
(* The steps of a writer.                                                  *)
(***************************************************************************)

\* A caller starts "bin/task" with request q.  A caller that sends a token has
\* read the task before, without the lock (task show, board snapshot).
Submit(w, q) ==
    /\ pc[w] = "idle"
    /\ q.expect => ledger.tasks[q.task].state # "NONE"
    /\ pc' = [pc EXCEPT ![w] = "waiting"]
    /\ req' = [req EXCEPT ![w] = q]
    /\ seen' = [seen EXCEPT ![w] = IF q.expect THEN ledger.tasks[q.task] ELSE NoTask]
    /\ UNCHANGED <<stream, ledger, bodies, lead, lock, verdict, answer>>

\* Mutant of Acquire: a shared lock.
Acquire_Shared(w) ==
    /\ pc[w] = "waiting"
    /\ lock' = w
    /\ pc' = [pc EXCEPT ![w] = "locked"]
    /\ UNCHANGED <<stream, ledger, bodies, lead, req, seen, verdict, answer>>

\* acquire: flock polled without blocking ...
Acquire(w) ==
    /\ pc[w] = "waiting"
    /\ lock = None
    /\ lock' = w
    /\ pc' = [pc EXCEPT ![w] = "locked"]
    /\ UNCHANGED <<stream, ledger, bodies, lead, req, seen, verdict, answer>>

\* ... until the deadline; a timeout appends nothing.
LockTimeout(w) ==
    /\ pc[w] = "waiting"
    /\ lock # None
    /\ pc' = [pc EXCEPT ![w] = "answered"]
    /\ answer' = [answer EXCEPT ![w] = [rc |-> 75, reason |-> "lock_timeout"]]
    /\ UNCHANGED <<stream, ledger, bodies, lead, lock, req, seen, verdict>>

\* The causation id is on record: answer with the recorded outcome.
Replay(w) ==
    /\ pc[w] = "locked"
    /\ Priors(req[w].cause) # {}
    /\ answer' = [answer EXCEPT ![w] =
                    causation_replay(stream[FirstPrior(req[w].cause)], req[w])]
    /\ pc' = [pc EXCEPT ![w] = "answered"]
    /\ lock' = None
    /\ UNCHANGED <<stream, ledger, bodies, lead, req, seen, verdict>>

\* The registry snapshot, the fold and the decision.
Decide(w) ==
    /\ pc[w] = "locked"
    /\ Priors(req[w].cause) = {}
    /\ LET e == decide(ledger, lead, req[w], seen[w].state_seq)
       IN  /\ verdict' = [verdict EXCEPT ![w] = e]
           /\ pc' = [pc EXCEPT ![w] = IF e.kind = "task.created" THEN "body"
                                      ELSE "commit"]
    /\ UNCHANGED <<stream, ledger, bodies, lead, lock, req, seen, answer>>

\* Mutant of WriteBody: an existing sidecar is taken as it is.
WriteBody_AnyBytes(w) ==
    /\ pc[w] = "body"
    /\ IF bodies[req[w].task] = None
       THEN /\ bodies' = [bodies EXCEPT ![req[w].task] = "partial"]
            /\ pc' = [pc EXCEPT ![w] = "fill"]
       ELSE pc' = [pc EXCEPT ![w] = "commit"] /\ UNCHANGED bodies
    /\ UNCHANGED <<stream, ledger, lead, lock, req, seen, verdict, answer>>

\* _write_body: O_EXCL creates the sidecar; an existing one must already hold
\* the same bytes, otherwise the create is refused.
WriteBody(w) ==
    LET q == req[w]
    IN  /\ pc[w] = "body"
        /\ IF bodies[q.task] = None
           THEN /\ bodies' = [bodies EXCEPT ![q.task] = "partial"]
                /\ pc' = [pc EXCEPT ![w] = "fill"]
                /\ UNCHANGED verdict
           ELSE /\ verdict' = IF bodies[q.task] = q.body THEN verdict
                              ELSE [verdict EXCEPT ![w] = rejection(q, "unsafe_body_sidecar")]
                /\ pc' = [pc EXCEPT ![w] = "commit"]
                /\ UNCHANGED bodies
        /\ UNCHANGED <<stream, ledger, lead, lock, req, seen, answer>>

\* ... then writes the bytes and fsyncs.
FillBody(w) ==
    /\ pc[w] = "fill"
    /\ bodies' = [bodies EXCEPT ![req[w].task] = req[w].body]
    /\ pc' = [pc EXCEPT ![w] = "commit"]
    /\ UNCHANGED <<stream, ledger, lead, lock, req, seen, verdict, answer>>

\* An OSError in _write_body, before the file is made, before its bytes are
\* complete or when they are synced: the create is refused, the file stays.
BodyFails(w) ==
    LET q == req[w]
    IN  /\ pc[w] \in {"body", "fill"}
        /\ \/ UNCHANGED bodies
           \/ pc[w] = "fill" /\ bodies' = [bodies EXCEPT ![q.task] = q.body]
        /\ verdict' = [verdict EXCEPT ![w] = rejection(q, "unsafe_body_sidecar")]
        /\ pc' = [pc EXCEPT ![w] = "commit"]
        /\ UNCHANGED <<stream, ledger, lead, lock, req, seen, answer>>

\* commit: aib_event_commit appends the record with the next sequence number.
Commit(w) ==
    /\ pc[w] = "commit"
    /\ stream' = Append(stream, verdict[w])
    /\ ledger' = Apply(ledger, verdict[w], Len(stream) + 1)
    /\ pc' = [pc EXCEPT ![w] = "reply"]
    /\ UNCHANGED <<bodies, lead, lock, req, seen, verdict, answer>>

\* The lock descriptor is closed and the exit status reported.
Reply(w) ==
    /\ pc[w] = "reply"
    /\ lock' = None
    /\ answer' = [answer EXCEPT ![w] = ExitStatus(verdict[w])]
    /\ pc' = [pc EXCEPT ![w] = "answered"]
    /\ UNCHANGED <<stream, ledger, bodies, lead, req, seen, verdict>>

Forget(w) ==
    /\ pc' = [pc EXCEPT ![w] = "idle"]
    /\ req' = [req EXCEPT ![w] = None]
    /\ seen' = [seen EXCEPT ![w] = NoTask]
    /\ verdict' = [verdict EXCEPT ![w] = None]
    /\ answer' = [answer EXCEPT ![w] = None]

\* The process is gone and its caller has the answer.
Exit(w) ==
    /\ pc[w] = "answered"
    /\ Forget(w)
    /\ UNCHANGED <<stream, ledger, bodies, lead, lock>>

\* The process group dies; the kernel drops its lock and nobody is answered.
Kill(w) ==
    /\ pc[w] \notin {"idle", "answered"}
    /\ lock' = IF lock = w THEN None ELSE lock
    /\ Forget(w)
    /\ UNCHANGED <<stream, ledger, bodies, lead>>

\* An administrator names another lead; the registry is not under the lock.
SetLead(team, uid) ==
    /\ uid \in Candidates
    /\ TeamOf[uid] = team
    /\ lead[team] # uid
    /\ lead' = [lead EXCEPT ![team] = uid]
    /\ UNCHANGED <<stream, ledger, bodies, lock, pc, req, seen, verdict, answer>>

Step(w) ==
    \/ Acquire(w) \/ LockTimeout(w) \/ Replay(w) \/ Decide(w) \/ WriteBody(w)
    \/ FillBody(w) \/ BodyFails(w) \/ Commit(w) \/ Reply(w) \/ Exit(w)

Next ==
    \/ \E w \in Writers : \/ \E q \in Requested : Submit(w, q)
                          \/ Step(w)
                          \/ Kill(w)
    \/ \E team \in Teams, uid \in Agents : SetLead(team, uid)

Spec == Init /\ [][Next]_vars

-----------------------------------------------------------------------------
(***************************************************************************)
(* Properties.                                                             *)
(***************************************************************************)

\* decide and fold are written separately and must agree: no record that a
\* writer appends is skipped as invalid by the fold (task_ledger.py, decide
\* against fold).
NeverInvalid == ledger.invalid = {}

\* A causation id names one request: however often it is sent, by however many
\* writers, and whoever is killed in between, the stream holds one record of it
\* (task_cli.py, causation_replay under the lock).
OneRecordPerCause ==
    \A i, j \in DOMAIN stream : stream[i].req.cause = stream[j].req.cause => i = j

\* A closed run has no open task: neither the cascade of run.closed nor a
\* later record leaves one behind (task_ledger.py, fold, run.closed).
ClosedRunSettled ==
    \A r \in Runs : ledger.runs[r].state \in CLOSED_RUN => OpenTasks(ledger, r) = {}

\* Teams are kept apart: whatever the members and leads of other teams ask for,
\* a task stays in a run of its own team and with a worker of that team
\* (task_ledger.py, _valid_assignee and the cross_team refusals).
TeamsApart ==
    \A t \in TaskIds :
        LET task == ledger.tasks[t]
        IN  task.state # "NONE" =>
                /\ task.run \in Runs /\ ledger.runs[task.run].team = task.team
                /\ task.assignee \in Agents /\ TeamOf[task.assignee] = task.team

\* The delegation limits hold at every moment, whoever writes concurrently:
\* assigned tasks of a team, allocations of a run, assignments and progress
\* turns of a task (task_ledger.py, decide).
LimitsRespected ==
    /\ \A team \in Teams : OpenCount(ledger, team) <= max_open
    /\ \A r \in Runs : Cardinality(Allocations(ledger, r)) <= max_tasks_per_run
    /\ \A t \in TaskIds :
         /\ ledger.tasks[t].assignments <= max_assignments_per_task
         /\ ledger.tasks[t].turns <= max_turns_per_task

\* Whoever is killed while writing sidecars, a created task has the complete
\* body its record was requested with (task_ledger.py, _write_body before the
\* append).
BodyOnRecord ==
    \A i \in DOMAIN stream :
        stream[i].kind = "task.created" =>
            bodies[stream[i].req.task] = stream[i].req.body

\* An answer tells what the stream holds: rc 0 exactly when the request's own
\* event is on record under its causation id (task_cli.py, main).
AnswerOnRecord ==
    \A w \in Writers :
        (pc[w] = "answered" /\ answer[w].rc # 75 /\ req[w].type # "task.rejected") =>
            (answer[w].rc = 0 <=>
                \E i \in DOMAIN stream : /\ stream[i].req.cause = req[w].cause
                                        /\ stream[i].kind = req[w].type
                                        /\ stream[i].req.task = req[w].task)

\* Optimistic concurrency: an accepted cancel, reassign or reopen with a token
\* acts on the state, assignee and assignment its caller saw, although the
\* caller read them without the lock (state_seq and expected_task_seq).
ActsOnWhatItSaw ==
    [][\A w \in Writers :
         (Commit(w) /\ req[w].expect /\ verdict[w].kind # "task.rejected") =>
             LET task == ledger.tasks[req[w].task]
             IN  /\ task.state = seen[w].state
                 /\ task.assignee = seen[w].assignee
                 /\ task.assignments = seen[w].assignments]_vars

(***************************************************************************)
(* The inductive invariant behind the safety properties: what a writer has *)
(* decided stays right until it appends, because only the lock holder      *)
(* changes the ledger.                                                     *)
(***************************************************************************)

Holding == {"locked", "body", "fill", "commit", "reply"}

LockHeld == \A w \in Writers : pc[w] \in Holding <=> lock = w

\* What an accepted request needs to be folded within the limits; unlike
\* Allowed it does not mention the registry, which may change meanwhile.
Admissible(L, q) ==
    /\ Foldable(L, q)
    /\ q.type = "task.created" => RoomFor(L, q)
    /\ q.type \in {"task.reassigned", "task.reopened"} =>
         RoomFor(L, q) /\ L.tasks[q.task].assignments < max_assignments_per_task
    /\ q.type \in {"task.created", "task.reassigned", "task.reopened"} =>
         q.assignee \in Agents /\ TeamOf[q.assignee] = q.team
    /\ q.type = "task.reported" /\ q.report = "progress" =>
         L.tasks[q.task].turns < max_turns_per_task

DecisionStands(w) ==
    /\ pc[w] # "idle" => req[w] \in Requested
    /\ pc[w] \in {"body", "fill", "commit", "reply"} =>
         /\ verdict[w] \in Events /\ verdict[w].req = req[w]
         /\ verdict[w].kind # "task.rejected" => verdict[w] = acceptance(req[w])
    /\ pc[w] \in {"body", "fill"} => verdict[w].kind = "task.created"
    /\ pc[w] \in {"body", "fill", "commit"} =>
         /\ Priors(req[w].cause) = {}
         /\ verdict[w].kind # "task.rejected" => Admissible(ledger, req[w])
    /\ pc[w] = "fill" => bodies[req[w].task] = "partial"
    /\ pc[w] = "commit" /\ verdict[w].kind = "task.created" =>
         bodies[req[w].task] = req[w].body
    /\ pc[w] = "reply" => \E i \in DOMAIN stream : stream[i] = verdict[w]
    /\ pc[w] = "answered" => answer[w] \in Answers
    /\ pc[w] = "answered" /\ answer[w].rc # 75 => Priors(req[w].cause) # {}

\* A writer's decision is still the right one when it appends it: the ledger,
\* the causation ids on record and the sidecars it looked at have not moved
\* under it (task_cli.py, main: everything between acquire and os.close).
DecisionsStand ==
    /\ LockHeld
    /\ \A w \in Writers : DecisionStands(w)
    /\ \A i \in DOMAIN stream :
         /\ stream[i].req \in Requested
         /\ stream[i].kind # "task.rejected" => stream[i] = acceptance(stream[i].req)

\* The board the folded ledger shows.
ShownRuns == [r \in Runs |-> IF ledger.runs[r].state \in {"QUEUED", "RUNNING"}
                             THEN "OPEN" ELSE ledger.runs[r].state]

ShownTasks == [t \in TaskIds |-> [run |-> ledger.tasks[t].run,
                                  worker |-> ledger.tasks[t].assignee,
                                  state |-> ledger.tasks[t].state]]

Board == INSTANCE TaskBoard WITH run <- ShownRuns, task <- ShownTasks

\* The concurrent, crash-prone writers implement the task board: whatever they
\* append, runs and tasks move only as TaskBoard allows (task_ledger.py, fold).
ImplementsBoard == Board!Spec
=============================================================================
