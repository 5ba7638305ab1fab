------------------------------ MODULE TaskFold ------------------------------
(***************************************************************************)
(* The data of the task ledger and the fold that replays it                *)
(* (lib/task_ledger.py, fold).  The ledger is the append-only "tasks"      *)
(* stream of a project; nothing else is stored, so Runs and Tasks are      *)
(* whatever the fold derives from the records.                             *)
(*                                                                         *)
(* The fold is a left fold over the records: this module gives its step,   *)
(* Apply(L, e, seq), from the folded ledger L and the record e that        *)
(* carries sequence number seq.  Rejections leave L alone, records whose   *)
(* domain checks fail are counted in L.invalid and skipped.                *)
(***************************************************************************)
EXTENDS Naturals, FiniteSets

CONSTANTS
    Runs,       \* run ids
    Causes,     \* causation ids
    IntentNs,   \* the intent_n argument of "create"
    Agents,     \* agent uids of the registry
    Teams,      \* team uids
    Sources,    \* source message ids
    Bodies,     \* task bodies
    None        \* JSON null

TERMINAL == {"DONE", "FAILED", "CANCELLED"}

NONTERMINAL == {"QUEUED", "ASSIGNED", "IN_PROGRESS", "BLOCKED", "REVIEW"}

OPEN_LIMIT == {"QUEUED", "ASSIGNED"}

ENGINE_REASONS == {"turn_failed", "turn_budget", "no_report"}

CLOSED_RUN == {"COMPLETED", "FAILED", "CANCELLED"}

EVENT_TYPES ==
    {"run.requested", "run.closed", "task.created", "task.started",
     "task.reported", "task.cancelled", "task.reassigned", "task.reopened",
     "task.overdue", "task.rejected"}

\* task_id(): twelve hex digits of SHA-256 over "<causation_id>:<intent_n>",
\* taken to be collision free.
task_id(cause, n) == <<cause, n>>

TaskIds == {task_id(c, n) : c \in Causes, n \in IntentNs}

\* Who claims a request.  A gateway is an actor_type "human" whose requester
\* is "gateway:<name>"; a service is the supervisor of an agent.
Actors == [kind : {"human", "gateway"}, uid : {None}]
            \cup [kind : {"agent", "service"}, uid : Agents]

ReasonArgs == ENGINE_REASONS \cup {"delivery_failed", None}

\* The arguments of one "bin/task" invocation that passed the validation made
\* before the lock is taken.  attested stands for the relay fields (via,
\* requester) that _caller_matches compares with the actor claim; expect says
\* that the caller sends the state_seq it read as --expect-seq.
Requests ==
    [type : EVENT_TYPES, actor : Actors, attested : BOOLEAN, team : Teams,
     run : Runs, task : TaskIds \cup {None}, cause : Causes,
     source : Sources \cup {None}, assignee : Agents \cup {None},
     gate : {"none", "code"}, body : Bodies \cup {None},
     report : {"progress", "done", "failed", "blocked", None},
     outcome : {"completed", "failed", "cancelled", None},
     reason : ReasonArgs, requested : EVENT_TYPES \cup {None}, expect : BOOLEAN]

Verdicts == {"accepted", "refused", "concurrent_update", "unsafe_body_sidecar"}
              \cup ReasonArgs

\* One record of the stream: the event type the writer decided on, the
\* requested_type and reason of a rejection, and the request it stems from.
Events == [kind : EVENT_TYPES, requested : EVENT_TYPES \cup {None},
           reason : Verdicts, req : Requests]

RunStates == {"NONE", "QUEUED", "RUNNING"} \cup CLOSED_RUN

TaskStates == {"NONE"} \cup TERMINAL \cup NONTERMINAL

FoldedRuns == [team : Teams \cup {None}, state : RunStates]

FoldedTasks ==
    [run : Runs \cup {None}, team : Teams \cup {None},
     source : Sources \cup {None}, assignee : Agents \cup {None},
     gate : {"none", "code"}, state : TaskStates, assignments : Nat,
     turns : Nat, state_seq : Nat]

\* What fold returns: a run or task no record has created has state "NONE".
Ledgers == [runs : [Runs -> FoldedRuns], tasks : [TaskIds -> FoldedTasks],
            invalid : SUBSET Nat]

NoRun == [team |-> None, state |-> "NONE"]

NoTask == [run |-> None, team |-> None, source |-> None, assignee |-> None,
           gate |-> "none", state |-> "NONE", assignments |-> 0, turns |-> 0,
           state_seq |-> 0]

EmptyLedger == [runs |-> [r \in Runs |-> NoRun],
                tasks |-> [t \in TaskIds |-> NoTask], invalid |-> {}]

\* actor_type of the record: gateways claim "human".
actor_type(q) == IF q.actor.kind = "gateway" THEN "human" ELSE q.actor.kind

IsSupervisorOf(q, uid) == q.actor.kind = "service" /\ q.actor.uid = uid

IsAgent(q, uid) == q.actor.kind = "agent" /\ q.actor.uid = uid

OpenTasks(L, run) ==
    {t \in TaskIds : L.tasks[t].run = run /\ L.tasks[t].state \in NONTERMINAL}

-----------------------------------------------------------------------------
(***************************************************************************)
(* The checks of the fold, one per event type: what fails them is an       *)
(* invalid record.                                                         *)
(***************************************************************************)

FoldsRunRequest(L, q) ==
    /\ L.runs[q.run].state = "NONE"
    /\ actor_type(q) = "human"

FoldsRunClose(L, q) ==
    /\ L.runs[q.run].state \notin CLOSED_RUN \cup {"NONE"}
    /\ L.runs[q.run].team = q.team
    /\ actor_type(q) \in {"human", "agent"}
    /\ q.outcome \in {"completed", "failed", "cancelled"}
    /\ q.outcome = "completed" => OpenTasks(L, q.run) = {}

FoldsCreate(L, q) ==
    /\ L.runs[q.run].state \notin CLOSED_RUN \cup {"NONE"}
    /\ q.task \in TaskIds
    /\ L.tasks[q.task].state = "NONE"
    /\ L.runs[q.run].team = q.team
    /\ q.assignee \in Agents /\ q.source \in Sources
    /\ actor_type(q) \in {"agent", "human"}

FoldsTaskEvent(L, q) ==
    /\ q.task \in TaskIds
    /\ L.tasks[q.task].state # "NONE"
    /\ L.tasks[q.task].run = q.run
    /\ L.tasks[q.task].team = q.team
    /\ L.runs[q.run].state \notin CLOSED_RUN \cup {"NONE"}
    /\ L.runs[q.run].team = q.team

FoldsStart(L, q) ==
    LET task == L.tasks[q.task]
    IN  task.state = "ASSIGNED" /\ IsSupervisorOf(q, task.assignee)

FoldsReport(L, q) ==
    LET task == L.tasks[q.task]
    IN  /\ task.state = "IN_PROGRESS"
        /\ q.report \in {"progress", "done", "failed", "blocked"}
        /\ \/ IsAgent(q, task.assignee)
           \/ /\ IsSupervisorOf(q, task.assignee)
              /\ q.report \in {"failed", "blocked"}
              /\ q.reason \in ENGINE_REASONS

FoldsCancel(L, q) ==
    LET task == L.tasks[q.task]
    IN  /\ task.state \notin TERMINAL
        /\ \/ actor_type(q) \in {"human", "agent"}
           \/ /\ IsSupervisorOf(q, task.assignee)
              /\ q.reason = "delivery_failed"
              /\ task.state = "ASSIGNED"

FoldsAssign(L, q) ==
    LET task == L.tasks[q.task]
    IN  /\ actor_type(q) \in {"human", "agent"}
        /\ task.state = "BLOCKED" \/ (q.type = "task.reopened" /\ task.state = "FAILED")
        /\ q.assignee \in Agents

FoldsOverdue(L, q) ==
    L.tasks[q.task].state \notin TERMINAL /\ actor_type(q) = "service"

Foldable(L, q) ==
    /\ q.attested
    /\ \/ q.type = "run.requested" /\ FoldsRunRequest(L, q)
       \/ q.type = "run.closed" /\ FoldsRunClose(L, q)
       \/ q.type = "task.created" /\ FoldsCreate(L, q)
       \/ /\ FoldsTaskEvent(L, q)
          /\ \/ q.type = "task.started" /\ FoldsStart(L, q)
             \/ q.type = "task.reported" /\ FoldsReport(L, q)
             \/ q.type = "task.cancelled" /\ FoldsCancel(L, q)
             \/ q.type \in {"task.reassigned", "task.reopened"} /\ FoldsAssign(L, q)
             \/ q.type = "task.overdue" /\ FoldsOverdue(L, q)

-----------------------------------------------------------------------------
(***************************************************************************)
(* What a valid record does to the folded ledger.                          *)
(***************************************************************************)

\* Every event type but run.closed changes one task; state_seq moves only when
\* the state or the assignee does.
Touch(old, new, seq) ==
    IF new.state # old.state \/ new.assignee # old.assignee
    THEN [new EXCEPT !.state_seq = seq]
    ELSE new

\* Mutant of base_task: state_seq keeps the null it is born with.
base_task_NoSeq(q, seq) ==
    [run |-> q.run, team |-> q.team, source |-> q.source,
     assignee |-> q.assignee, gate |-> q.gate, state |-> "ASSIGNED",
     assignments |-> 1, turns |-> 0, state_seq |-> None]

base_task(q, seq) ==
    [run |-> q.run, team |-> q.team, source |-> q.source,
     assignee |-> q.assignee, gate |-> q.gate, state |-> "ASSIGNED",
     assignments |-> 1, turns |-> 0, state_seq |-> seq]

\* Mutant of ReportedState: the gate test of "done" inverted.
ReportedState_GateInverted(task, report) ==
    CASE report = "progress" -> "IN_PROGRESS"
      [] report = "done" -> IF task.gate = "none" THEN "REVIEW" ELSE "DONE"
      [] report = "failed" -> "FAILED"
      [] report = "blocked" -> "BLOCKED"

ReportedState(task, report) ==
    CASE report = "progress" -> "IN_PROGRESS"
      [] report = "done" -> IF task.gate # "none" THEN "REVIEW" ELSE "DONE"
      [] report = "failed" -> "FAILED"
      [] report = "blocked" -> "BLOCKED"

StepTask(task, q) ==
    CASE q.type = "task.started" -> [task EXCEPT !.state = "IN_PROGRESS"]
      [] q.type = "task.reported" ->
           [task EXCEPT !.state = ReportedState(task, q.report),
                        !.turns = IF q.report = "progress" THEN @ + 1 ELSE @]
      [] q.type = "task.cancelled" -> [task EXCEPT !.state = "CANCELLED"]
      [] q.type \in {"task.reassigned", "task.reopened"} ->
           [task EXCEPT !.state = "ASSIGNED", !.assignee = q.assignee,
                        !.assignments = @ + 1, !.turns = 0]
      [] OTHER -> task

\* Mutant of CancelOpenTasks: the cascade forgets started and blocked tasks.
CancelOpenTasks_Unstarted(L, run, seq) ==
    [t \in TaskIds |->
        IF t \in OpenTasks(L, run) /\ L.tasks[t].state \in OPEN_LIMIT
        THEN [L.tasks[t] EXCEPT !.state = "CANCELLED", !.state_seq = seq]
        ELSE L.tasks[t]]

\* A closed run cancels its open children in the same record, so no crash can
\* expose a partly cancelled run.
CancelOpenTasks(L, run, seq) ==
    [t \in TaskIds |->
        IF t \in OpenTasks(L, run)
        THEN [L.tasks[t] EXCEPT !.state = "CANCELLED", !.state_seq = seq]
        ELSE L.tasks[t]]

ClosedState(outcome) ==
    CASE outcome = "completed" -> "COMPLETED"
      [] outcome = "failed" -> "FAILED"
      [] outcome = "cancelled" -> "CANCELLED"

FoldRuns(L, q) ==
    CASE q.type = "run.requested" ->
           [L.runs EXCEPT ![q.run] = [team |-> q.team, state |-> "QUEUED"]]
      [] q.type = "run.closed" ->
           [L.runs EXCEPT ![q.run].state = ClosedState(q.outcome)]
      [] q.type = "task.created" -> [L.runs EXCEPT ![q.run].state = "RUNNING"]
      [] OTHER -> L.runs

FoldTasks(L, q, seq) ==
    CASE q.type = "run.requested" -> L.tasks
      [] q.type = "run.closed" -> CancelOpenTasks(L, q.run, seq)
      [] q.type = "task.created" -> [L.tasks EXCEPT ![q.task] = base_task(q, seq)]
      [] OTHER -> [L.tasks EXCEPT ![q.task] = Touch(@, StepTask(@, q), seq)]

Apply(L, e, seq) ==
    IF e.kind = "task.rejected" THEN L
    ELSE IF ~Foldable(L, e.req) THEN [L EXCEPT !.invalid = @ \cup {seq}]
    ELSE [L EXCEPT !.runs = FoldRuns(L, e.req), !.tasks = FoldTasks(L, e.req, seq)]
=============================================================================
