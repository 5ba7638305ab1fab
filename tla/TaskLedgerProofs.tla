-------------------------- MODULE TaskLedgerProofs --------------------------
(***************************************************************************)
(* Theorems about TaskLedger, for every value of its constants.            *)
(***************************************************************************)
EXTENDS TaskLedger, FiniteSetTheorems, TLAPS

-----------------------------------------------------------------------------
(***************************************************************************)
(* Type correctness.                                                       *)
(***************************************************************************)

\* The derived task ids are finitely many.
LEMMA TaskIdsFinite == IsFiniteSet(TaskIds)
  <1>1. IsFiniteSet(Causes \X IntentNs)
    BY FS_Product, FiniteAssumption
  <1>2. TaskIds = Causes \X IntentNs
    BY DEF TaskIds, task_id
  <1> QED BY <1>1, <1>2

\* A folded task with new field values is a folded task.
LEMMA EditedTaskType ==
    ASSUME NEW task \in FoldedTasks, NEW s \in TaskStates,
           NEW a \in Agents \cup {None}, NEW n \in Nat, NEW k \in Nat
    PROVE  [task EXCEPT !.state = s, !.assignee = a, !.assignments = n,
                        !.turns = k] \in FoldedTasks
  BY DEF FoldedTasks

\* One step of the task fold (StepTask, Touch) yields a folded task.
LEMMA StepTaskType ==
    ASSUME NEW task \in FoldedTasks, NEW q \in Requests, NEW seq \in Nat,
           q.type \in {"task.reassigned", "task.reopened"} => q.assignee \in Agents,
           q.type = "task.reported" => q.report # None
    PROVE  Touch(task, StepTask(task, q), seq) \in FoldedTasks
  <1>1. ReportedState(task, q.report) \in TaskStates \/ q.type # "task.reported"
    BY DEF ReportedState, Requests, TaskStates, TERMINAL, NONTERMINAL
  <1>2. StepTask(task, q) \in FoldedTasks
    <2>1. CASE q.type = "task.started"
      BY <2>1 DEF StepTask, FoldedTasks, TaskStates, NONTERMINAL
    <2>2. CASE q.type = "task.reported"
      <3> DEFINE n == IF q.report = "progress" THEN task.turns + 1 ELSE task.turns
                 s == ReportedState(task, q.report)
      <3>1. n \in Nat /\ s \in TaskStates
        BY <1>1, <2>2 DEF FoldedTasks
      <3>2. StepTask(task, q) = [task EXCEPT !.state = s, !.turns = n]
        BY <2>2 DEF StepTask, FoldedTasks
      <3> HIDE DEF n, s
      <3> QED BY <3>1, <3>2 DEF FoldedTasks
    <2>3. CASE q.type = "task.cancelled"
      BY <2>3 DEF StepTask, FoldedTasks, TaskStates, TERMINAL
    <2>4. CASE q.type \in {"task.reassigned", "task.reopened"}
      <3> DEFINE n == task.assignments + 1
                 s == "ASSIGNED"
                 k == 0
                 a == q.assignee
      <3>1. n \in Nat /\ a \in Agents \cup {None} /\ s \in TaskStates /\ k \in Nat
        BY <2>4 DEF FoldedTasks, TaskStates, NONTERMINAL
      <3>2. StepTask(task, q) =
              [task EXCEPT !.state = s, !.assignee = a, !.assignments = n, !.turns = k]
        BY <2>4 DEF StepTask, FoldedTasks
      <3> HIDE DEF n, s, k, a
      <3>3. [task EXCEPT !.state = s, !.assignee = a, !.assignments = n, !.turns = k]
              \in FoldedTasks
        BY <3>1, EditedTaskType
      <3> QED BY <3>2, <3>3
    <2>5. CASE q.type \notin {"task.started", "task.reported", "task.cancelled",
                              "task.reassigned", "task.reopened"}
      BY <2>5 DEF StepTask
    <2> QED BY <2>1, <2>2, <2>3, <2>4, <2>5
  <1> QED BY <1>2 DEF Touch, FoldedTasks

\* Folding any record yields a ledger.
LEMMA ApplyType ==
    ASSUME NEW L \in Ledgers, NEW e \in Events, NEW seq \in Nat
    PROVE  Apply(L, e, seq) \in Ledgers
  <1> DEFINE q == e.req
  <1>1. CASE e.kind = "task.rejected"
    BY <1>1 DEF Apply
  <1>2. CASE e.kind # "task.rejected" /\ ~Foldable(L, q)
    BY <1>2 DEF Apply, Ledgers
  <1>3. CASE e.kind # "task.rejected" /\ Foldable(L, q)
    <2>1. q \in Requests /\ q.run \in Runs /\ q.team \in Teams
      BY DEF Events, Requests
    <2>2. L.runs \in [Runs -> FoldedRuns] /\ L.tasks \in [TaskIds -> FoldedTasks]
      BY DEF Ledgers
    <2>3. FoldRuns(L, q) \in [Runs -> FoldedRuns]
      <3>1. q.type = "run.closed" => ClosedState(q.outcome) \in CLOSED_RUN
        BY <1>3 DEF Foldable, FoldsRunClose, ClosedState, CLOSED_RUN
      <3> QED BY <2>1, <2>2, <3>1 DEF FoldRuns, FoldedRuns, RunStates
    <2>4. FoldTasks(L, q, seq) \in [TaskIds -> FoldedTasks]
      <3>1. CASE q.type = "run.requested"
        BY <2>2, <3>1 DEF FoldTasks
      <3>2. CASE q.type = "run.closed"
        <4>1. CancelOpenTasks(L, q.run, seq) \in [TaskIds -> FoldedTasks]
          <5>1. ASSUME NEW t \in TaskIds
                PROVE  [L.tasks[t] EXCEPT !.state = "CANCELLED", !.state_seq = seq] \in FoldedTasks
            <6>1. L.tasks[t] \in FoldedTasks
              BY <2>2
            <6> QED BY <6>1 DEF FoldedTasks, TaskStates, TERMINAL
          <5> QED BY <2>2, <5>1 DEF CancelOpenTasks
        <4> QED BY <4>1, <3>2 DEF FoldTasks
      <3>3. CASE q.type = "task.created"
        <4>1. base_task(q, seq) \in FoldedTasks
          BY <2>1 DEF base_task, FoldedTasks, Requests, TaskStates, NONTERMINAL
        <4> QED BY <2>2, <3>3, <4>1 DEF FoldTasks
      <3>4. CASE q.type \notin {"run.requested", "run.closed", "task.created"}
        <4>1. q.task \in TaskIds
          BY <1>3, <3>4 DEF Foldable, FoldsTaskEvent
        <4>2. q.type \in {"task.reassigned", "task.reopened"} => q.assignee \in Agents
          BY <1>3 DEF Foldable, FoldsAssign
        <4>3. q.type = "task.reported" => q.report # None
          BY <1>3, NoneAssumption DEF Foldable, FoldsReport
        <4>4. Touch(L.tasks[q.task], StepTask(L.tasks[q.task], q), seq) \in FoldedTasks
          BY <2>1, <2>2, <4>1, <4>2, <4>3, StepTaskType
        <4> QED BY <2>2, <3>4, <4>4 DEF FoldTasks
      <3> QED BY <3>1, <3>2, <3>3, <3>4
    <2>5. Apply(L, e, seq) = [L EXCEPT !.runs = FoldRuns(L, q), !.tasks = FoldTasks(L, q, seq)]
      BY <1>3 DEF Apply
    <2> QED BY <2>3, <2>4, <2>5 DEF Ledgers
  <1> QED BY <1>1, <1>2, <1>3

\* What decide returns is a record for the stream that carries the request.
LEMMA DecideType ==
    ASSUME NEW q \in Requests, NEW L, NEW ld, NEW token
    PROVE  /\ decide(L, ld, q, token) \in Events
           /\ decide(L, ld, q, token).req = q
  <1>1. \A v \in Verdicts : rejection(q, v) \in Events /\ rejection(q, v).req = q
    BY DEF rejection, Events, Requests, EVENT_TYPES
  <1>2. acceptance(q) \in Events /\ acceptance(q).req = q
    BY DEF acceptance, Events, Requests, Verdicts
  <1>3. engine_rejection(q) \in Events /\ engine_rejection(q).req = q
    BY DEF engine_rejection, Events, Requests, Verdicts, EVENT_TYPES
  <1>4. "refused" \in Verdicts /\ "concurrent_update" \in Verdicts
    BY DEF Verdicts
  <1> QED BY <1>1, <1>2, <1>3, <1>4 DEF decide

\* decide accepts only what the fold will take, within the limits: the two
\* functions agree, whoever leads the team.
LEMMA DecideSound ==
    ASSUME NEW q \in Requested, NEW L \in Ledgers, NEW ld \in [Teams -> Agents],
           NEW token,
           decide(L, ld, q, token).kind # "task.rejected"
    PROVE  /\ decide(L, ld, q, token) = acceptance(q)
           /\ q.type # "task.rejected"
           /\ Admissible(L, q)
  <1>1. q \in Requests /\ WellFormed(q)
    BY RequestedAssumption
  <1>2. /\ q.attested
        /\ q.type # "task.rejected"
        /\ Allowed(L, ld, q)
        /\ decide(L, ld, q, token) = acceptance(q)
    BY DEF decide, rejection, engine_rejection
  <1>3. CASE q.type = "run.requested"
    BY <1>2, <1>3 DEF Allowed, RunRequestAllowed, Admissible, Foldable,
                      FoldsRunRequest, IsHuman, IsGateway, actor_type
  <1>4. CASE q.type = "run.closed"
    BY <1>1, <1>2, <1>4 DEF Allowed, RunCloseAllowed, RunOpen, Admissible, Foldable,
                      FoldsRunClose, IsHuman, IsLead, IsAgent, actor_type, Requests, WellFormed
  <1>5. CASE q.type = "task.created"
    <2>1. q.task \in TaskIds
      BY <1>1, <1>5 DEF WellFormed, Requests, TaskIds
    <2> QED
      BY <1>1, <1>2, <1>5, <2>1 DEF Allowed, CreateAllowed, ValidAssignee, RunOpen,
                      Admissible, Foldable, FoldsCreate, IsHuman, IsLead, IsAgent, actor_type, WellFormed
  <1>6. CASE q.type \notin {"run.requested", "run.closed", "task.created"}
    <2>1. q.task \in TaskIds
      BY <1>1, <1>2, <1>6 DEF WellFormed, Requests
    <2>2. TaskKnown(L, q) /\ FoldsTaskEvent(L, q)
      BY <1>2, <1>6, <2>1 DEF Allowed, TaskKnown, RunOpen, FoldsTaskEvent
    <2>3. CASE q.type = "task.started"
      BY <1>2, <2>2, <2>3 DEF Allowed, StartAllowed, Admissible, Foldable, FoldsStart
    <2>4. CASE q.type = "task.reported"
      <3>1. q.report \in {"progress", "done", "failed", "blocked"}
        BY <1>1, <2>4 DEF WellFormed, Requests
      <3> QED
        BY <1>2, <2>2, <2>4, <3>1 DEF Allowed, ReportAllowed, Admissible, Foldable, FoldsReport
    <2>5. CASE q.type = "task.cancelled"
      BY <1>2, <2>2, <2>5 DEF Allowed, CancelAllowed, Admissible, Foldable, FoldsCancel,
                      IsHuman, IsGateway, IsLead, IsAgent, actor_type
    <2>6. CASE q.type \in {"task.reassigned", "task.reopened"}
      BY <1>2, <2>2, <2>6 DEF Allowed, AssignAllowed, ValidAssignee, Admissible, Foldable,
                      FoldsAssign, IsHuman, IsLead, IsAgent, actor_type
    <2>7. CASE q.type = "task.overdue"
      BY <1>2, <2>2, <2>7 DEF Allowed, OverdueAllowed, Admissible, Foldable, FoldsOverdue,
                      IsSupervisorOf, actor_type
    <2> QED
      BY <1>1, <1>2, <1>6, <2>3, <2>4, <2>5, <2>6, <2>7 DEF Requests, EVENT_TYPES
  <1> QED BY <1>2, <1>3, <1>4, <1>5, <1>6

-----------------------------------------------------------------------------
(***************************************************************************)
(* Decisions stand until they are appended.                                *)
(***************************************************************************)

\* A step that leaves a writer alone, and leaves the files alone while that
\* writer holds the lock, keeps its decision standing.
LEMMA UntouchedStands ==
    ASSUME NEW v \in Writers, DecisionStands(v),
           pc'[v] = pc[v], req'[v] = req[v], verdict'[v] = verdict[v],
           answer'[v] = answer[v],
           pc[v] \in Holding => UNCHANGED <<stream, ledger, bodies>>,
           \A c : Priors(c) # {} => Priors(c)' # {}
    PROVE  DecisionStands(v)'
  <1>1. CASE pc[v] \in Holding
    <2>1. UNCHANGED <<stream, ledger, bodies>>
      BY <1>1
    <2>2. \A c : Priors(c)' = Priors(c)
      BY <2>1 DEF Priors
    <2> QED BY <1>1, <2>1, <2>2 DEF DecisionStands
  <1>2. CASE pc[v] \notin Holding
    <2>1. pc[v] \notin {"body", "fill", "commit", "reply"}
      BY <1>2 DEF Holding
    <2> QED BY <2>1 DEF DecisionStands
  <1> QED BY <1>1, <1>2

\* Growing the stream keeps every causation id on record.
LEMMA PriorsGrow ==
    ASSUME NEW e \in Events, stream \in Seq(Events), stream' = Append(stream, e)
    PROVE  /\ \A i \in DOMAIN stream : i \in DOMAIN stream' /\ stream'[i] = stream[i]
           /\ Len(stream) + 1 \in DOMAIN stream' /\ stream'[Len(stream) + 1] = e
           /\ \A i \in DOMAIN stream' : i \in DOMAIN stream \/ i = Len(stream) + 1
           /\ \A c : Priors(c) # {} => Priors(c)' # {}
           /\ Priors(e.req.cause)' # {}
  <1>1. /\ \A i \in DOMAIN stream : i \in DOMAIN stream' /\ stream'[i] = stream[i]
        /\ Len(stream) + 1 \in DOMAIN stream' /\ stream'[Len(stream) + 1] = e
        /\ \A i \in DOMAIN stream' : i \in DOMAIN stream \/ i = Len(stream) + 1
    OBVIOUS
  <1> QED BY <1>1 DEF Priors

\* The initial state: nobody has decided anything.
LEMMA CoreInit == Init => TypeOK /\ DecisionsStand
  <1> SUFFICES ASSUME Init PROVE TypeOK /\ DecisionsStand
    OBVIOUS
  <1>1. EmptyLedger \in Ledgers
    BY DEF EmptyLedger, Ledgers, NoRun, NoTask, FoldedRuns, FoldedTasks, RunStates, TaskStates
  <1>2. NoTask \in FoldedTasks
    BY DEF NoTask, FoldedTasks, TaskStates
  <1>3. TypeOK
    BY <1>1, <1>2, RegistryAssumption DEF Init, TypeOK, PCs
  <1>4. LockHeld
    BY NoneAssumption DEF Init, LockHeld, Holding
  <1>5. \A w \in Writers : DecisionStands(w)
    BY DEF Init, DecisionStands
  <1> QED BY <1>3, <1>4, <1>5 DEF Init, DecisionsStand

\* The writers other than the one that moves: their decisions stand when the
\* files stay, or when the mover holds the lock and only appends.
LEMMA OthersStand ==
    ASSUME TypeOK, DecisionsStand, NEW w \in Writers, NEW v \in Writers, v # w,
           pc'[v] = pc[v], req'[v] = req[v], verdict'[v] = verdict[v],
           answer'[v] = answer[v],
           lock = w \/ UNCHANGED <<stream, ledger, bodies>>,
           \A c : Priors(c) # {} => Priors(c)' # {}
    PROVE  DecisionStands(v)'
  <1>1. lock = w => pc[v] \notin Holding
    BY DEF DecisionsStand, LockHeld
  <1> QED BY <1>1, UntouchedStands DEF DecisionsStand

\* A new call has decided nothing yet.
LEMMA CoreSubmit ==
    ASSUME TypeOK, DecisionsStand, NEW w \in Writers, NEW q \in Requested, Submit(w, q)
    PROVE  TypeOK' /\ DecisionsStand'
  <1> USE DEF Submit
  <1>1. q \in Requests /\ WellFormed(q)
    BY RequestedAssumption
  <1>2. seen'[w] \in FoldedTasks
    <2>1. NoTask \in FoldedTasks
      BY DEF NoTask, FoldedTasks, TaskStates
    <2>2. q.expect => q.task \in TaskIds
      BY <1>1 DEF WellFormed, Requests
    <2> QED BY <2>1, <2>2 DEF TypeOK, Ledgers
  <1>3. TypeOK'
    BY <1>2 DEF TypeOK, PCs
  <1>4. LockHeld'
    BY DEF DecisionsStand, LockHeld, Holding, TypeOK
  <1>5. ASSUME NEW v \in Writers PROVE DecisionStands(v)'
    <2>1. CASE v = w
      BY <2>1 DEF DecisionStands, TypeOK
    <2>2. CASE v # w
      <3>1. \A c : Priors(c)' = Priors(c)
        BY DEF Priors
      <3> QED BY <2>2, <3>1, OthersStand DEF TypeOK
    <2> QED BY <2>1, <2>2
  <1> QED BY <1>3, <1>4, <1>5 DEF DecisionsStand

\* Taking the free lock makes its holder the only one.
LEMMA CoreAcquire ==
    ASSUME TypeOK, DecisionsStand, NEW w \in Writers, Acquire(w)
    PROVE  TypeOK' /\ DecisionsStand'
  <1> USE DEF Acquire
  <1>3. TypeOK'
    BY DEF TypeOK, PCs
  <1>4. LockHeld'
    BY NoneAssumption DEF DecisionsStand, LockHeld, Holding, TypeOK
  <1>5. ASSUME NEW v \in Writers PROVE DecisionStands(v)'
    <2>1. CASE v = w
      BY <2>1 DEF DecisionStands, DecisionsStand, TypeOK
    <2>2. CASE v # w
      <3>1. \A c : Priors(c)' = Priors(c)
        BY DEF Priors
      <3> QED BY <2>2, <3>1, OthersStand, NoneAssumption DEF TypeOK, DecisionsStand, LockHeld, Holding
    <2> QED BY <2>1, <2>2
  <1> QED BY <1>3, <1>4, <1>5 DEF DecisionsStand

\* A call that times out leaves the files alone.
LEMMA CoreLockTimeout ==
    ASSUME TypeOK, DecisionsStand, NEW w \in Writers, LockTimeout(w)
    PROVE  TypeOK' /\ DecisionsStand'
  <1> USE DEF LockTimeout
  <1>3. TypeOK'
    BY DEF TypeOK, PCs, Answers
  <1>4. LockHeld'
    BY NoneAssumption DEF DecisionsStand, LockHeld, Holding, TypeOK
  <1>5. ASSUME NEW v \in Writers PROVE DecisionStands(v)'
    <2>1. CASE v = w
      <3>1. answer'[w] = [rc |-> 75, reason |-> "lock_timeout"]
        BY DEF TypeOK
      <3>2. answer'[w] \in Answers /\ answer'[w].rc = 75
        BY <3>1 DEF Answers
      <3> QED BY <2>1, <3>2 DEF DecisionStands, DecisionsStand, TypeOK
    <2>2. CASE v # w
      <3>1. \A c : Priors(c)' = Priors(c)
        BY DEF Priors
      <3> QED BY <2>2, <3>1, OthersStand, NoneAssumption DEF TypeOK, DecisionsStand, LockHeld, Holding
    <2> QED BY <2>1, <2>2
  <1> QED BY <1>3, <1>4, <1>5 DEF DecisionsStand

\* A replay answers a causation id that is on record.
LEMMA CoreReplay ==
    ASSUME TypeOK, DecisionsStand, OneRecordPerCause, NEW w \in Writers, Replay(w)
    PROVE  TypeOK' /\ DecisionsStand'
  <1> USE DEF Replay
  <1>1. FirstPrior(req[w].cause) \in DOMAIN stream
    <2>1. PICK i \in Priors(req[w].cause) : TRUE
      OBVIOUS
    <2>2. i \in Nat /\ \A j \in Priors(req[w].cause) : i <= j
      BY DEF Priors, TypeOK, OneRecordPerCause
    <2> QED BY <2>2 DEF FirstPrior, Priors
  <1>2. causation_replay(stream[FirstPrior(req[w].cause)], req[w]) \in Answers
    <2> DEFINE e == stream[FirstPrior(req[w].cause)]
    <2>1. e.reason \in Verdicts
      <3>1. \A i \in DOMAIN stream : stream[i] \in Events
        BY DEF TypeOK
      <3>2. e \in Events
        BY <1>1, <3>1
      <3> HIDE DEF e
      <3> QED BY <3>2 DEF Events
    <2> HIDE DEF e
    <2>2. "accepted" \in Verdicts
      BY DEF Verdicts
    <2>3. causation_replay(e, req[w]) \in Answers
      BY <2>1, <2>2 DEF causation_replay, Answers
    <2> QED BY <2>3 DEF e
  <1>3. TypeOK'
    BY <1>2 DEF TypeOK, PCs
  <1>4. LockHeld'
    BY NoneAssumption DEF DecisionsStand, LockHeld, Holding, TypeOK
  <1>5. ASSUME NEW v \in Writers PROVE DecisionStands(v)'
    <2>1. CASE v = w
      <3>1. Priors(req[w].cause)' = Priors(req[w].cause)
        BY DEF Priors
      <3> QED BY <1>2, <2>1, <3>1 DEF DecisionStands, DecisionsStand, TypeOK
    <2>2. CASE v # w
      <3>1. \A c : Priors(c)' = Priors(c)
        BY DEF Priors
      <3> QED BY <2>2, <3>1, OthersStand, NoneAssumption DEF TypeOK, DecisionsStand, LockHeld, Holding
    <2> QED BY <2>1, <2>2
  <1> QED BY <1>3, <1>4, <1>5 DEF DecisionsStand

\* A fresh decision stands: DecideSound, and no record carries its causation id.
LEMMA CoreDecide ==
    ASSUME TypeOK, DecisionsStand, NEW w \in Writers, Decide(w)
    PROVE  TypeOK' /\ DecisionsStand'
  <1> USE DEF Decide
  <1> DEFINE e == decide(ledger, lead, req[w], seen[w].state_seq)
  <1>1. req[w] \in Requested /\ req[w] \in Requests
    BY RequestedAssumption DEF DecisionsStand, DecisionStands
  <1>2. e \in Events /\ e.req = req[w]
    BY <1>1, DecideType
  <1>3. TypeOK'
    BY <1>2 DEF TypeOK, PCs
  <1>4. LockHeld'
    BY NoneAssumption DEF DecisionsStand, LockHeld, Holding, TypeOK
  <1>5. ASSUME NEW v \in Writers PROVE DecisionStands(v)'
    <2>1. CASE v = w
      <3>1. Priors(req[w].cause)' = Priors(req[w].cause)
        BY DEF Priors
      <3>2. req'[w] = req[w] /\ ledger' = ledger /\ verdict'[w] = e
        BY DEF TypeOK
      <3>3. pc'[w] = IF e.kind = "task.created" THEN "body" ELSE "commit"
        BY DEF TypeOK
      <3>4. e.kind # "task.rejected" => e = acceptance(req[w]) /\ Admissible(ledger, req[w])
        BY <1>1, DecideSound DEF TypeOK
      <3> HIDE DEF e
      <3> QED BY <1>1, <1>2, <2>1, <3>1, <3>2, <3>3, <3>4 DEF DecisionStands
    <2>2. CASE v # w
      <3>1. \A c : Priors(c)' = Priors(c)
        BY DEF Priors
      <3> QED BY <2>2, <3>1, OthersStand, NoneAssumption DEF TypeOK, DecisionsStand, LockHeld, Holding
    <2> QED BY <2>1, <2>2
  <1> QED BY <1>3, <1>4, <1>5 DEF DecisionsStand

\* The sidecar is created, found identical, or the create is refused.
LEMMA CoreWriteBody ==
    ASSUME TypeOK, DecisionsStand, NEW w \in Writers, WriteBody(w)
    PROVE  TypeOK' /\ DecisionsStand'
  <1> USE DEF WriteBody
  <1> DEFINE q == req[w]
  <1>1. q \in Requested /\ q \in Requests /\ WellFormed(q)
    BY RequestedAssumption DEF DecisionsStand, DecisionStands
  <1>2. q.task \in TaskIds
    <2>1. verdict[w].kind = "task.created" /\ verdict[w] = acceptance(q)
      BY DEF DecisionsStand, DecisionStands
    <2>2. q.type = "task.created"
      BY <2>1 DEF acceptance
    <2> QED BY <1>1, <2>2 DEF WellFormed, Requests, TaskIds
  <1>3. TypeOK'
    <2>1. rejection(q, "unsafe_body_sidecar") \in Events
      BY <1>1 DEF rejection, Events, Requests, EVENT_TYPES, Verdicts
    <2> QED BY <1>2, <2>1 DEF TypeOK, PCs
  <1>4. LockHeld'
    BY NoneAssumption DEF DecisionsStand, LockHeld, Holding, TypeOK
  <1>5. ASSUME NEW v \in Writers PROVE DecisionStands(v)'
    <2>1. CASE v = w
      <3>1. Priors(req[w].cause)' = Priors(req[w].cause)
        BY DEF Priors
      <3>2. DecisionStands(w)
        BY DEF DecisionsStand
      <3>3. CASE bodies[q.task] = None
        BY <1>1, <1>2, <2>1, <3>1, <3>2, <3>3 DEF DecisionStands, TypeOK
      <3>4. CASE bodies[q.task] # None /\ bodies[q.task] = q.body
        BY <1>1, <1>2, <2>1, <3>1, <3>2, <3>4 DEF DecisionStands, TypeOK
      <3>5. CASE bodies[q.task] # None /\ bodies[q.task] # q.body
        <4> DEFINE e == rejection(q, "unsafe_body_sidecar")
        <4>1. e \in Events /\ e.req = q /\ e.kind = "task.rejected"
          BY <1>1 DEF rejection, Events, Requests, EVENT_TYPES, Verdicts
        <4>2. verdict'[w] = e /\ pc'[w] = "commit" /\ req'[w] = q
          BY <3>5 DEF TypeOK
        <4> HIDE DEF e
        <4> QED BY <1>1, <2>1, <3>1, <3>2, <4>1, <4>2 DEF DecisionStands
      <3> QED BY <3>3, <3>4, <3>5
    <2>2. CASE v # w
      <3>1. \A c : Priors(c)' = Priors(c)
        BY DEF Priors
      <3> QED BY <2>2, <3>1, OthersStand, NoneAssumption DEF TypeOK, DecisionsStand, LockHeld, Holding
    <2> QED BY <2>1, <2>2
  <1> QED BY <1>3, <1>4, <1>5 DEF DecisionsStand

\* A filled sidecar holds the requested body.
LEMMA CoreFillBody ==
    ASSUME TypeOK, DecisionsStand, NEW w \in Writers, FillBody(w)
    PROVE  TypeOK' /\ DecisionsStand'
  <1> USE DEF FillBody
  <1> DEFINE q == req[w]
  <1>1. q \in Requested /\ q \in Requests /\ WellFormed(q)
    BY RequestedAssumption DEF DecisionsStand, DecisionStands
  <1>2. q.task \in TaskIds /\ q.body \in Bodies
    <2>1. verdict[w].kind = "task.created" /\ verdict[w] = acceptance(q)
      BY DEF DecisionsStand, DecisionStands
    <2>2. q.type = "task.created"
      BY <2>1 DEF acceptance
    <2> QED BY <1>1, <2>2 DEF WellFormed, Requests, TaskIds
  <1>3. TypeOK'
    BY <1>2 DEF TypeOK, PCs
  <1>4. LockHeld'
    BY NoneAssumption DEF DecisionsStand, LockHeld, Holding, TypeOK
  <1>5. ASSUME NEW v \in Writers PROVE DecisionStands(v)'
    <2>1. CASE v = w
      <3>1. Priors(req[w].cause)' = Priors(req[w].cause)
        BY DEF Priors
      <3>2. DecisionStands(w)
        BY DEF DecisionsStand
      <3> QED BY <1>1, <1>2, <2>1, <3>1, <3>2 DEF DecisionStands, TypeOK
    <2>2. CASE v # w
      <3>1. \A c : Priors(c)' = Priors(c)
        BY DEF Priors
      <3> QED BY <2>2, <3>1, OthersStand, NoneAssumption DEF TypeOK, DecisionsStand, LockHeld, Holding
    <2> QED BY <2>1, <2>2
  <1> QED BY <1>3, <1>4, <1>5 DEF DecisionsStand

\* A sidecar that cannot be written refuses the create.
LEMMA CoreBodyFails ==
    ASSUME TypeOK, DecisionsStand, NEW w \in Writers, BodyFails(w)
    PROVE  TypeOK' /\ DecisionsStand'
  <1> DEFINE q == req[w]
             e == rejection(q, "unsafe_body_sidecar")
  <1>1. q \in Requested /\ q \in Requests /\ WellFormed(q)
    BY RequestedAssumption DEF BodyFails, DecisionsStand, DecisionStands
  <1>2. q.task \in TaskIds /\ q.body \in Bodies
    <2>1. verdict[w].kind = "task.created" /\ verdict[w] = acceptance(q)
      BY DEF BodyFails, DecisionsStand, DecisionStands
    <2>2. q.type = "task.created"
      BY <2>1 DEF acceptance
    <2> QED BY <1>1, <2>2 DEF WellFormed, Requests, TaskIds
  <1>3. e \in Events /\ e.req = q /\ e.kind = "task.rejected"
    BY <1>1 DEF rejection, Events, Requests, EVENT_TYPES, Verdicts
  <1>4. TypeOK'
    BY <1>2, <1>3 DEF BodyFails, TypeOK, PCs
  <1>5. LockHeld'
    BY NoneAssumption DEF BodyFails, DecisionsStand, LockHeld, Holding, TypeOK
  <1>6. ASSUME NEW v \in Writers PROVE DecisionStands(v)'
    <2>1. CASE v = w
      <3>1. Priors(req[w].cause)' = Priors(req[w].cause)
        BY DEF BodyFails, Priors
      <3>2. DecisionStands(w)
        BY DEF DecisionsStand
      <3>3. /\ verdict'[w] = e /\ pc'[w] = "commit" /\ req'[w] = q
            /\ pc[w] \in {"body", "fill"} /\ UNCHANGED <<stream, ledger, lead, seen>>
        BY DEF BodyFails, TypeOK
      <3> HIDE DEF e
      <3> QED BY <1>1, <1>3, <2>1, <3>1, <3>2, <3>3 DEF DecisionStands
    <2>2. CASE v # w
      <3>1. \A c : Priors(c)' = Priors(c)
        BY DEF BodyFails, Priors
      <3> QED BY <2>2, <3>1, OthersStand, NoneAssumption
              DEF BodyFails, TypeOK, DecisionsStand, LockHeld, Holding
    <2> QED BY <2>1, <2>2
  <1> QED BY <1>4, <1>5, <1>6 DEF BodyFails, DecisionsStand

\* The answer after an append tells of a causation id on record.
LEMMA CoreReply ==
    ASSUME TypeOK, DecisionsStand, NEW w \in Writers, Reply(w)
    PROVE  TypeOK' /\ DecisionsStand'
  <1> USE DEF Reply
  <1>1. ExitStatus(verdict[w]) \in Answers
    <2>1. verdict[w].reason \in Verdicts
      BY DEF DecisionsStand, DecisionStands, Events
    <2> QED BY <2>1 DEF ExitStatus, Answers
  <1>3. TypeOK'
    BY <1>1 DEF TypeOK, PCs
  <1>4. LockHeld'
    BY NoneAssumption DEF DecisionsStand, LockHeld, Holding, TypeOK
  <1>5. ASSUME NEW v \in Writers PROVE DecisionStands(v)'
    <2>1. CASE v = w
      <3>1. Priors(req[w].cause)' = Priors(req[w].cause)
        BY DEF Priors
      <3>2. DecisionStands(w)
        BY DEF DecisionsStand
      <3>3. PICK i \in DOMAIN stream : stream[i] = verdict[w]
        BY <3>2 DEF DecisionStands
      <3>4. Priors(req[w].cause) # {}
        BY <3>2, <3>3 DEF DecisionStands, Priors
      <3> QED BY <1>1, <2>1, <3>1, <3>2, <3>4 DEF DecisionStands, TypeOK
    <2>2. CASE v # w
      <3>1. \A c : Priors(c)' = Priors(c)
        BY DEF Priors
      <3> QED BY <2>2, <3>1, OthersStand, NoneAssumption DEF TypeOK, DecisionsStand, LockHeld, Holding
    <2> QED BY <2>1, <2>2
  <1> QED BY <1>3, <1>4, <1>5 DEF DecisionsStand

\* A call that ended stands for nothing.
LEMMA CoreExit ==
    ASSUME TypeOK, DecisionsStand, NEW w \in Writers, Exit(w)
    PROVE  TypeOK' /\ DecisionsStand'
  <1> USE DEF Exit, Forget
  <1>2. NoTask \in FoldedTasks
    BY DEF NoTask, FoldedTasks, TaskStates
  <1>3. TypeOK'
    BY <1>2 DEF TypeOK, PCs
  <1>4. LockHeld'
    BY NoneAssumption DEF DecisionsStand, LockHeld, Holding, TypeOK
  <1>5. ASSUME NEW v \in Writers PROVE DecisionStands(v)'
    <2>1. CASE v = w
      BY <2>1 DEF DecisionStands, TypeOK
    <2>2. CASE v # w
      <3>1. \A c : Priors(c)' = Priors(c)
        BY DEF Priors
      <3> QED BY <2>2, <3>1, OthersStand, NoneAssumption DEF TypeOK, DecisionsStand, LockHeld, Holding
    <2> QED BY <2>1, <2>2
  <1> QED BY <1>3, <1>4, <1>5 DEF DecisionsStand

\* A killed writer's lock is free and its decision forgotten.
LEMMA CoreKill ==
    ASSUME TypeOK, DecisionsStand, NEW w \in Writers, Kill(w)
    PROVE  TypeOK' /\ DecisionsStand'
  <1> USE DEF Kill, Forget
  <1>2. NoTask \in FoldedTasks
    BY DEF NoTask, FoldedTasks, TaskStates
  <1>3. TypeOK'
    BY <1>2 DEF TypeOK, PCs
  <1>4. LockHeld'
    BY NoneAssumption DEF DecisionsStand, LockHeld, Holding, TypeOK
  <1>5. ASSUME NEW v \in Writers PROVE DecisionStands(v)'
    <2>1. CASE v = w
      BY <2>1 DEF DecisionStands, TypeOK
    <2>2. CASE v # w
      <3>1. \A c : Priors(c)' = Priors(c)
        BY DEF Priors
      <3> QED BY <2>2, <3>1, OthersStand, NoneAssumption DEF TypeOK, DecisionsStand, LockHeld, Holding
    <2> QED BY <2>1, <2>2
  <1> QED BY <1>3, <1>4, <1>5 DEF DecisionsStand

\* The append puts the decision on record; nobody else had one standing.
LEMMA CoreCommit ==
    ASSUME TypeOK, DecisionsStand, NEW w \in Writers, Commit(w)
    PROVE  TypeOK' /\ DecisionsStand'
  <1> USE DEF Commit
  <1>1. /\ req[w] \in Requested /\ verdict[w] \in Events /\ verdict[w].req = req[w]
        /\ DecisionStands(w)
        /\ lock = w
    BY DEF DecisionsStand, DecisionStands, LockHeld, Holding
  <1>2. /\ \A i \in DOMAIN stream : i \in DOMAIN stream' /\ stream'[i] = stream[i]
        /\ Len(stream) + 1 \in DOMAIN stream' /\ stream'[Len(stream) + 1] = verdict[w]
        /\ \A i \in DOMAIN stream' : i \in DOMAIN stream \/ i = Len(stream) + 1
        /\ \A c : Priors(c) # {} => Priors(c)' # {}
    BY <1>1, PriorsGrow DEF TypeOK
  <1>3. TypeOK'
    <2>1. ledger' \in Ledgers
      BY <1>1, ApplyType DEF TypeOK
    <2>2. stream' \in Seq(Events)
      BY <1>1 DEF TypeOK
    <2> QED BY <2>1, <2>2 DEF TypeOK, PCs
  <1>4. LockHeld'
    BY DEF DecisionsStand, LockHeld, Holding, TypeOK
  <1>5. ASSUME NEW v \in Writers PROVE DecisionStands(v)'
    <2>1. CASE v = w
      <3>1. \E i \in DOMAIN stream' : stream'[i] = verdict'[w]
        BY <1>2
      <3>2. pc'[w] = "reply" /\ req'[w] = req[w] /\ verdict'[w] = verdict[w]
        BY DEF TypeOK
      <3> QED BY <1>1, <2>1, <3>1, <3>2 DEF DecisionStands
    <2>2. CASE v # w
      BY <1>1, <1>2, <2>2, OthersStand DEF TypeOK
    <2> QED BY <2>1, <2>2
  <1>6. \A i \in DOMAIN stream' :
          /\ stream'[i].req \in Requested
          /\ stream'[i].kind # "task.rejected" => stream'[i] = acceptance(stream'[i].req)
    <2>1. verdict[w].kind # "task.rejected" => verdict[w] = acceptance(verdict[w].req)
      BY <1>1 DEF DecisionStands
    <2> QED BY <1>1, <1>2, <2>1 DEF DecisionsStand
  <1> QED BY <1>3, <1>4, <1>5, <1>6 DEF DecisionsStand

\* Standing decisions do not mention the registry's leads.
LEMMA CoreSetLead ==
    ASSUME TypeOK, DecisionsStand, NEW team \in Teams, NEW uid \in Agents, SetLead(team, uid)
    PROVE  TypeOK' /\ DecisionsStand'
  <1> USE DEF SetLead
  <1>1. TypeOK'
    BY DEF TypeOK
  <1>2. LockHeld'
    BY DEF DecisionsStand, LockHeld
  <1>3. \A c : Priors(c)' = Priors(c)
    BY DEF Priors
  <1>4. \A v \in Writers : DecisionStands(v)'
    BY <1>3, UntouchedStands DEF DecisionsStand
  <1> QED BY <1>1, <1>2, <1>4 DEF DecisionsStand

\* Only Commit changes the stream and the ledger; only WriteBody, FillBody
\* and BodyFails the sidecars.
LEMMA OnlyCommitWrites ==
    ASSUME TypeOK, DecisionsStand, [Next]_vars
    PROVE  UNCHANGED <<stream, ledger>> \/ \E w \in Writers : Commit(w)
  BY DEF Next, Step, vars, Submit, Acquire, LockTimeout, Replay, Decide, WriteBody,
         FillBody, BodyFails, Reply, Exit, Kill, Forget, SetLead

\* A step never records a causation id twice.
LEMMA OneRecordStep ==
    ASSUME TypeOK, DecisionsStand, OneRecordPerCause, [Next]_vars
    PROVE  OneRecordPerCause'
  <1>1. CASE UNCHANGED <<stream, ledger>>
    BY <1>1 DEF OneRecordPerCause
  <1>2. ASSUME NEW w \in Writers, Commit(w) PROVE OneRecordPerCause'
    <2>1. /\ verdict[w] \in Events /\ verdict[w].req = req[w]
          /\ Priors(req[w].cause) = {}
      BY <1>2 DEF Commit, DecisionsStand, DecisionStands
    <2>2. /\ \A i \in DOMAIN stream : i \in DOMAIN stream' /\ stream'[i] = stream[i]
          /\ stream'[Len(stream) + 1] = verdict[w]
          /\ \A i \in DOMAIN stream' : i \in DOMAIN stream \/ i = Len(stream) + 1
      BY <1>2, <2>1, PriorsGrow DEF Commit, TypeOK
    <2>3. \A i \in DOMAIN stream : stream[i].req.cause # req[w].cause
      BY <2>1 DEF Priors
    <2> QED BY <2>1, <2>2, <2>3 DEF OneRecordPerCause
  <1> QED BY <1>1, <1>2, OnlyCommitWrites

\* Every step keeps the inductive invariant.
LEMMA CoreStep ==
    ASSUME TypeOK, DecisionsStand, OneRecordPerCause, [Next]_vars
    PROVE  TypeOK' /\ DecisionsStand' /\ OneRecordPerCause'
  <1>6. OneRecordPerCause'
    BY OneRecordStep
  <1>1. ASSUME NEW w \in Writers, NEW q \in Requested, Submit(w, q)
        PROVE TypeOK' /\ DecisionsStand'
    BY <1>1, CoreSubmit
  <1>2. ASSUME NEW w \in Writers, Step(w) PROVE TypeOK' /\ DecisionsStand'
    BY <1>2, CoreAcquire, CoreLockTimeout, CoreReplay, CoreDecide, CoreWriteBody,
       CoreFillBody, CoreBodyFails, CoreCommit, CoreReply, CoreExit DEF Step
  <1>3. ASSUME NEW w \in Writers, Kill(w) PROVE TypeOK' /\ DecisionsStand'
    BY <1>3, CoreKill
  <1>4. ASSUME NEW team \in Teams, NEW uid \in Agents, SetLead(team, uid)
        PROVE TypeOK' /\ DecisionsStand'
    BY <1>4, CoreSetLead
  <1>5. CASE UNCHANGED vars
    <2>1. TypeOK' /\ LockHeld'
      BY <1>5 DEF vars, TypeOK, DecisionsStand, LockHeld
    <2>2. \A c : Priors(c)' = Priors(c)
      BY <1>5 DEF vars, Priors
    <2>3. \A v \in Writers : DecisionStands(v)'
      BY <1>5, <2>2, UntouchedStands DEF vars, DecisionsStand
    <2>4. stream' = stream
      BY <1>5 DEF vars
    <2> QED BY <1>6, <2>1, <2>3, <2>4 DEF DecisionsStand
  <1> QED BY <1>1, <1>2, <1>3, <1>4, <1>5, <1>6 DEF Next

\* The ledger's writers are type correct.
THEOREM TypeCorrect == Spec => []TypeOK
  <1>1. Init => TypeOK /\ DecisionsStand /\ OneRecordPerCause
    BY CoreInit DEF Init, OneRecordPerCause
  <1>2. TypeOK /\ DecisionsStand /\ OneRecordPerCause /\ [Next]_vars
          => TypeOK' /\ DecisionsStand' /\ OneRecordPerCause'
    BY CoreStep
  <1> QED BY <1>1, <1>2, PTL DEF Spec

\* What a writer decided under the lock still stands when it appends it, for
\* any number of writers, requests, kills and registry changes.
THEOREM DecisionsAlwaysStand == Spec => []DecisionsStand
  <1>1. Init => TypeOK /\ DecisionsStand /\ OneRecordPerCause
    BY CoreInit DEF Init, OneRecordPerCause
  <1>2. TypeOK /\ DecisionsStand /\ OneRecordPerCause /\ [Next]_vars
          => TypeOK' /\ DecisionsStand' /\ OneRecordPerCause'
    BY CoreStep
  <1> QED BY <1>1, <1>2, PTL DEF Spec

\* No causation id is ever recorded twice.
THEOREM CausesAreUnique == Spec => []OneRecordPerCause
  <1>1. Init => TypeOK /\ DecisionsStand /\ OneRecordPerCause
    BY CoreInit DEF Init, OneRecordPerCause
  <1>2. TypeOK /\ DecisionsStand /\ OneRecordPerCause /\ [Next]_vars
          => TypeOK' /\ DecisionsStand' /\ OneRecordPerCause'
    BY CoreStep
  <1> QED BY <1>1, <1>2, PTL DEF Spec
-----------------------------------------------------------------------------
(***************************************************************************)
(* The folded ledger: agreement of decide and fold, closed runs, limits.   *)
(***************************************************************************)

\* What a verb on an existing task does to the fields of its record.
LEMMA StepFields ==
    ASSUME NEW task \in FoldedTasks, NEW q \in Requests, NEW seq \in Nat,
           q.type = "task.reported" => q.report # None
    PROVE  LET new == Touch(task, StepTask(task, q), seq)
           IN  /\ new.run = task.run /\ new.team = task.team
               /\ q.type \in {"task.reassigned", "task.reopened"} =>
                    /\ new.state = "ASSIGNED" /\ new.turns = 0
                    /\ new.assignments = task.assignments + 1
                    /\ new.assignee = q.assignee
               /\ q.type \notin {"task.reassigned", "task.reopened"} =>
                    /\ new.assignee = task.assignee
                    /\ new.assignments = task.assignments
                    /\ new.state \in OPEN_LIMIT => task.state \in OPEN_LIMIT
                    /\ new.turns = task.turns \/ new.turns = task.turns + 1
                    /\ new.turns # task.turns => q.type = "task.reported" /\ q.report = "progress"
  <1> DEFINE mid == StepTask(task, q)
             new == Touch(task, mid, seq)
  <1>1. /\ mid.run = task.run /\ mid.team = task.team
        /\ q.type \in {"task.reassigned", "task.reopened"} =>
              /\ mid.state = "ASSIGNED" /\ mid.turns = 0
              /\ mid.assignments = task.assignments + 1
              /\ mid.assignee = q.assignee
        /\ q.type \notin {"task.reassigned", "task.reopened"} =>
              /\ mid.assignee = task.assignee
              /\ mid.assignments = task.assignments
              /\ mid.state \in OPEN_LIMIT => task.state \in OPEN_LIMIT
              /\ mid.turns = task.turns \/ mid.turns = task.turns + 1
              /\ mid.turns # task.turns => q.type = "task.reported" /\ q.report = "progress"
    <2>1. CASE q.type = "task.started"
      BY <2>1 DEF StepTask, FoldedTasks, OPEN_LIMIT
    <2>2. CASE q.type = "task.reported"
      <3>1. ReportedState(task, q.report) \notin OPEN_LIMIT
        BY <2>2 DEF ReportedState, OPEN_LIMIT, Requests
      <3> QED BY <2>2, <3>1 DEF StepTask, FoldedTasks
    <2>3. CASE q.type = "task.cancelled"
      BY <2>3 DEF StepTask, FoldedTasks, OPEN_LIMIT
    <2>4. CASE q.type \in {"task.reassigned", "task.reopened"}
      BY <2>4 DEF StepTask, FoldedTasks
    <2>5. CASE q.type \notin {"task.started", "task.reported", "task.cancelled",
                              "task.reassigned", "task.reopened"}
      BY <2>5 DEF StepTask
    <2> QED BY <2>1, <2>2, <2>3, <2>4, <2>5
  <1>2. /\ new.run = mid.run /\ new.team = mid.team /\ new.state = mid.state
        /\ new.assignee = mid.assignee
        /\ new.assignments = mid.assignments /\ new.turns = mid.turns
    BY DEF Touch
  <1> QED BY <1>1, <1>2

\* What folding a request may do to a task: nothing, or it is the task created,
\* cancelled with its run, or stepped.
TaskMoved(L, q, seq, t, new) ==
    \/ new = L.tasks[t]
    \/ /\ q.type = "run.closed" /\ t \in OpenTasks(L, q.run)
       /\ new = [L.tasks[t] EXCEPT !.state = "CANCELLED", !.state_seq = seq]
    \/ /\ q.type = "task.created" /\ t = q.task
       /\ new = base_task(q, seq)
    \/ /\ q.type \notin {"run.requested", "run.closed", "task.created"}
       /\ t = q.task /\ FoldsTaskEvent(L, q)
       /\ q.type = "task.reported" => q.report # None
       /\ new = Touch(L.tasks[t], StepTask(L.tasks[t], q), seq)

\* Folding moves every task in one of these ways.
LEMMA FoldShape ==
    ASSUME NEW L \in Ledgers, NEW q \in Requests, NEW seq \in Nat, Foldable(L, q),
           NEW t \in TaskIds
    PROVE  TaskMoved(L, q, seq, t, FoldTasks(L, q, seq)[t])
  <1> USE DEF TaskMoved
  <1>1. L.tasks \in [TaskIds -> FoldedTasks]
    BY DEF Ledgers
  <1>2. CASE q.type = "run.requested"
    BY <1>2 DEF FoldTasks
  <1>3. CASE q.type = "run.closed"
    BY <1>1, <1>3 DEF FoldTasks, CancelOpenTasks
  <1>4. CASE q.type = "task.created"
    BY <1>1, <1>4 DEF FoldTasks
  <1>5. CASE q.type \notin {"run.requested", "run.closed", "task.created"}
    <2>1. FoldsTaskEvent(L, q) /\ (q.type = "task.reported" => q.report # None)
      BY <1>5, NoneAssumption DEF Foldable, FoldsReport
    <2> QED BY <1>1, <1>5, <2>1 DEF FoldTasks
  <1> QED BY <1>2, <1>3, <1>4, <1>5

\* A commit either appends a rejection and leaves the ledger alone, or folds an
\* admissible request.
LEMMA CommitShape ==
    ASSUME TypeOK, DecisionsStand, NEW w \in Writers, Commit(w)
    PROVE  /\ req[w] \in Requests
           /\ \/ verdict[w].kind = "task.rejected" /\ ledger' = ledger
              \/ /\ verdict[w] = acceptance(req[w])
                 /\ Admissible(ledger, req[w]) /\ Foldable(ledger, req[w])
                 /\ ledger'.runs = FoldRuns(ledger, req[w])
                 /\ ledger'.tasks = FoldTasks(ledger, req[w], Len(stream) + 1)
                 /\ ledger'.invalid = ledger.invalid
  <1>1. /\ req[w] \in Requests /\ verdict[w].req = req[w]
        /\ verdict[w].kind # "task.rejected" =>
              verdict[w] = acceptance(req[w]) /\ Admissible(ledger, req[w])
    BY RequestedAssumption DEF Commit, DecisionsStand, DecisionStands
  <1>2. CASE verdict[w].kind = "task.rejected"
    BY <1>1, <1>2 DEF Commit, Apply
  <1>3. CASE verdict[w].kind # "task.rejected"
    <2>1. Foldable(ledger, req[w])
      BY <1>1, <1>3 DEF Admissible
    <2>2. ledger' = [ledger EXCEPT !.runs = FoldRuns(ledger, req[w]),
                                   !.tasks = FoldTasks(ledger, req[w], Len(stream) + 1)]
      BY <1>1, <1>3, <2>1 DEF Commit, Apply
    <2> QED BY <1>1, <1>3, <2>1, <2>2 DEF TypeOK, Ledgers
  <1> QED BY <1>2, <1>3

\* decide and fold agree: nothing a writer appends is skipped by the fold.
THEOREM DecideFoldAgree == Spec => []NeverInvalid
  <1>1. Init => NeverInvalid
    BY DEF Init, EmptyLedger, NeverInvalid
  <1>2. TypeOK /\ DecisionsStand /\ NeverInvalid /\ [Next]_vars => NeverInvalid'
    BY OnlyCommitWrites, CommitShape DEF NeverInvalid
  <1> QED BY <1>1, <1>2, TypeCorrect, DecisionsAlwaysStand, PTL DEF Spec

\* Folding a request never leaves a closed run with an open task.
LEMMA ClosedStep ==
    ASSUME NEW L \in Ledgers, NEW K \in Ledgers, NEW q \in Requests, NEW seq \in Nat,
           Foldable(L, q), K.runs = FoldRuns(L, q), K.tasks = FoldTasks(L, q, seq),
           \A r \in Runs : L.runs[r].state \in CLOSED_RUN => OpenTasks(L, r) = {},
           NEW r \in Runs, K.runs[r].state \in CLOSED_RUN, NEW t \in OpenTasks(K, r)
    PROVE  FALSE
  <1>1. /\ t \in TaskIds /\ K.tasks[t].run = r /\ K.tasks[t].state \in NONTERMINAL
        /\ L.runs \in [Runs -> FoldedRuns] /\ L.tasks \in [TaskIds -> FoldedTasks]
        /\ q.run \in Runs
    BY DEF OpenTasks, Ledgers, Requests
  <1>2. r # q.run => L.runs[r].state \in CLOSED_RUN
    BY <1>1 DEF FoldRuns
  <1>3. r = q.run => q.type = "run.closed"
    BY <1>1 DEF FoldRuns, Foldable, FoldsTaskEvent, CLOSED_RUN
  <1>4. CASE K.tasks[t] = L.tasks[t]
    <2>1. t \in OpenTasks(L, r)
      BY <1>1, <1>4 DEF OpenTasks
    <2>2. r = q.run /\ q.type = "run.closed"
      BY <1>2, <1>3, <2>1
    <2>3. K.tasks[t].state = "CANCELLED"
      <3>1. K.tasks = CancelOpenTasks(L, r, seq)
        BY <2>2 DEF FoldTasks
      <3>2. K.tasks[t] = [L.tasks[t] EXCEPT !.state = "CANCELLED", !.state_seq = seq]
        BY <1>1, <2>1, <3>1 DEF CancelOpenTasks
      <3> QED BY <1>1, <3>2 DEF FoldedTasks
    <2> QED BY <1>1, <2>3 DEF NONTERMINAL
  <1>5. CASE K.tasks[t] = [L.tasks[t] EXCEPT !.state = "CANCELLED", !.state_seq = seq]
    BY <1>1, <1>5 DEF NONTERMINAL, FoldedTasks
  <1>6. CASE q.type = "task.created" /\ K.tasks[t] = base_task(q, seq)
    BY <1>1, <1>3, <1>6 DEF base_task
  <1>7. CASE /\ q.type \notin {"run.requested", "run.closed", "task.created"}
             /\ t = q.task /\ FoldsTaskEvent(L, q)
             /\ q.type = "task.reported" => q.report # None
             /\ K.tasks[t] = Touch(L.tasks[t], StepTask(L.tasks[t], q), seq)
    <2>1. K.tasks[t].run = L.tasks[t].run
      BY <1>1, <1>7, StepFields
    <2>2. L.tasks[t].run = q.run
      BY <1>7 DEF FoldsTaskEvent
    <2> QED BY <1>1, <1>2, <1>3, <1>7, <2>1, <2>2
  <1>8. TaskMoved(L, q, seq, t, K.tasks[t])
    BY <1>1, FoldShape
  <1> QED BY <1>4, <1>5, <1>6, <1>7, <1>8 DEF TaskMoved

\* A closed run has no open task, ever after.
THEOREM ClosedRunsSettled == Spec => []ClosedRunSettled
  <1>1. Init => ClosedRunSettled
    BY DEF Init, EmptyLedger, NoRun, ClosedRunSettled, CLOSED_RUN
  <1>2. TypeOK /\ TypeOK' /\ DecisionsStand /\ ClosedRunSettled /\ [Next]_vars
          => ClosedRunSettled'
    <2> SUFFICES ASSUME TypeOK, TypeOK', DecisionsStand, ClosedRunSettled, [Next]_vars
                 PROVE  ClosedRunSettled'
      OBVIOUS
    <2>1. CASE ledger' = ledger
      BY <2>1 DEF ClosedRunSettled
    <2>2. ASSUME NEW w \in Writers, Commit(w), ledger' # ledger
          PROVE  ClosedRunSettled'
      <3>1. /\ req[w] \in Requests /\ Foldable(ledger, req[w])
            /\ ledger'.runs = FoldRuns(ledger, req[w])
            /\ ledger'.tasks = FoldTasks(ledger, req[w], Len(stream) + 1)
        BY <2>2, CommitShape
      <3>2. ledger \in Ledgers /\ ledger' \in Ledgers /\ Len(stream) + 1 \in Nat
        BY DEF TypeOK
      <3>3. ASSUME NEW r \in Runs, ledger'.runs[r].state \in CLOSED_RUN,
                   NEW t \in OpenTasks(ledger', r)
            PROVE  FALSE
        BY <3>1, <3>2, <3>3, ClosedStep DEF ClosedRunSettled
      <3> QED BY <3>3 DEF ClosedRunSettled
    <2> QED BY <2>1, <2>2, OnlyCommitWrites
  <1> QED BY <1>1, <1>2, TypeCorrect, DecisionsAlwaysStand, PTL DEF Spec

\* Requests that hand a task to a worker take a slot of the team and an
\* allocation of the run.
Hands(q) == q.type \in {"task.created", "task.reassigned", "task.reopened"}

\* Adding at most one element to a set with room left keeps it within its bound.
LEMMA RoomForOne ==
    ASSUME NEW A, NEW B, NEW x, NEW bound \in Nat, IsFiniteSet(A),
           \/ B \subseteq A /\ Cardinality(A) <= bound
           \/ B \subseteq A \cup {x} /\ Cardinality(A) < bound
    PROVE  IsFiniteSet(B) /\ Cardinality(B) <= bound
  <1>1. Cardinality(A) \in Nat
    BY FS_CardinalityType
  <1>2. IsFiniteSet(A \cup {x}) /\ Cardinality(A \cup {x}) <= Cardinality(A) + 1
    BY <1>1, FS_AddElement
  <1>3. CASE B \subseteq A /\ Cardinality(A) <= bound
    <2>1. IsFiniteSet(B) /\ Cardinality(B) <= Cardinality(A)
      BY <1>3, FS_Subset
    <2> QED BY <1>1, <1>3, <2>1, FS_CardinalityType
  <1>4. CASE B \subseteq A \cup {x} /\ Cardinality(A) < bound
    <2>1. IsFiniteSet(B) /\ Cardinality(B) <= Cardinality(A \cup {x})
      BY <1>2, <1>4, FS_Subset
    <2>2. Cardinality(B) \in Nat /\ Cardinality(A \cup {x}) \in Nat
      BY <1>2, <2>1, FS_CardinalityType
    <2> QED BY <1>1, <1>2, <1>4, <2>1, <2>2
  <1> QED BY <1>3, <1>4

\* Folding an admissible request keeps every limit that held before.
LEMMA LimitsStep ==
    ASSUME NEW L \in Ledgers, NEW K \in Ledgers, NEW q \in Requests, NEW seq \in Nat,
           Admissible(L, q), K.tasks = FoldTasks(L, q, seq)
    PROVE  /\ \A team \in Teams : OpenCount(L, team) <= max_open
                                    => OpenCount(K, team) <= max_open
           /\ \A r \in Runs :
                IsFiniteSet(Allocations(L, r)) /\ Cardinality(Allocations(L, r)) <= max_tasks_per_run
                => IsFiniteSet(Allocations(K, r)) /\ Cardinality(Allocations(K, r)) <= max_tasks_per_run
           /\ \A t \in TaskIds :
                /\ L.tasks[t].assignments <= max_assignments_per_task
                /\ L.tasks[t].turns <= max_turns_per_task
                => /\ K.tasks[t].assignments <= max_assignments_per_task
                   /\ K.tasks[t].turns <= max_turns_per_task
  <1>1. /\ Foldable(L, q)
        /\ L.tasks \in [TaskIds -> FoldedTasks] /\ K.tasks \in [TaskIds -> FoldedTasks]
    BY DEF Admissible, Ledgers
  <1>2. \A t \in TaskIds : TaskMoved(L, q, seq, t, K.tasks[t])
    BY <1>1, FoldShape
  <1>3. Hands(q) => /\ OpenCount(L, q.team) < max_open
                    /\ Cardinality(Allocations(L, q.run)) < max_tasks_per_run
    BY DEF Hands, Admissible, RoomFor
  \* What a step can do to a task, field by field.
  <1>4. ASSUME NEW t \in TaskIds
        PROVE  \/ K.tasks[t] = L.tasks[t]
               \/ /\ K.tasks[t].run = L.tasks[t].run /\ K.tasks[t].team = L.tasks[t].team
                  /\ K.tasks[t].assignments = L.tasks[t].assignments
                  /\ K.tasks[t].state \in OPEN_LIMIT => L.tasks[t].state \in OPEN_LIMIT
                  /\ \/ K.tasks[t].turns = L.tasks[t].turns
                     \/ /\ K.tasks[t].turns = L.tasks[t].turns + 1
                        /\ L.tasks[t].turns < max_turns_per_task
               \/ /\ q.type = "task.created" /\ t = q.task
                  /\ K.tasks[t].run = q.run /\ K.tasks[t].team = q.team
                  /\ K.tasks[t].assignments = 1 /\ K.tasks[t].turns = 0
               \/ /\ q.type \in {"task.reassigned", "task.reopened"} /\ t = q.task
                  /\ L.tasks[t].run = q.run /\ L.tasks[t].team = q.team
                  /\ K.tasks[t].run = q.run /\ K.tasks[t].team = q.team
                  /\ L.tasks[t].assignments < max_assignments_per_task
                  /\ K.tasks[t].assignments = L.tasks[t].assignments + 1
                  /\ K.tasks[t].turns = 0
    <2>1. CASE K.tasks[t] = [L.tasks[t] EXCEPT !.state = "CANCELLED", !.state_seq = seq]
      BY <1>1, <2>1 DEF FoldedTasks, OPEN_LIMIT
    <2>2. CASE q.type = "task.created" /\ t = q.task /\ K.tasks[t] = base_task(q, seq)
      BY <2>2 DEF base_task
    <2>3. CASE /\ q.type \notin {"run.requested", "run.closed", "task.created"}
               /\ t = q.task /\ FoldsTaskEvent(L, q)
               /\ q.type = "task.reported" => q.report # None
               /\ K.tasks[t] = Touch(L.tasks[t], StepTask(L.tasks[t], q), seq)
      <3> DEFINE old == L.tasks[t]
                 new == K.tasks[t]
      <3>1. /\ new.run = old.run /\ new.team = old.team
            /\ q.type \in {"task.reassigned", "task.reopened"} =>
                 new.turns = 0 /\ new.assignments = old.assignments + 1
            /\ q.type \notin {"task.reassigned", "task.reopened"} =>
                 /\ new.assignments = old.assignments
                 /\ new.state \in OPEN_LIMIT => old.state \in OPEN_LIMIT
                 /\ new.turns = old.turns \/ new.turns = old.turns + 1
                 /\ new.turns # old.turns => q.type = "task.reported" /\ q.report = "progress"
        BY <1>1, <2>3, StepFields
      <3>2. old.run = q.run /\ old.team = q.team
        BY <2>3 DEF FoldsTaskEvent
      <3>3. q.type \in {"task.reassigned", "task.reopened"} =>
              old.assignments < max_assignments_per_task
        BY <2>3 DEF Admissible
      <3>4. q.type = "task.reported" /\ q.report = "progress" => old.turns < max_turns_per_task
        BY <2>3 DEF Admissible
      <3> HIDE DEF old, new
      <3>5. CASE q.type \in {"task.reassigned", "task.reopened"}
        BY <2>3, <3>1, <3>2, <3>3, <3>5 DEF old, new
      <3>6. CASE q.type \notin {"task.reassigned", "task.reopened"}
        BY <3>1, <3>4, <3>6 DEF old, new
      <3> QED BY <3>5, <3>6
    <2> QED BY <1>2, <2>1, <2>2, <2>3 DEF TaskMoved
  <1>5. ASSUME NEW team \in Teams, OpenCount(L, team) <= max_open
        PROVE  OpenCount(K, team) <= max_open
    <2> DEFINE A == {t \in TaskIds : L.tasks[t].state \in OPEN_LIMIT /\ L.tasks[t].team = team}
               B == {t \in TaskIds : K.tasks[t].state \in OPEN_LIMIT /\ K.tasks[t].team = team}
    <2>1. IsFiniteSet(A)
      BY TaskIdsFinite, FS_Subset
    <2>2. (Hands(q) /\ team = q.team /\ B \subseteq A \cup {q.task}) \/ B \subseteq A
      BY <1>4 DEF Hands
    <2>3. Cardinality(A) <= max_open /\ (Hands(q) /\ team = q.team => Cardinality(A) < max_open)
      BY <1>3, <1>5 DEF OpenCount
    <2> HIDE DEF A, B
    <2>4. Cardinality(B) <= max_open
      BY <2>1, <2>2, <2>3, RoomForOne, LimitsAssumption
    <2> QED BY <2>4 DEF OpenCount, B
  <1>6. ASSUME NEW r \in Runs, IsFiniteSet(Allocations(L, r)),
               Cardinality(Allocations(L, r)) <= max_tasks_per_run
        PROVE  IsFiniteSet(Allocations(K, r)) /\ Cardinality(Allocations(K, r)) <= max_tasks_per_run
    <2> DEFINE A == Allocations(L, r)
               B == Allocations(K, r)
               x == <<q.task, K.tasks[q.task].assignments>>
    <2>1. \A M : Allocations(M, r) =
            {p \in TaskIds \X Int : /\ M.tasks[p[1]].run = r
                                   /\ p[2] \in 1 .. M.tasks[p[1]].assignments}
      BY DEF Allocations
    <2>2. (Hands(q) /\ r = q.run /\ B \subseteq A \cup {x}) \/ B \subseteq A
      <3>1. ASSUME NEW p \in B, p \notin A
            PROVE  Hands(q) /\ r = q.run /\ p = x
        <4>1. PICK t \in TaskIds, n \in Int : p = <<t, n>>
          BY <2>1, <3>1
        <4>2. /\ K.tasks[t].run = r /\ n \in 1 .. K.tasks[t].assignments
              /\ ~(L.tasks[t].run = r /\ n \in 1 .. L.tasks[t].assignments)
          BY <2>1, <3>1, <4>1
        <4>3. L.tasks[t].assignments \in Nat /\ K.tasks[t].assignments \in Nat
          BY <1>1 DEF FoldedTasks
        <4> QED BY <1>4, <4>1, <4>2, <4>3 DEF Hands
      <3> QED BY <3>1
    <2>3. Hands(q) /\ r = q.run => Cardinality(A) < max_tasks_per_run
      BY <1>3
    <2> HIDE DEF A, B, x
    <2>4. IsFiniteSet(B) /\ Cardinality(B) <= max_tasks_per_run
      BY <1>6, <2>2, <2>3, RoomForOne, LimitsAssumption DEF A
    <2> QED BY <2>4 DEF B
  <1>7. ASSUME NEW t \in TaskIds, L.tasks[t].assignments <= max_assignments_per_task,
               L.tasks[t].turns <= max_turns_per_task
        PROVE  /\ K.tasks[t].assignments <= max_assignments_per_task
               /\ K.tasks[t].turns <= max_turns_per_task
    <2>1. /\ L.tasks[t].assignments \in Nat /\ L.tasks[t].turns \in Nat
          /\ K.tasks[t].assignments \in Nat /\ K.tasks[t].turns \in Nat
      BY <1>1 DEF FoldedTasks
    <2> QED BY <1>4, <1>7, <2>1, LimitsAssumption
  <1> QED BY <1>5, <1>6, <1>7

\* A run nobody requested has no team.
UnrequestedRuns == \A r \in Runs : ledger.runs[r].state = "NONE" => ledger.runs[r].team = None

\* Folding a request keeps tasks in their teams.
LEMMA TeamsStep ==
    ASSUME TypeOK, TypeOK', DecisionsStand, TeamsApart, UnrequestedRuns,
           NEW w \in Writers, Commit(w), ledger' # ledger
    PROVE  TeamsApart' /\ UnrequestedRuns'
  <1> DEFINE q == req[w]
             seq == Len(stream) + 1
  <1>1. /\ q \in Requests /\ Admissible(ledger, q) /\ Foldable(ledger, q)
        /\ ledger'.runs = FoldRuns(ledger, q)
        /\ ledger'.tasks = FoldTasks(ledger, q, seq)
    BY CommitShape
  <1>2. /\ ledger \in Ledgers /\ ledger' \in Ledgers /\ seq \in Nat
        /\ q.run \in Runs /\ q.team \in Teams /\ ledger.runs \in [Runs -> FoldedRuns]
        /\ ledger.tasks \in [TaskIds -> FoldedTasks]
    BY <1>1 DEF TypeOK, Ledgers, Requests
  <1> HIDE DEF q, seq
  \* A run that exists goes on existing and keeps its team.
  <1>3. \A r \in Runs :
          /\ ledger.runs[r].state # "NONE" =>
               /\ ledger'.runs[r].state # "NONE"
               /\ ledger'.runs[r].team = ledger.runs[r].team
          /\ ledger'.runs[r].state = "NONE" => ledger'.runs[r].team = ledger.runs[r].team
    BY <1>1, <1>2 DEF FoldRuns, Foldable, FoldsRunRequest, FoldsRunClose, ClosedState,
                      FoldedRuns
  <1>4. UnrequestedRuns'
    BY <1>3 DEF UnrequestedRuns
  <1>5. ASSUME NEW t \in TaskIds, ledger'.tasks[t].state # "NONE"
        PROVE  /\ ledger'.tasks[t].run \in Runs
               /\ ledger'.runs[ledger'.tasks[t].run].team = ledger'.tasks[t].team
               /\ ledger'.tasks[t].assignee \in Agents
               /\ TeamOf[ledger'.tasks[t].assignee] = ledger'.tasks[t].team
    <2> DEFINE old == ledger.tasks[t]
               new == ledger'.tasks[t]
    <2>1. old \in FoldedTasks /\ TaskMoved(ledger, q, seq, t, new)
      BY <1>1, <1>2, FoldShape
    <2>2. /\ old.state # "NONE" =>
               /\ old.run \in Runs /\ ledger.runs[old.run].team = old.team
               /\ old.assignee \in Agents /\ TeamOf[old.assignee] = old.team
      BY DEF TeamsApart
    <2>3. old.state # "NONE" => old.team \in Teams /\ ledger.runs[old.run].state # "NONE"
      BY <2>2, RegistryAssumption, NoneAssumption DEF UnrequestedRuns
    \* Where the task keeps run, team and worker, nothing changes.
    <2>4. ASSUME old.state # "NONE", new.run = old.run, new.team = old.team,
                 new.assignee = old.assignee
          PROVE  /\ new.run \in Runs /\ ledger'.runs[new.run].team = new.team
                 /\ new.assignee \in Agents /\ TeamOf[new.assignee] = new.team
      BY <1>3, <2>2, <2>3, <2>4
    <2>5. CASE new = old
      BY <1>5, <2>4, <2>5
    <2>6. CASE /\ q.type = "run.closed" /\ t \in OpenTasks(ledger, q.run)
               /\ new = [old EXCEPT !.state = "CANCELLED", !.state_seq = seq]
      <3>1. old.state # "NONE"
        BY <2>6 DEF OpenTasks, NONTERMINAL
      <3>2. new.run = old.run /\ new.team = old.team /\ new.assignee = old.assignee
        BY <2>1, <2>6 DEF FoldedTasks
      <3> QED BY <2>4, <3>1, <3>2
    <2>7. CASE q.type = "task.created" /\ new = base_task(q, seq)
      <3>1. new.run = q.run /\ new.team = q.team /\ new.assignee = q.assignee
        BY <2>7 DEF base_task
      <3>2. ledger.runs[q.run].state # "NONE" /\ ledger.runs[q.run].team = q.team
        BY <1>1, <2>7 DEF Foldable, FoldsCreate, FoldsTaskEvent
      <3>3. q.assignee \in Agents /\ TeamOf[q.assignee] = q.team
        BY <1>1, <2>7 DEF Admissible
      <3> QED BY <1>2, <1>3, <3>1, <3>2, <3>3
    <2>8. CASE /\ q.type \notin {"run.requested", "run.closed", "task.created"}
               /\ t = q.task /\ FoldsTaskEvent(ledger, q)
               /\ q.type = "task.reported" => q.report # None
               /\ new = Touch(old, StepTask(old, q), seq)
      <3>1. /\ new.run = old.run /\ new.team = old.team
            /\ q.type \in {"task.reassigned", "task.reopened"} => new.assignee = q.assignee
            /\ q.type \notin {"task.reassigned", "task.reopened"} => new.assignee = old.assignee
        BY <1>1, <1>2, <2>1, <2>8, StepFields
      <3>2. old.state # "NONE" /\ old.team = q.team
        BY <2>8 DEF FoldsTaskEvent
      <3>3. CASE q.type \notin {"task.reassigned", "task.reopened"}
        BY <2>4, <3>1, <3>2, <3>3
      <3>4. CASE q.type \in {"task.reassigned", "task.reopened"}
        <4>1. q.assignee \in Agents /\ TeamOf[q.assignee] = q.team
          BY <1>1, <3>4 DEF Admissible
        <4>2. new.run \in Runs /\ ledger'.runs[new.run].team = new.team
          BY <1>3, <2>2, <2>3, <3>1, <3>2
        <4> QED BY <3>1, <3>2, <3>4, <4>1, <4>2
      <3> QED BY <3>3, <3>4
    <2> QED BY <2>1, <2>5, <2>6, <2>7, <2>8 DEF TaskMoved
  <1> QED BY <1>4, <1>5 DEF TeamsApart

\* Tasks stay in their own team: in a run of the team, with a worker of the
\* team, whatever other teams' members and leads request.
THEOREM TeamsKeptApart == Spec => []TeamsApart
  <1>1. Init => TeamsApart /\ UnrequestedRuns
    BY DEF Init, EmptyLedger, NoTask, NoRun, TeamsApart, UnrequestedRuns
  <1>2. TypeOK /\ TypeOK' /\ DecisionsStand /\ TeamsApart /\ UnrequestedRuns /\ [Next]_vars
          => TeamsApart' /\ UnrequestedRuns'
    <2>1. ASSUME ledger' = ledger, TeamsApart, UnrequestedRuns
          PROVE  TeamsApart' /\ UnrequestedRuns'
      BY <2>1 DEF TeamsApart, UnrequestedRuns
    <2> QED BY <2>1, OnlyCommitWrites, TeamsStep
  <1> QED BY <1>1, <1>2, TypeCorrect, DecisionsAlwaysStand, PTL DEF Spec

\* The delegation limits hold for any number of concurrent writers.
THEOREM LimitsAlwaysRespected == Spec => []LimitsRespected
  <1> DEFINE Finite == \A r \in Runs : IsFiniteSet(Allocations(ledger, r))
  <1>1. Init => LimitsRespected /\ Finite
    <2> SUFFICES ASSUME Init PROVE LimitsRespected /\ Finite
      OBVIOUS
    <2>1. \A r \in Runs : Allocations(ledger, r) = {}
      BY NoneAssumption DEF Init, EmptyLedger, NoTask, Allocations
    <2>2. \A team \in Teams :
            {t \in TaskIds : /\ ledger.tasks[t].state \in OPEN_LIMIT
                            /\ ledger.tasks[t].team = team} = {}
      BY DEF Init, EmptyLedger, NoTask, OPEN_LIMIT
    <2>3. \A team \in Teams : OpenCount(ledger, team) = 0
      BY <2>2, FS_EmptySet DEF OpenCount
    <2>4. \A t \in TaskIds : ledger.tasks[t].assignments = 0 /\ ledger.tasks[t].turns = 0
      BY DEF Init, EmptyLedger, NoTask
    <2> QED BY <2>1, <2>3, <2>4, FS_EmptySet, LimitsAssumption DEF LimitsRespected
  <1>2. TypeOK /\ TypeOK' /\ DecisionsStand /\ LimitsRespected /\ Finite /\ [Next]_vars
          => LimitsRespected' /\ Finite'
    <2> SUFFICES ASSUME TypeOK, TypeOK', DecisionsStand, LimitsRespected, Finite, [Next]_vars
                 PROVE  LimitsRespected' /\ Finite'
      OBVIOUS
    <2>1. CASE ledger' = ledger
      BY <2>1 DEF LimitsRespected
    <2>2. ASSUME NEW w \in Writers, Commit(w), ledger' # ledger
          PROVE  LimitsRespected' /\ Finite'
      <3>1. /\ req[w] \in Requests /\ Admissible(ledger, req[w])
            /\ ledger'.tasks = FoldTasks(ledger, req[w], Len(stream) + 1)
        BY <2>2, CommitShape
      <3>2. ledger \in Ledgers /\ ledger' \in Ledgers /\ Len(stream) + 1 \in Nat
        BY DEF TypeOK
      <3> QED BY <3>1, <3>2, LimitsStep DEF LimitsRespected
    <2> QED BY <2>1, <2>2, OnlyCommitWrites
  <1> QED BY <1>1, <1>2, TypeCorrect, DecisionsAlwaysStand, PTL DEF Spec

\* Every created task keeps the complete body its record was requested with.
THEOREM BodiesOnRecord == Spec => []BodyOnRecord
  <1>1. Init => BodyOnRecord
    BY DEF Init, BodyOnRecord
  <1>2. TypeOK /\ DecisionsStand /\ BodyOnRecord /\ [Next]_vars => BodyOnRecord'
    <2> SUFFICES ASSUME TypeOK, DecisionsStand, BodyOnRecord, [Next]_vars
                 PROVE  BodyOnRecord'
      OBVIOUS
    <2>1. \A i \in DOMAIN stream : stream[i].kind = "task.created" =>
            /\ stream[i].req.task \in TaskIds
            /\ bodies[stream[i].req.task] \in Bodies
      <3> SUFFICES ASSUME NEW i \in DOMAIN stream, stream[i].kind = "task.created"
                   PROVE  /\ stream[i].req.task \in TaskIds
                          /\ bodies[stream[i].req.task] \in Bodies
        OBVIOUS
      <3> DEFINE q == stream[i].req
      <3>1. q \in Requested /\ stream[i] = acceptance(q)
        BY DEF DecisionsStand
      <3>2. q.type = "task.created" /\ q \in Requests /\ WellFormed(q)
        BY <3>1, RequestedAssumption DEF acceptance
      <3>3. q.body \in Bodies /\ q.task \in TaskIds
        BY <3>2 DEF WellFormed, Requests, TaskIds
      <3> QED BY <3>3 DEF BodyOnRecord
    <2>2. ASSUME NEW w \in Writers, Commit(w) PROVE BodyOnRecord'
      <3>1. /\ verdict[w] \in Events /\ verdict[w].req = req[w] /\ bodies' = bodies
            /\ verdict[w].kind = "task.created" => bodies[req[w].task] = req[w].body
        BY <2>2 DEF Commit, DecisionsStand, DecisionStands
      <3>2. /\ \A i \in DOMAIN stream : i \in DOMAIN stream' /\ stream'[i] = stream[i]
            /\ stream'[Len(stream) + 1] = verdict[w]
            /\ \A i \in DOMAIN stream' : i \in DOMAIN stream \/ i = Len(stream) + 1
        BY <2>2, <3>1, PriorsGrow DEF Commit, TypeOK
      <3> QED BY <3>1, <3>2 DEF BodyOnRecord
    <2>3. ASSUME NEW w \in Writers, WriteBody(w) PROVE BodyOnRecord'
      <3>1. \A t \in TaskIds : bodies[t] \in Bodies => bodies'[t] = bodies[t]
        BY <2>3, NoneAssumption DEF WriteBody, TypeOK
      <3> QED BY <2>1, <2>3, <3>1 DEF BodyOnRecord, WriteBody
    <2>4. ASSUME NEW w \in Writers, FillBody(w) \/ BodyFails(w) PROVE BodyOnRecord'
      <3>1. pc[w] = "fill" => bodies[req[w].task] = "partial"
        BY <2>4 DEF DecisionsStand, DecisionStands
      <3>2. \A t \in TaskIds : bodies[t] \in Bodies => bodies'[t] = bodies[t]
        BY <2>4, <3>1, BodiesAssumption DEF FillBody, BodyFails, TypeOK
      <3> QED BY <2>1, <2>4, <3>2 DEF BodyOnRecord, FillBody, BodyFails
    <2>5. CASE UNCHANGED <<stream, bodies>>
      BY <2>5 DEF BodyOnRecord
    <2>6. \/ UNCHANGED <<stream, bodies>>
          \/ \E w \in Writers : Commit(w) \/ WriteBody(w) \/ FillBody(w) \/ BodyFails(w)
      BY DEF Next, Step, vars, Submit, Acquire, LockTimeout, Replay, Decide,
             Reply, Exit, Kill, Forget, SetLead
    <2> QED BY <2>2, <2>3, <2>4, <2>5, <2>6
  <1> QED BY <1>1, <1>2, TypeCorrect, DecisionsAlwaysStand, PTL DEF Spec
=============================================================================
