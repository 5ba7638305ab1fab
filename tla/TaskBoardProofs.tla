-------------------------- MODULE TaskBoardProofs ---------------------------
(***************************************************************************)
(* What the task ledger's writers promise to those outside the lock, for   *)
(* every value of the constants: a caller's answer tells what is on        *)
(* record, a token protects what its sender saw, and the folded ledger     *)
(* implements the task board.                                              *)
(***************************************************************************)
EXTENDS TaskLedgerProofs

-----------------------------------------------------------------------------
(***************************************************************************)
(* Answers.                                                                *)
(***************************************************************************)

\* The request's own event is on record under its causation id.
OnRecord(w) ==
    \E i \in DOMAIN stream : /\ stream[i].req.cause = req[w].cause
                             /\ stream[i].kind = req[w].type
                             /\ stream[i].req.task = req[w].task

AnswerTrue(w) ==
    (pc[w] = "answered" /\ answer[w].rc # 75 /\ req[w].type # "task.rejected") =>
        (answer[w].rc = 0 <=> OnRecord(w))

\* A writer's answer stays true while others go on: whatever they append
\* carries another causation id.
LEMMA AnswerStaysTrue ==
    ASSUME TypeOK, DecisionsStand, NEW w \in Writers, NEW v \in Writers, Commit(w),
           AnswerTrue(v)
    PROVE  AnswerTrue(v)'
  <1>1. /\ verdict[w] \in Events /\ verdict[w].req = req[w]
        /\ Priors(req[w].cause) = {}
    BY DEF Commit, DecisionsStand, DecisionStands
  <1>2. /\ \A i \in DOMAIN stream : i \in DOMAIN stream' /\ stream'[i] = stream[i]
        /\ stream'[Len(stream) + 1] = verdict[w]
        /\ \A i \in DOMAIN stream' : i \in DOMAIN stream \/ i = Len(stream) + 1
    BY <1>1, PriorsGrow DEF Commit, TypeOK
  <1>3. req' = req /\ answer' = answer /\ (pc'[v] = "answered" => pc[v] = "answered")
    BY DEF Commit, TypeOK
  <1> SUFFICES ASSUME pc[v] = "answered", answer[v].rc # 75
               PROVE  OnRecord(v)' <=> OnRecord(v)
    BY <1>3 DEF AnswerTrue
  <1>4. Priors(req[v].cause) # {}
    BY DEF DecisionsStand, DecisionStands
  <1>5. req[v].cause # req[w].cause
    BY <1>1, <1>4
  <1> QED BY <1>1, <1>2, <1>3, <1>5 DEF OnRecord

\* The answer of a replayed decision and of one made now.
LEMMA AnswerGiven ==
    ASSUME TypeOK, DecisionsStand, OneRecordPerCause, NEW w \in Writers,
           Replay(w) \/ Reply(w)
    PROVE  AnswerTrue(w)'
  <1> SUFFICES ASSUME req[w].type # "task.rejected"
               PROVE  answer'[w].rc = 0 <=> OnRecord(w)
    <2>1. req' = req /\ stream' = stream
      BY DEF Replay, Reply
    <2> QED BY <2>1 DEF AnswerTrue, OnRecord
  <1>1. CASE Replay(w)
    <2> DEFINE i == FirstPrior(req[w].cause)
               e == stream[i]
    <2>1. PICK j \in DOMAIN stream : stream[j].req.cause = req[w].cause
      BY <1>1 DEF Replay, Priors
    <2>2. Priors(req[w].cause) = {j}
      BY <2>1 DEF Priors, OneRecordPerCause
    <2>3. j \in Nat
      BY <2>1 DEF TypeOK
    <2>4. i = j
      BY <2>2, <2>3 DEF FirstPrior
    <2>5. answer'[w] = causation_replay(stream[j], req[w])
      BY <1>1, <2>4 DEF Replay, TypeOK
    <2>6. answer'[w].rc = 0 <=> SameRequest(stream[j], req[w]) /\ stream[j].kind # "task.rejected"
      BY <2>5 DEF causation_replay
    <2>7. OnRecord(w) <=> stream[j].kind = req[w].type /\ stream[j].req.task = req[w].task
      BY <2>1, <2>2 DEF OnRecord, Priors
    <2> QED BY <2>6, <2>7 DEF SameRequest
  <1>2. CASE Reply(w)
    <2>1. /\ verdict[w].req = req[w]
          /\ verdict[w].kind # "task.rejected" => verdict[w] = acceptance(req[w])
          /\ \E j \in DOMAIN stream : stream[j] = verdict[w]
      BY <1>2 DEF Reply, DecisionsStand, DecisionStands
    <2>2. PICK j \in DOMAIN stream : stream[j] = verdict[w]
      BY <2>1
    <2>3. answer'[w].rc = 0 <=> verdict[w].kind # "task.rejected"
      BY <1>2 DEF Reply, ExitStatus, TypeOK
    <2>4. OnRecord(w) <=> stream[j].kind = req[w].type /\ stream[j].req.task = req[w].task
      BY <2>1, <2>2 DEF OnRecord, OneRecordPerCause
    <2> QED BY <2>1, <2>2, <2>3, <2>4 DEF acceptance
  <1> QED BY <1>1, <1>2

\* Answers are true: rc 0 exactly when the request's event is on record,
\* whether it was recorded now, by an earlier call that lost its answer, or by
\* another writer.
THEOREM AnswersOnRecord == Spec => []AnswerOnRecord
  <1> DEFINE True == \A w \in Writers : AnswerTrue(w)
  <1>1. Init => True
    BY DEF Init, AnswerTrue
  <1>2. TypeOK /\ DecisionsStand /\ OneRecordPerCause /\ True /\ [Next]_vars => True'
    <2> SUFFICES ASSUME TypeOK, DecisionsStand, OneRecordPerCause, True, [Next]_vars,
                        NEW v \in Writers
                 PROVE  AnswerTrue(v)'
      OBVIOUS
    <2>1. ASSUME NEW w \in Writers, Commit(w) PROVE AnswerTrue(v)'
      BY <2>1, AnswerStaysTrue
    <2>2. CASE Replay(v) \/ Reply(v)
      BY <2>2, AnswerGiven
    <2>3. CASE stream' = stream /\ pc'[v] # "answered"
      BY <2>3 DEF AnswerTrue
    <2>4. CASE stream' = stream /\ pc'[v] = pc[v] /\ req'[v] = req[v] /\ answer'[v] = answer[v]
      BY <2>4 DEF AnswerTrue, OnRecord
    <2>5. CASE answer'[v].rc = 75
      BY <2>5 DEF AnswerTrue
    <2>6. CASE LockTimeout(v)
      <3>1. answer'[v].rc = 75
        BY <2>6 DEF LockTimeout, TypeOK
      <3> QED BY <2>5, <3>1
    <2>7. ASSUME NEW w \in Writers, w # v,
                 \/ \E q \in Requested : Submit(w, q)
                 \/ Acquire(w) \/ LockTimeout(w) \/ Replay(w) \/ Decide(w)
                 \/ WriteBody(w) \/ FillBody(w) \/ BodyFails(w) \/ Reply(w) \/ Exit(w)
                 \/ Kill(w)
          PROVE  AnswerTrue(v)'
      BY <2>4, <2>7 DEF TypeOK, Submit, Acquire, LockTimeout, Replay, Decide, WriteBody,
                        FillBody, BodyFails, Reply, Exit, Kill, Forget
    <2>8. ASSUME \/ \E q \in Requested : Submit(v, q)
                 \/ Acquire(v) \/ Decide(v) \/ WriteBody(v) \/ FillBody(v)
                 \/ BodyFails(v) \/ Exit(v) \/ Kill(v)
          PROVE  AnswerTrue(v)'
      <3>1. stream' = stream /\ pc'[v] # "answered"
        BY <2>8 DEF TypeOK, Submit, Acquire, Decide, WriteBody, FillBody, BodyFails, Exit,
                    Kill, Forget
      <3> QED BY <2>3, <3>1
    <2>9. CASE UNCHANGED vars \/ \E team \in Teams, uid \in Agents : SetLead(team, uid)
      BY <2>4, <2>9 DEF vars, SetLead
    <2> QED BY <2>1, <2>2, <2>6, <2>7, <2>8, <2>9 DEF Next, Step
  <1>3. True => AnswerOnRecord
    BY DEF AnswerTrue, OnRecord, AnswerOnRecord
  <1> QED BY <1>1, <1>2, <1>3, TypeCorrect, DecisionsAlwaysStand, CausesAreUnique, PTL DEF Spec
-----------------------------------------------------------------------------
(***************************************************************************)
(* Tokens.  A token is the state_seq its sender read without the lock.     *)
(* Every change of a task's state or worker takes the next sequence number *)
(* as state_seq, so an equal number means an unchanged task.               *)
(***************************************************************************)

\* No task carries the sequence number of a record still to come.
SeqsPast == \A t \in TaskIds : ledger.tasks[t].state_seq <= Len(stream)

Sends(w) == pc[w] # "idle" /\ req[w].expect

\* What the sender of a token saw is still so, or the number has moved on.
TokenFits(w) ==
    LET task == ledger.tasks[req[w].task]
    IN  Sends(w) =>
          /\ seen[w].state # "NONE"
          /\ seen[w].state_seq <= Len(stream)
          /\ task.state_seq = seen[w].state_seq =>
               /\ task.state = seen[w].state
               /\ task.assignee = seen[w].assignee
               /\ task.assignments = seen[w].assignments

\* An accepted verb's token is still the task's number when it is appended.
TokenChecked(w) ==
    Sends(w) /\ pc[w] = "commit" /\ verdict[w].kind # "task.rejected" =>
        ledger.tasks[req[w].task].state_seq = seen[w].state_seq

TokensHold == SeqsPast /\ \A w \in Writers : TokenFits(w) /\ TokenChecked(w)

\* A task that folding moves takes the record's number or keeps state, worker
\* and assignments.
LEMMA MovesCount ==
    ASSUME NEW L \in Ledgers, NEW q \in Requests, NEW seq \in Nat, Foldable(L, q),
           NEW t \in TaskIds, NEW new, TaskMoved(L, q, seq, t, new)
    PROVE  \/ new.state_seq = seq
           \/ /\ new.state_seq = L.tasks[t].state_seq
              /\ new.state = L.tasks[t].state
              /\ new.assignee = L.tasks[t].assignee
              /\ new.assignments = L.tasks[t].assignments
  <1> DEFINE old == L.tasks[t]
  <1>1. old \in FoldedTasks
    BY DEF Ledgers
  <1>2. CASE new = old
    BY <1>2
  <1>3. CASE new = [old EXCEPT !.state = "CANCELLED", !.state_seq = seq]
    BY <1>1, <1>3 DEF FoldedTasks
  <1>4. CASE new = base_task(q, seq)
    BY <1>4 DEF base_task
  <1>5. CASE /\ q.type \notin {"run.requested", "run.closed", "task.created"}
             /\ t = q.task
             /\ q.type = "task.reported" => q.report # None
             /\ new = Touch(old, StepTask(old, q), seq)
    <2> DEFINE mid == StepTask(old, q)
    <2>1. mid.state_seq = old.state_seq /\ DOMAIN mid = DOMAIN old
      BY <1>1, <1>5 DEF StepTask, FoldedTasks
    <2>2. \/ new.state_seq = seq
          \/ new = mid /\ mid.state = old.state /\ mid.assignee = old.assignee
      BY <1>1, <1>5, <2>1 DEF Touch, FoldedTasks
    <2>3. CASE q.type \in {"task.reassigned", "task.reopened"}
      <3>1. mid.state = "ASSIGNED"
        BY <1>1, <2>3 DEF StepTask, FoldedTasks
      <3>2. old.state \in {"BLOCKED", "FAILED"}
        BY <1>5, <2>3 DEF Foldable, FoldsAssign
      <3> QED BY <2>2, <3>1, <3>2
    <2>4. CASE q.type \notin {"task.reassigned", "task.reopened"}
      <3>1. new.assignments = old.assignments
        BY <1>1, <1>5, <2>4, StepFields
      <3> QED BY <2>1, <2>2, <3>1
    <2> QED BY <2>3, <2>4
  <1> QED BY <1>2, <1>3, <1>4, <1>5 DEF TaskMoved

\* decide accepts a request with a token only when the task's number is the
\* token: those who may act without one never send one.
LEMMA DecideChecksToken ==
    ASSUME NEW q \in Requested, NEW L \in Ledgers, NEW ld \in [Teams -> Agents],
           NEW token, q.expect, decide(L, ld, q, token).kind # "task.rejected"
    PROVE  L.tasks[q.task].state_seq = token
  <1>1. /\ q.type \in {"task.cancelled", "task.reassigned", "task.reopened"}
        /\ q.actor.kind # "service"
    BY RequestedAssumption DEF WellFormed
  <1>2. Allowed(L, ld, q) /\ ~Stale(L, ld, q, token)
    BY DEF decide, rejection, engine_rejection
  <1>3. TaskKnown(L, q) /\ (IsHuman(q) \/ IsGateway(q) \/ IsLead(ld, q))
    BY <1>1, <1>2 DEF Allowed, CancelAllowed, AssignAllowed, IsSupervisorOf
  <1> QED BY <1>1, <1>2, <1>3 DEF Stale

\* The sequence numbers seen and checked, through one commit.
LEMMA TokensCommit ==
    ASSUME TypeOK, TypeOK', DecisionsStand, TokensHold, NEW w \in Writers, Commit(w)
    PROVE  TokensHold'
  <1> DEFINE seq == Len(stream) + 1
  <1>1. /\ verdict[w] \in Events /\ lock = w
        /\ pc' = [pc EXCEPT ![w] = "reply"] /\ req' = req /\ seen' = seen
    BY DEF Commit, DecisionsStand, DecisionStands, LockHeld, Holding
  <1>2. Len(stream') = seq /\ Len(stream) \in Nat
    BY <1>1 DEF Commit, TypeOK
  <1>3. \A t \in TaskIds :
          \/ ledger'.tasks[t].state_seq = seq
          \/ /\ ledger'.tasks[t].state_seq = ledger.tasks[t].state_seq
             /\ ledger'.tasks[t].state = ledger.tasks[t].state
             /\ ledger'.tasks[t].assignee = ledger.tasks[t].assignee
             /\ ledger'.tasks[t].assignments = ledger.tasks[t].assignments
    <2>1. CASE ledger' = ledger
      BY <2>1
    <2>2. CASE ledger' # ledger
      <3>1. /\ req[w] \in Requests /\ Foldable(ledger, req[w])
            /\ ledger'.tasks = FoldTasks(ledger, req[w], seq)
        BY <2>2, CommitShape
      <3>2. ledger \in Ledgers /\ seq \in Nat
        BY <1>2 DEF TypeOK
      <3> HIDE DEF seq
      <3> QED BY <3>1, <3>2, FoldShape, MovesCount
    <2> QED BY <2>1, <2>2
  <1>4. \A t \in TaskIds : ledger.tasks[t].state_seq \in Nat
    BY DEF TypeOK, Ledgers, FoldedTasks
  <1>5. SeqsPast'
    BY <1>2, <1>3, <1>4 DEF TokensHold, SeqsPast
  <1>6. ASSUME NEW v \in Writers PROVE TokenFits(v)'
    <2> SUFFICES ASSUME Sends(v) PROVE TokenFits(v)'
      <3>1. pc'[v] # "idle" => pc[v] # "idle"
        BY <1>1 DEF Commit, TypeOK
      <3> QED BY <1>1, <3>1 DEF TokenFits, Sends
    <2>1. req[v].task \in TaskIds
      BY RequestedAssumption DEF Sends, DecisionsStand, DecisionStands, WellFormed, Requests
    <2>2. seen[v].state_seq \in Nat
      BY DEF TypeOK, FoldedTasks
    <2> QED BY <1>1, <1>2, <1>3, <1>4, <2>1, <2>2 DEF TokensHold, TokenFits
  <1>7. ASSUME NEW v \in Writers PROVE TokenChecked(v)'
    <2>1. pc'[v] # "commit"
      BY <1>1 DEF TypeOK, DecisionsStand, LockHeld, Holding
    <2> QED BY <2>1 DEF TokenChecked
  <1> QED BY <1>5, <1>6, <1>7 DEF TokensHold

\* Every step keeps the tokens' meaning.
LEMMA TokensStep ==
    ASSUME TypeOK, TypeOK', DecisionsStand, TokensHold, [Next]_vars
    PROVE  TokensHold'
  <1>1. ASSUME NEW w \in Writers, Commit(w) PROVE TokensHold'
    BY <1>1, TokensCommit
  <1>2. ASSUME UNCHANGED <<stream, ledger>>,
               \A v \in Writers : TokenFits(v)' /\ TokenChecked(v)'
        PROVE  TokensHold'
    BY <1>2 DEF TokensHold, SeqsPast
  \* A writer that moves on with the same request, or not at all.
  <1>3. ASSUME UNCHANGED <<stream, ledger>>, NEW v \in Writers,
               req'[v] = req[v], seen'[v] = seen[v], pc'[v] # "idle" => pc[v] # "idle",
               pc'[v] = "commit" /\ verdict'[v].kind # "task.rejected" /\ req[v].expect =>
                 pc[v] = "commit" /\ verdict'[v] = verdict[v]
        PROVE  TokenFits(v)' /\ TokenChecked(v)'
    BY <1>3 DEF TokensHold, TokenFits, TokenChecked, Sends
  <1>4. ASSUME NEW w \in Writers, NEW q \in Requested, Submit(w, q) PROVE TokensHold'
    <2>1. q.expect => q.task \in TaskIds
      BY RequestedAssumption DEF WellFormed, Requests
    <2>2. TokenFits(w)' /\ TokenChecked(w)'
      BY <1>4, <2>1 DEF Submit, TokensHold, SeqsPast, TokenFits, TokenChecked, Sends, TypeOK
    <2>3. ASSUME NEW v \in Writers, v # w PROVE TokenFits(v)' /\ TokenChecked(v)'
      BY <1>3, <1>4, <2>3 DEF Submit, TypeOK
    <2> QED BY <1>2, <1>4, <2>2, <2>3 DEF Submit
  <1>5. ASSUME NEW w \in Writers, Decide(w) PROVE TokensHold'
    <2> DEFINE e == decide(ledger, lead, req[w], seen[w].state_seq)
    <2>1. req[w] \in Requested /\ ledger \in Ledgers /\ lead \in [Teams -> Agents]
      BY <1>5 DEF Decide, TypeOK, DecisionsStand, DecisionStands
    <2>2. verdict'[w] = e /\ req' = req /\ seen' = seen /\ UNCHANGED <<stream, ledger>>
      BY <1>5 DEF Decide, TypeOK
    <2>3. req[w].expect /\ e.kind # "task.rejected" =>
            ledger.tasks[req[w].task].state_seq = seen[w].state_seq
      BY <2>1, DecideChecksToken
    <2> HIDE DEF e
    <2>4. TokenChecked(w)'
      BY <2>2, <2>3 DEF TokenChecked, Sends
    <2>5. TokenFits(w)'
      BY <1>5, <2>2 DEF TokensHold, TokenFits, Sends, Decide, TypeOK
    <2>6. ASSUME NEW v \in Writers, v # w PROVE TokenFits(v)' /\ TokenChecked(v)'
      BY <1>3, <1>5, <2>6 DEF Decide, TypeOK
    <2> QED BY <1>2, <2>2, <2>4, <2>5, <2>6
  <1>6. ASSUME NEW w \in Writers, WriteBody(w) PROVE TokensHold'
    <2>1. ~req[w].expect
      <3>1. verdict[w].kind = "task.created" /\ verdict[w] = acceptance(req[w])
        BY <1>6 DEF WriteBody, DecisionsStand, DecisionStands
      <3>2. req[w].type = "task.created" /\ req[w] \in Requested
        BY <1>6, <3>1 DEF WriteBody, DecisionsStand, DecisionStands, acceptance
      <3> QED BY <3>2, RequestedAssumption DEF WellFormed
    <2>2. \A v \in Writers : TokenFits(v)' /\ TokenChecked(v)'
      BY <1>3, <1>6, <2>1 DEF WriteBody, TypeOK
    <2> QED BY <1>2, <1>6, <2>2 DEF WriteBody
  <1>7. ASSUME NEW w \in Writers, FillBody(w) \/ BodyFails(w) PROVE TokensHold'
    <2>1. ~req[w].expect
      <3>1. verdict[w].kind = "task.created" /\ verdict[w] = acceptance(req[w])
        BY <1>7 DEF FillBody, BodyFails, DecisionsStand, DecisionStands
      <3>2. req[w].type = "task.created" /\ req[w] \in Requested
        BY <1>7, <3>1 DEF FillBody, BodyFails, DecisionsStand, DecisionStands, acceptance
      <3> QED BY <3>2, RequestedAssumption DEF WellFormed
    <2>2. \A v \in Writers : TokenFits(v)' /\ TokenChecked(v)'
      BY <1>3, <1>7, <2>1 DEF FillBody, BodyFails, TypeOK
    <2> QED BY <1>2, <1>7, <2>2 DEF FillBody, BodyFails
  <1>8. ASSUME NEW w \in Writers, Acquire(w) \/ LockTimeout(w) \/ Replay(w) \/ Reply(w)
        PROVE  TokensHold'
    <2>1. \A v \in Writers : TokenFits(v)' /\ TokenChecked(v)'
      BY <1>3, <1>8 DEF Acquire, LockTimeout, Replay, Reply, TypeOK
    <2> QED BY <1>2, <1>8, <2>1 DEF Acquire, LockTimeout, Replay, Reply
  <1>9. ASSUME NEW w \in Writers, Exit(w) \/ Kill(w) PROVE TokensHold'
    <2>1. TokenFits(w)' /\ TokenChecked(w)'
      BY <1>9 DEF Exit, Kill, Forget, TypeOK, TokenFits, TokenChecked, Sends
    <2>2. ASSUME NEW v \in Writers, v # w PROVE TokenFits(v)' /\ TokenChecked(v)'
      BY <1>3, <1>9, <2>2 DEF Exit, Kill, Forget, TypeOK
    <2> QED BY <1>2, <1>9, <2>1, <2>2 DEF Exit, Kill
  <1>10. CASE UNCHANGED vars \/ \E team \in Teams, uid \in Agents : SetLead(team, uid)
    BY <1>2, <1>3, <1>10 DEF vars, SetLead
  <1> QED BY <1>1, <1>4, <1>5, <1>6, <1>7, <1>8, <1>9, <1>10 DEF Next, Step

\* Optimistic concurrency works: an accepted cancel, reassign or reopen with a
\* token acts on the state, worker and assignment its caller saw, whatever was
\* recorded between the unlocked read and the append.
THEOREM TokensProtect == Spec => ActsOnWhatItSaw
  <1>1. Init => TokensHold
    BY DEF Init, EmptyLedger, NoTask, TokensHold, SeqsPast, TokenFits, TokenChecked, Sends
  <1>2. TypeOK /\ TypeOK' /\ DecisionsStand /\ TokensHold /\ [Next]_vars => TokensHold'
    BY TokensStep
  <1>3. TokensHold =>
          \A w \in Writers :
             (Commit(w) /\ req[w].expect /\ verdict[w].kind # "task.rejected") =>
                 LET task == ledger.tasks[req[w].task]
                 IN  /\ task.state = seen[w].state
                     /\ task.assignee = seen[w].assignee
                     /\ task.assignments = seen[w].assignments
    BY DEF TokensHold, TokenFits, TokenChecked, Sends, Commit
  <1> QED BY <1>1, <1>2, <1>3, TypeCorrect, DecisionsAlwaysStand, PTL DEF Spec, ActsOnWhatItSaw
-----------------------------------------------------------------------------
(***************************************************************************)
(* The task board.  Creation is refused for every gate but "none", so the  *)
(* states QUEUED and REVIEW, which the fold knows, are never reached.      *)
(***************************************************************************)

\* A task nobody created shows nothing; a created one has no gate and never
\* waits for a review.
Plain ==
    \A t \in TaskIds :
        LET task == ledger.tasks[t]
        IN  /\ task.gate = "none"
            /\ task.state \notin {"QUEUED", "REVIEW"}
            /\ task.state = "NONE" => task.run = None /\ task.assignee = None

\* A create on its way to the stream has no gate.
Gateless(w) ==
    pc[w] \in {"body", "fill", "commit"} /\ verdict[w].kind = "task.created" =>
        req[w].gate = "none"

BoardReady == Plain /\ \A w \in Writers : Gateless(w)

\* The states one verb on an existing task moves it between.
LEMMA StepStates ==
    ASSUME NEW task \in FoldedTasks, NEW q \in Requests, NEW seq \in Nat,
           task.gate = "none",
           q.type = "task.reported" => q.report # None
    PROVE  LET new == Touch(task, StepTask(task, q), seq)
           IN  /\ new.gate = "none"
               /\ q.type = "task.started" => new.state = "IN_PROGRESS"
               /\ q.type = "task.reported" =>
                    new.state \in {"IN_PROGRESS", "DONE", "FAILED", "BLOCKED"}
               /\ q.type = "task.cancelled" => new.state = "CANCELLED"
               /\ q.type \in {"task.reassigned", "task.reopened"} => new.state = "ASSIGNED"
               /\ q.type \notin {"task.started", "task.reported", "task.cancelled",
                                 "task.reassigned", "task.reopened"} => new = task
  <1> DEFINE mid == StepTask(task, q)
             new == Touch(task, mid, seq)
  <1>1. /\ mid.gate = task.gate
        /\ q.type = "task.started" => mid.state = "IN_PROGRESS"
        /\ q.type = "task.reported" => mid.state = ReportedState(task, q.report)
        /\ q.type = "task.cancelled" => mid.state = "CANCELLED"
        /\ q.type \in {"task.reassigned", "task.reopened"} => mid.state = "ASSIGNED"
        /\ q.type \notin {"task.started", "task.reported", "task.cancelled",
                          "task.reassigned", "task.reopened"} => mid = task
    BY DEF StepTask, FoldedTasks
  <1>2. q.type = "task.reported" =>
          ReportedState(task, q.report) \in {"IN_PROGRESS", "DONE", "FAILED", "BLOCKED"}
    BY DEF ReportedState, Requests
  <1>3. new.gate = mid.gate /\ new.state = mid.state /\ (mid = task => new = task)
    BY DEF Touch
  <1> QED BY <1>1, <1>2, <1>3

\* The board one task shows.
Shown(task) == [run |-> task.run, worker |-> task.assignee, state |-> task.state]

\* Folding an admissible, gateless request keeps the ledger plain and moves
\* the board by one of its actions, or not at all.
LEMMA BoardMoves ==
    ASSUME TypeOK, TypeOK', DecisionsStand, BoardReady,
           NEW w \in Writers, Commit(w), ledger' # ledger
    PROVE  Plain' /\ [Board!Next]_(Board!boardVars)
  <1> DEFINE q == req[w]
             seq == Len(stream) + 1
             t == q.task
             old == ledger.tasks[t]
             new == ledger'.tasks[t]
  <1>1. /\ q \in Requests /\ Foldable(ledger, q)
        /\ ledger'.runs = FoldRuns(ledger, q)
        /\ ledger'.tasks = FoldTasks(ledger, q, seq)
    BY CommitShape
  <1>2. /\ ledger \in Ledgers /\ ledger' \in Ledgers /\ seq \in Nat
        /\ q.run \in Runs /\ ledger.runs \in [Runs -> FoldedRuns]
        /\ ledger.tasks \in [TaskIds -> FoldedTasks]
    BY <1>1 DEF TypeOK, Ledgers, Requests
  <1>3. q.type = "task.created" => q.gate = "none"
    <2>1. verdict[w] = acceptance(q)
      BY CommitShape
    <2> QED BY <2>1 DEF Commit, BoardReady, Gateless, acceptance
  <1> HIDE DEF q, seq
  <1>4. CASE q.type = "run.requested"
    <2>1. /\ ledger'.tasks = ledger.tasks
          /\ ledger'.runs = [ledger.runs EXCEPT ![q.run] = [team |-> q.team, state |-> "QUEUED"]]
          /\ ledger.runs[q.run].state = "NONE"
      BY <1>1, <1>4 DEF FoldTasks, FoldRuns, Foldable, FoldsRunRequest, FoldsTaskEvent
    <2>2. ShownTasks' = ShownTasks
      BY <2>1 DEF ShownTasks
    <2>3. ShownRuns[q.run] = "NONE" /\ ShownRuns' = [ShownRuns EXCEPT ![q.run] = "OPEN"]
      BY <1>2, <2>1 DEF ShownRuns, FoldedRuns
    <2>4. Board!OpenRun(q.run)
      BY <2>2, <2>3 DEF Board!OpenRun
    <2> QED BY <1>2, <2>1, <2>4 DEF Board!Next, BoardReady, Plain
  <1>5. CASE q.type = "run.closed"
    <2> DEFINE c == ClosedState(q.outcome)
    <2>1. /\ ledger'.tasks = CancelOpenTasks(ledger, q.run, seq)
          /\ ledger'.runs = [ledger.runs EXCEPT ![q.run].state = c]
          /\ ledger.runs[q.run].state \in {"QUEUED", "RUNNING"}
          /\ c \in {"COMPLETED", "FAILED", "CANCELLED"}
          /\ c = "COMPLETED" => OpenTasks(ledger, q.run) = {}
      <3>1. FoldsRunClose(ledger, q)
        BY <1>1, <1>5 DEF Foldable, FoldsTaskEvent
      <3>2. ledger.runs[q.run].state \in {"QUEUED", "RUNNING"}
        BY <1>2, <3>1 DEF FoldsRunClose, FoldedRuns, RunStates, CLOSED_RUN
      <3> QED BY <1>1, <1>5, <3>1, <3>2 DEF FoldTasks, FoldRuns, FoldsRunClose, ClosedState
    <2> HIDE DEF c
    <2>2. ASSUME NEW u \in TaskIds
          PROVE  /\ u \in OpenTasks(ledger, q.run) <=>
                      /\ ledger.tasks[u].run = q.run
                      /\ ledger.tasks[u].state \in {"ASSIGNED", "IN_PROGRESS", "BLOCKED"}
                 /\ u \in OpenTasks(ledger, q.run) =>
                      /\ ledger'.tasks[u].run = ledger.tasks[u].run
                      /\ ledger'.tasks[u].assignee = ledger.tasks[u].assignee
                      /\ ledger'.tasks[u].gate = ledger.tasks[u].gate
                      /\ ledger'.tasks[u].state = "CANCELLED"
                 /\ u \notin OpenTasks(ledger, q.run) => ledger'.tasks[u] = ledger.tasks[u]
      <3>1. ledger.tasks[u].state \notin {"QUEUED", "REVIEW"} /\ ledger.tasks[u] \in FoldedTasks
        BY <1>2 DEF BoardReady, Plain
      <3> QED BY <2>1, <3>1 DEF OpenTasks, NONTERMINAL, CancelOpenTasks, FoldedTasks
    <2>3. Plain'
      BY <2>2 DEF BoardReady, Plain
    <2>4. ShownRuns[q.run] = "OPEN" /\ ShownRuns' = [ShownRuns EXCEPT ![q.run] = c]
      BY <1>2, <2>1 DEF ShownRuns, FoldedRuns
    <2>5. ShownTasks' = [u \in TaskIds |->
                  IF ShownTasks[u].run = q.run /\ ShownTasks[u].state \in Board!Open
                  THEN [ShownTasks[u] EXCEPT !.state = "CANCELLED"] ELSE ShownTasks[u]]
      BY <2>2 DEF ShownTasks, Board!Open
    <2>6. c = "COMPLETED" =>
            \A u \in TaskIds : ShownTasks[u].run = q.run => ShownTasks[u].state \notin Board!Open
      BY <2>1, <2>2 DEF ShownTasks, Board!Open
    <2>7. Board!CloseRun(q.run, c)
      BY <2>4, <2>5, <2>6 DEF Board!CloseRun
    <2> QED BY <1>2, <2>1, <2>3, <2>7 DEF Board!Next
  <1>6. CASE q.type = "task.created"
    <2>1. /\ t \in TaskIds /\ old.state = "NONE" /\ q.assignee \in Agents
          /\ ledger.runs[q.run].state \in {"QUEUED", "RUNNING"}
      BY <1>1, <1>2, <1>6 DEF Foldable, FoldsCreate, FoldsTaskEvent, FoldedRuns, RunStates,
                              CLOSED_RUN
    <2>2. /\ ledger'.tasks = [ledger.tasks EXCEPT ![t] = base_task(q, seq)]
          /\ ledger'.runs = [ledger.runs EXCEPT ![q.run].state = "RUNNING"]
      BY <1>1, <1>6 DEF FoldTasks, FoldRuns
    <2>3. /\ new = base_task(q, seq)
          /\ \A u \in TaskIds : u # t => ledger'.tasks[u] = ledger.tasks[u]
      BY <1>2, <2>1, <2>2
    <2>4. /\ new.run = q.run /\ new.assignee = q.assignee /\ new.state = "ASSIGNED"
          /\ new.gate = "none"
      BY <1>3, <1>6, <2>3 DEF base_task
    <2>5. Plain'
      BY <2>3, <2>4 DEF BoardReady, Plain
    <2>6. ShownRuns[q.run] = "OPEN" /\ ShownRuns' = ShownRuns
      BY <1>2, <2>1, <2>2 DEF ShownRuns, FoldedRuns
    <2>7. ShownTasks[t] = Board!Absent
      BY <2>1 DEF ShownTasks, BoardReady, Plain, Board!Absent
    <2>8. ShownTasks' = [ShownTasks EXCEPT ![t] =
                           [run |-> q.run, worker |-> q.assignee, state |-> "ASSIGNED"]]
      BY <2>1, <2>3, <2>4 DEF ShownTasks
    <2>9. Board!CreateTask(t, q.run, q.assignee)
      BY <2>6, <2>7, <2>8 DEF Board!CreateTask
    <2> QED BY <1>2, <2>1, <2>5, <2>9 DEF Board!Next
  <1>7. CASE q.type \notin {"run.requested", "run.closed", "task.created"}
    <2>1. /\ FoldsTaskEvent(ledger, q) /\ t \in TaskIds /\ old.state # "NONE"
          /\ old.run = q.run /\ old \in FoldedTasks
          /\ ledger.runs[q.run].state \in {"QUEUED", "RUNNING"}
          /\ q.type = "task.reported" => q.report # None
      BY <1>1, <1>2, <1>7, NoneAssumption
         DEF Foldable, FoldsTaskEvent, FoldsReport, FoldedRuns, RunStates, CLOSED_RUN
    <2>2. /\ ledger'.runs = ledger.runs
          /\ ledger'.tasks = [ledger.tasks EXCEPT ![t] = Touch(@, StepTask(@, q), seq)]
      BY <1>1, <1>7 DEF FoldTasks, FoldRuns
    <2>3. /\ new = Touch(old, StepTask(old, q), seq)
          /\ \A u \in TaskIds : u # t => ledger'.tasks[u] = ledger.tasks[u]
      BY <1>2, <2>1, <2>2
    <2>4. old.gate = "none" /\ old.state \notin {"QUEUED", "REVIEW", "NONE"}
      BY <2>1 DEF BoardReady, Plain
    <2>5. /\ new.run = old.run
          /\ q.type \in {"task.reassigned", "task.reopened"} => new.assignee = q.assignee
          /\ q.type \notin {"task.reassigned", "task.reopened"} => new.assignee = old.assignee
      BY <1>1, <1>2, <2>1, <2>3, StepFields
    <2>6. /\ new.gate = "none"
          /\ q.type = "task.started" => new.state = "IN_PROGRESS"
          /\ q.type = "task.reported" =>
               new.state \in {"IN_PROGRESS", "DONE", "FAILED", "BLOCKED"}
          /\ q.type = "task.cancelled" => new.state = "CANCELLED"
          /\ q.type \in {"task.reassigned", "task.reopened"} => new.state = "ASSIGNED"
          /\ q.type \notin {"task.started", "task.reported", "task.cancelled",
                            "task.reassigned", "task.reopened"} => new = old
      BY <1>1, <1>2, <2>1, <2>3, <2>4, StepStates
    <2>7. Plain'
      <3>1. new.state \notin {"QUEUED", "REVIEW", "NONE"}
        BY <2>4, <2>6
      <3> QED BY <2>3, <2>6, <3>1 DEF BoardReady, Plain
    <2>8. ShownRuns' = ShownRuns /\ ShownRuns[q.run] = "OPEN" /\ ShownTasks[t].run = q.run
      BY <1>2, <2>1, <2>2 DEF ShownRuns, ShownTasks
    <2>9. /\ ShownTasks[t] = Shown(old) /\ ShownTasks \in [TaskIds -> {Shown(x) : x \in FoldedTasks}]
          /\ ShownTasks' = [ShownTasks EXCEPT ![t] = Shown(new)]
      BY <1>2, <2>1, <2>3 DEF ShownTasks, Shown
    <2> HIDE DEF t, old, new
    <2>10. ASSUME new.run = old.run, new.assignee = old.assignee
           PROVE  ShownTasks' = [ShownTasks EXCEPT ![t].state = new.state]
      <3>1. Shown(new) = [Shown(old) EXCEPT !.state = new.state]
        BY <2>10 DEF Shown
      <3> QED BY <2>1, <2>9, <3>1
    <2>11. CASE q.type = "task.started"
      <3>1. old.state = "ASSIGNED"
        BY <1>1, <2>11 DEF Foldable, FoldsStart, old, t
      <3>2. ShownTasks[t].state = "ASSIGNED" /\ new.state = "IN_PROGRESS"
        BY <2>6, <2>9, <2>11, <3>1 DEF Shown
      <3>3. ShownTasks' = [ShownTasks EXCEPT ![t].state = "IN_PROGRESS"]
        BY <2>5, <2>10, <2>11, <3>2
      <3>4. Board!StartTask(t)
        BY <1>2, <2>8, <3>2, <3>3 DEF Board!StartTask, Board!Move
      <3> QED BY <2>1, <2>7, <3>4 DEF Board!Next
    <2>12. CASE q.type = "task.reported"
      <3>1. old.state = "IN_PROGRESS"
        BY <1>1, <2>12 DEF Foldable, FoldsReport, old, t
      <3>2. CASE new.state = "IN_PROGRESS"
        <4>1. Shown(new) = Shown(old)
          BY <2>5, <2>12, <3>1, <3>2 DEF Shown
        <4>2. ShownTasks' = ShownTasks
          BY <2>9, <4>1
        <4> QED BY <2>7, <2>8, <4>2 DEF Board!boardVars
      <3>3. CASE new.state \in {"BLOCKED", "FAILED", "DONE"}
        <4>1. Board!ReportTask(t, new.state)
          BY <1>2, <2>5, <2>8, <2>9, <2>10, <2>12, <3>1 DEF Board!ReportTask, Board!Move, Shown
        <4> QED BY <2>1, <2>7, <3>3, <4>1 DEF Board!Next
      <3> QED BY <2>6, <2>12, <3>2, <3>3
    <2>13. CASE q.type = "task.cancelled"
      <3>1. old.state \in {"ASSIGNED", "IN_PROGRESS", "BLOCKED"}
        <4>1. old.state \notin TERMINAL
          BY <1>1, <2>13 DEF Foldable, FoldsCancel, old, t
        <4> QED BY <2>1, <2>4, <4>1 DEF FoldedTasks, TaskStates, TERMINAL, NONTERMINAL
      <3>2. ShownTasks[t].state \in Board!Open /\ new.state = "CANCELLED"
        BY <2>6, <2>9, <2>13, <3>1 DEF Shown, Board!Open
      <3>3. ShownTasks' = [ShownTasks EXCEPT ![t].state = "CANCELLED"]
        BY <2>5, <2>10, <2>13, <3>2
      <3>4. Board!CancelTask(t)
        BY <1>2, <2>8, <3>2, <3>3 DEF Board!CancelTask, Board!Move
      <3> QED BY <2>1, <2>7, <3>4 DEF Board!Next
    <2>14. CASE q.type \in {"task.reassigned", "task.reopened"}
      <3>1. old.state \in {"BLOCKED", "FAILED"} /\ q.assignee \in Agents
        BY <1>1, <2>14 DEF Foldable, FoldsAssign, old, t
      <3>2. Shown(new) = [Shown(old) EXCEPT !.state = "ASSIGNED", !.worker = q.assignee]
        <4>1. new.run = old.run /\ new.assignee = q.assignee /\ new.state = "ASSIGNED"
          BY <2>5, <2>6, <2>14
        <4> DEFINE mid == [Shown(old) EXCEPT !.state = "ASSIGNED"]
        <4>2. mid = [run |-> old.run, worker |-> old.assignee, state |-> "ASSIGNED"]
          BY DEF Shown
        <4>3. [mid EXCEPT !.worker = q.assignee] = Shown(new)
          <5> HIDE DEF mid
          <5> QED BY <4>1, <4>2 DEF Shown
        <4> QED BY <4>3
      <3>3. ShownTasks' = [ShownTasks EXCEPT ![t].state = "ASSIGNED", ![t].worker = q.assignee]
        BY <2>1, <2>9, <3>2
      <3>4. ShownTasks[t].state \in {"BLOCKED", "FAILED"}
        BY <2>9, <3>1 DEF Shown
      <3>5. Board!AssignTask(t, q.assignee)
        BY <1>2, <2>8, <3>3, <3>4 DEF Board!AssignTask
      <3> QED BY <2>1, <2>7, <3>1, <3>5 DEF Board!Next
    <2>15. CASE q.type \notin {"task.started", "task.reported", "task.cancelled",
                               "task.reassigned", "task.reopened"}
      <3>1. ShownTasks' = ShownTasks
        BY <2>6, <2>9, <2>15
      <3> QED BY <2>7, <2>8, <3>1 DEF Board!boardVars
    <2> QED BY <2>11, <2>12, <2>13, <2>14, <2>15
  <1> QED BY <1>4, <1>5, <1>6, <1>7

\* decide refuses every gate.
LEMMA CreatesGateless ==
    ASSUME NEW q, NEW L, NEW ld, NEW token,
           decide(L, ld, q, token).kind = "task.created"
    PROVE  q.gate = "none"
  <1>1. /\ q.type = "task.created" /\ Allowed(L, ld, q)
    BY DEF decide, rejection, engine_rejection, acceptance
  <1> QED BY <1>1 DEF Allowed, CreateAllowed

\* Every step keeps the ledger plain and its creates gateless.
LEMMA BoardReadyStep ==
    ASSUME TypeOK, TypeOK', DecisionsStand, BoardReady, [Next]_vars
    PROVE  BoardReady'
  <1>1. Plain'
    <2>1. CASE ledger' = ledger
      BY <2>1 DEF BoardReady, Plain
    <2>2. CASE ledger' # ledger
      BY <2>2, OnlyCommitWrites, BoardMoves
    <2> QED BY <2>1, <2>2
  <1>2. ASSUME NEW v \in Writers PROVE Gateless(v)'
    <2>1. CASE pc'[v] \notin {"body", "fill", "commit"}
      BY <2>1 DEF Gateless
    <2>2. CASE Decide(v)
      <3>1. /\ req' = req
            /\ verdict'[v] = decide(ledger, lead, req[v], seen[v].state_seq)
        BY <2>2 DEF Decide, TypeOK
      <3> QED BY <3>1, CreatesGateless DEF Gateless
    <2>3. CASE /\ pc[v] \in {"body", "fill", "commit"} /\ req'[v] = req[v]
               /\ verdict'[v].kind = "task.created" => verdict'[v] = verdict[v]
      BY <2>3 DEF BoardReady, Gateless
    <2>4. CASE WriteBody(v) \/ FillBody(v) \/ BodyFails(v)
      <3>1. pc[v] \in {"body", "fill"} /\ req' = req
        BY <2>4 DEF WriteBody, FillBody, BodyFails
      <3>2. verdict'[v].kind = "task.created" => verdict'[v] = verdict[v]
        BY <2>4 DEF WriteBody, FillBody, BodyFails, rejection, TypeOK
      <3> QED BY <2>3, <3>1, <3>2
    <2>5. ASSUME NEW w \in Writers, w # v,
                 \/ \E q \in Requested : Submit(w, q)
                 \/ Step(w) \/ Kill(w)
          PROVE  pc'[v] = pc[v] /\ req'[v] = req[v] /\ verdict'[v] = verdict[v]
      BY <2>5 DEF TypeOK, Step, Submit, Acquire, LockTimeout, Replay, Decide, WriteBody,
                  FillBody, BodyFails, Commit, Reply, Exit, Kill, Forget
    <2>6. CASE \/ \E q \in Requested : Submit(v, q)
               \/ Acquire(v) \/ LockTimeout(v) \/ Replay(v) \/ Commit(v) \/ Reply(v)
               \/ Exit(v) \/ Kill(v)
      <3>1. pc'[v] \notin {"body", "fill", "commit"}
        BY <2>6 DEF TypeOK, Submit, Acquire, LockTimeout, Replay, Commit, Reply, Exit, Kill,
                    Forget
      <3> QED BY <2>1, <3>1
    <2>7. CASE UNCHANGED vars \/ \E team \in Teams, uid \in Agents : SetLead(team, uid)
      BY <2>1, <2>3, <2>7 DEF vars, SetLead
    <2> QED BY <2>1, <2>2, <2>3, <2>4, <2>5, <2>6, <2>7 DEF Next, Step
  <1> QED BY <1>1, <1>2 DEF BoardReady

\* The concurrent, crash-prone writers implement the task board: every append
\* is one of its moves or invisible on it.
THEOREM WritersImplementBoard == Spec => ImplementsBoard
  <1>1. Init => BoardReady /\ Board!Init
    BY DEF Init, EmptyLedger, NoTask, NoRun, BoardReady, Plain, Gateless, Board!Init,
           Board!Absent, ShownRuns, ShownTasks
  <1>2. TypeOK /\ TypeOK' /\ DecisionsStand /\ BoardReady /\ [Next]_vars => BoardReady'
    BY BoardReadyStep
  <1>3. TypeOK /\ TypeOK' /\ DecisionsStand /\ BoardReady /\ [Next]_vars
          => [Board!Next]_(Board!boardVars)
    <2> SUFFICES ASSUME TypeOK, TypeOK', DecisionsStand, BoardReady, [Next]_vars
                 PROVE  [Board!Next]_(Board!boardVars)
      OBVIOUS
    <2>1. CASE ledger' = ledger
      BY <2>1 DEF Board!boardVars, ShownRuns, ShownTasks
    <2>2. CASE ledger' # ledger
      BY <2>2, OnlyCommitWrites, BoardMoves
    <2> QED BY <2>1, <2>2
  <1> QED
    BY <1>1, <1>2, <1>3, TypeCorrect, DecisionsAlwaysStand, PTL
       DEF Spec, ImplementsBoard, Board!Spec
=============================================================================
