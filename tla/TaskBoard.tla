----------------------------- MODULE TaskBoard ------------------------------
(***************************************************************************)
(* What the task ledger promises to whoever looks at its board, without    *)
(* streams, locks, writers or retries: runs open once and close once, a    *)
(* task belongs to one run for good and follows the documented diagram     *)
(*                                                                         *)
(*     ASSIGNED -> IN_PROGRESS -> BLOCKED | FAILED | DONE                  *)
(*     BLOCKED, FAILED -> ASSIGNED                                         *)
(*     ASSIGNED, IN_PROGRESS, BLOCKED -> CANCELLED                         *)
(*                                                                         *)
(* and only while its run is open; closing a run settles all its tasks in  *)
(* the same step, and a run completes only when nothing of it is open.     *)
(***************************************************************************)
CONSTANTS Runs, TaskIds, Agents, None

VARIABLES run,      \* the state of each run
          task      \* the run, worker and state of each task

boardVars == <<run, task>>

Open == {"ASSIGNED", "IN_PROGRESS", "BLOCKED"}

Absent == [run |-> None, worker |-> None, state |-> "NONE"]

Init ==
    /\ run = [r \in Runs |-> "NONE"]
    /\ task = [t \in TaskIds |-> Absent]

OpenRun(r) ==
    /\ run[r] = "NONE"
    /\ run' = [run EXCEPT ![r] = "OPEN"]
    /\ UNCHANGED task

\* Everything of the run that is still open is cancelled with it.
CloseRun(r, outcome) ==
    /\ run[r] = "OPEN"
    /\ outcome = "COMPLETED" =>
         \A t \in TaskIds : task[t].run = r => task[t].state \notin Open
    /\ run' = [run EXCEPT ![r] = outcome]
    /\ task' = [t \in TaskIds |->
                  IF task[t].run = r /\ task[t].state \in Open
                  THEN [task[t] EXCEPT !.state = "CANCELLED"] ELSE task[t]]

CreateTask(t, r, a) ==
    /\ run[r] = "OPEN"
    /\ task[t] = Absent
    /\ task' = [task EXCEPT ![t] = [run |-> r, worker |-> a, state |-> "ASSIGNED"]]
    /\ UNCHANGED run

\* A move of one task while its run is open.
Move(t, from, to) ==
    /\ task[t].run \in Runs
    /\ run[task[t].run] = "OPEN"
    /\ task[t].state \in from
    /\ task' = [task EXCEPT ![t].state = to]
    /\ UNCHANGED run

StartTask(t) == Move(t, {"ASSIGNED"}, "IN_PROGRESS")

ReportTask(t, to) == Move(t, {"IN_PROGRESS"}, to)

CancelTask(t) == Move(t, Open, "CANCELLED")

AssignTask(t, a) ==
    /\ task[t].run \in Runs
    /\ run[task[t].run] = "OPEN"
    /\ task[t].state \in {"BLOCKED", "FAILED"}
    /\ task' = [task EXCEPT ![t].state = "ASSIGNED", ![t].worker = a]
    /\ UNCHANGED run

Next ==
    \/ \E r \in Runs :
         \/ OpenRun(r)
         \/ \E outcome \in {"COMPLETED", "FAILED", "CANCELLED"} : CloseRun(r, outcome)
    \/ \E t \in TaskIds :
         \/ \E r \in Runs, a \in Agents : CreateTask(t, r, a)
         \/ StartTask(t)
         \/ \E to \in {"BLOCKED", "FAILED", "DONE"} : ReportTask(t, to)
         \/ CancelTask(t)
         \/ \E a \in Agents : AssignTask(t, a)

Spec == Init /\ [][Next]_boardVars
=============================================================================
