-------------------------------- MODULE Broker --------------------------------
(***************************************************************************)
(* The launch broker: one process of bin/aib-broker-handler per connection *)
(* (a launch, or a supervisor's question how many supervised leases its    *)
(* agent has), the lease files and their admission lock, and the           *)
(* enactment of lib/aibobnet.sh in confined mode: the manager subshell,    *)
(* its timer and its killer, the provider's process group, the relay of    *)
(* the output, and the records attempt.decided and attempt.ended.          *)
(*                                                                         *)
(* A handler holds its lease as a flock, which the kernel drops when the   *)
(* handler ends, however it ends.  The provider does not inherit it.       *)
(***************************************************************************)
EXTENDS Naturals, FiniteSets

CONSTANTS
    Conns,       \* connections, each served by a process of its own
    Requests,    \* what each connection asks: [op, agent, class]
    Capacity,    \* AIB_BROKER_CAPACITY
    Faults,      \* the kinds of faults of a behaviour
    MaxFaults,   \* and their number
    None

FaultKinds == {"store", "tmp", "status", "away", "stuck", "term", "kill"}

ASSUME BrokerAssumption ==
    /\ IsFiniteSet(Conns)
    /\ DOMAIN Requests = Conns
    /\ \A c \in Conns : Requests[c].op \in {"launch", "leases"}
    /\ Capacity \in Nat \ {0}
    /\ Faults \subseteq FaultKinds
    /\ MaxFaults \in Nat
    /\ None \notin Conns

VARIABLES
    pc,        \* where each handler is
    client,    \* is the peer of the connection still there
    lock,      \* the handler that holds attempts.lock, or None
    files,     \* the lease files in the attempts directory
    lease,     \* the lease whose lock a handler holds, or None
    scan,      \* a handler's walk over the lease files
    decided,   \* the attempt.decided record of a connection
    ended,     \* its attempt.ended record, by what it says of the group
    mgr,       \* the manager subshell
    group,     \* the provider's processes
    faults,    \* the number of faults so far
    broken,    \* history: handlers that were killed or could not record
    orphans,   \* history: launches without a peer when a question was asked
    cleared    \* history: launches a supervisor was told are over

admission == <<lock, files, lease, scan>>
records   == <<decided, ended>>
enactment == <<mgr, group>>
history   == <<orphans, cleared>>
budget    == <<faults, broken>>
vars == <<pc, client, admission, records, enactment, budget, history>>

Launches == {c \in Conns : Requests[c].op = "launch"}

\* A lease name is <agent>[.sup].<slot>; the stem without the slot.
Stem(c) == <<Requests[c].agent, Requests[c].class>>
Leases == {<<Stem(c), n>> : c \in Launches, n \in 0 .. Cardinality(Launches)}

\* No descriptor is not a lease.
ASSUME LeaseAssumption == None \notin Leases

\* What attempt.ended says: that the group is gone, because the manager
\* saw it or no provider was started ("clean"); the same, as the composer's
\* default ("assumed"); or that members were left ("left").
Endings == {"clean", "assumed", "left"}

Scans == [left: SUBSET Leases, live: Nat, mine: Nat]
NoScan == [left |-> {}, live |-> 0, mine |-> 0]
Managers == [at: {"none", "setup", "wait", "settle", "gone"}, killer: {"none", "armed"},
             timed: BOOLEAN, report: {"none", "clean", "left", "cwd"}]
NoManager == [at |-> "none", killer |-> "none", timed |-> FALSE, report |-> "none"]

\* The members of the process group; a process that made itself a daemon
\* has left it.  Neither a stuck nor a daemonised one dies by the KILL of
\* the group.
InGroup(c) == group[c] \ {"away"}
Spared(c) == group[c] \cap {"away", "stuck"}

Held == {lease[c] : c \in Conns} \ {None}

Goto(c, to) == pc' = [pc EXCEPT ![c] = to]

Fault(c, kind) ==
    /\ kind \in Faults
    /\ faults < MaxFaults
    /\ faults' = faults + 1
    /\ broken' = IF kind \in {"store", "tmp", "status", "kill"} THEN broken \cup {c} ELSE broken

Init ==
    /\ pc = [c \in Conns |-> "idle"]
    /\ client = [c \in Conns |-> TRUE]
    /\ lock = None
    /\ files = {}
    /\ lease = [c \in Conns |-> None]
    /\ scan = [c \in Conns |-> NoScan]
    /\ decided = [c \in Conns |-> "no"]
    /\ ended = [c \in Conns |-> "no"]
    /\ mgr = [c \in Conns |-> NoManager]
    /\ group = [c \in Conns |-> {}]
    /\ faults = 0
    /\ broken = {}
    /\ orphans = [c \in Conns |-> {}]
    /\ cleared = {}

-----------------------------------------------------------------------------
(* Connecting and admission. *)

\* systemd accepts the connection.  A supervisor asks about the turns that
\* its predecessor started: those whose peer is gone when it asks.
Connect(c) ==
    /\ pc[c] = "idle"
    /\ Goto(c, "read")
    /\ orphans' = [orphans EXCEPT ![c] =
           IF Requests[c].op = "launch" THEN {}
           ELSE {d \in Launches : ~client[d] /\ Stem(d) = <<Requests[c].agent, "sup">>}]
    /\ UNCHANGED <<client, admission, records, enactment, budget, cleared>>

\* The peer closes the connection or dies; once the handler is closing it
\* no longer matters.
Leave(c) ==
    /\ c \in Launches
    /\ pc[c] \notin {"idle", "closing", "gone", "dead"}
    /\ client[c]
    /\ client' = [client EXCEPT ![c] = FALSE]
    /\ UNCHANGED <<pc, admission, records, enactment, budget, history>>

\* A malformed frame; for a question, also an agent that the registry does
\* not know.  Nothing was locked or recorded.
Reject(c) ==
    /\ pc[c] = "read"
    /\ Goto(c, "closing")
    /\ UNCHANGED <<client, admission, records, enactment, budget, history>>

\* flock on attempts.lock; the names to probe are listed under it.
Admit(c) ==
    /\ pc[c] = "read"
    /\ lock = None
    /\ lock' = c
    /\ scan' = [scan EXCEPT ![c] = [NoScan EXCEPT !.left = files]]
    /\ Goto(c, "scan")
    /\ UNCHANGED <<client, files, lease, records, enactment, budget, history>>

\* flock -w 10 gives up.
AdmitTimeout(c) ==
    /\ pc[c] = "read"
    /\ lock # None
    /\ Goto(c, "closing")
    /\ UNCHANGED <<client, admission, records, enactment, budget, history>>

\* Mutant: a stale lease is left where it is.
Probe_KeepStale(c, f) ==
    /\ pc[c] = "scan"
    /\ f \in scan[c].left
    /\ scan' = [scan EXCEPT ![c].left = @ \ {f},
                            ![c].live = @ + (IF f \in Held THEN 1 ELSE 0)]
    /\ UNCHANGED <<pc, client, lock, files, lease, records, enactment, budget, history>>

\* One lease: a lock that cannot be taken is a live attempt, one that can
\* is a file somebody left behind, which a launch removes.
Probe(c, f) ==
    /\ pc[c] = "scan"
    /\ f \in scan[c].left
    /\ LET live == f \in Held
           mine == f[1] = <<Requests[c].agent, "sup">>
       IN  /\ scan' = [scan EXCEPT ![c] =
                  [left |-> @.left \ {f},
                   live |-> @.live + (IF live THEN 1 ELSE 0),
                   mine |-> @.mine + (IF live /\ mine THEN 1 ELSE 0)]]
           /\ files' = IF live \/ Requests[c].op = "leases" THEN files ELSE files \ {f}
    /\ UNCHANGED <<pc, client, lock, lease, records, enactment, budget, history>>

\* The admission lock is given back.
Unlock(c) ==
    /\ lock' = IF lock = c THEN None ELSE lock
    /\ scan' = [scan EXCEPT ![c] = NoScan]

\* The count is complete: a question is answered with it.
Answer(c) ==
    /\ pc[c] = "scan"
    /\ scan[c].left = {}
    /\ Requests[c].op = "leases"
    /\ cleared' = IF scan[c].mine = 0 THEN cleared \cup orphans[c] ELSE cleared
    /\ Unlock(c)
    /\ Goto(c, "closing")
    /\ UNCHANGED <<client, files, lease, records, enactment, budget, orphans>>

OverCapacity(c) ==
    /\ pc[c] = "scan"
    /\ scan[c].left = {}
    /\ Requests[c].op = "launch"
    /\ scan[c].live >= Capacity
    /\ Unlock(c)
    /\ Goto(c, "closing")
    /\ UNCHANGED <<client, files, lease, records, enactment, budget, history>>

\* The first index without a file.
FreeSlot(c) ==
    CHOOSE n \in 0 .. Cardinality(files) :
        /\ <<Stem(c), n>> \notin files
        /\ \A m \in 0 .. n - 1 : <<Stem(c), m>> \in files

\* Mutant: one attempt more than the capacity.
Allot_OffByOne(c) ==
    /\ pc[c] = "scan"
    /\ scan[c].left = {}
    /\ Requests[c].op = "launch"
    /\ scan[c].live <= Capacity
    /\ files' = files \cup {<<Stem(c), FreeSlot(c)>>}
    /\ lease' = [lease EXCEPT ![c] = <<Stem(c), FreeSlot(c)>>]
    /\ Unlock(c)
    /\ Goto(c, "resolve")
    /\ UNCHANGED <<client, records, enactment, budget, history>>

\* Create and lock the lease, then give the admission lock back.
Allot(c) ==
    /\ pc[c] = "scan"
    /\ scan[c].left = {}
    /\ Requests[c].op = "launch"
    /\ scan[c].live < Capacity
    /\ FreeSlot(c) < Capacity
    /\ files' = files \cup {<<Stem(c), FreeSlot(c)>>}
    /\ lease' = [lease EXCEPT ![c] = <<Stem(c), FreeSlot(c)>>]
    /\ Unlock(c)
    /\ Goto(c, "resolve")
    /\ UNCHANGED <<client, records, enactment, budget, history>>

\* The attempts directory, a lease or the event store cannot be used
\* before anything was decided.
StoreError(c) ==
    /\ pc[c] \in {"scan", "resolve"}
    /\ Fault(c, "store")
    /\ Unlock(c)
    /\ Goto(c, "closing")
    /\ UNCHANGED <<client, files, lease, records, enactment, history>>

-----------------------------------------------------------------------------
(* Decision, prologue and preflight. *)

\* The registry, the agent or the working directory does not resolve:
\* answered without a verdict and without a record.
Unresolved(c) ==
    /\ pc[c] = "resolve"
    /\ Goto(c, "closing")
    /\ UNCHANGED <<client, admission, records, enactment, budget, history>>

\* attempt.decided is committed for either verdict; a denial ends here.
CommitDecided(c, verdict) ==
    /\ pc[c] = "resolve"
    /\ decided' = [decided EXCEPT ![c] = verdict]
    /\ Goto(c, IF verdict = "allow" THEN "prologue" ELSE "closing")
    /\ UNCHANGED <<client, admission, ended, enactment, budget, history>>

\* attempt.ended, or the incident that it cannot be committed.
CommitEnded(c, ending) ==
    \/ ended' = [ended EXCEPT ![c] = ending] /\ UNCHANGED budget
    \/ Fault(c, "store") /\ ended' = ended

\* Mutant: the failed write is not noticed.
Prologue_Unchecked(c) ==
    /\ pc[c] = "prologue"
    /\ Goto(c, "preflight")
    /\ UNCHANGED <<client, admission, records, enactment, budget, history>>

\* The prologue is the first write to the peer.  If it fails nothing is
\* started and the attempt ends there.
Prologue(c) ==
    /\ pc[c] = "prologue"
    /\ \/ client[c] /\ Goto(c, "preflight") /\ UNCHANGED <<ended, budget>>
       \/ ~client[c] /\ Goto(c, "closing") /\ CommitEnded(c, "clean")
    /\ UNCHANGED <<client, admission, decided, enactment, history>>

\* A shared tree inside the project, a missing state directory, a
\* credential or the confinement helper: refused before anything runs.
RefusePreflight(c) ==
    /\ pc[c] = "preflight"
    /\ CommitEnded(c, "clean")
    /\ Goto(c, "closing")
    /\ UNCHANGED <<client, admission, decided, enactment, history>>

\* aib_die for want of a temporary file or a dependency: no trap is set
\* yet, so the attempt stays open on record.
DiePreflight(c) ==
    /\ pc[c] = "preflight"
    /\ Fault(c, "tmp")
    /\ Goto(c, "closing")
    /\ UNCHANGED <<client, admission, records, enactment, history>>

\* The traps are set and the manager is forked.
StartManager(c) ==
    /\ pc[c] = "preflight"
    /\ mgr' = [mgr EXCEPT ![c].at = "setup"]
    /\ Goto(c, "relay")
    /\ UNCHANGED <<client, admission, records, group, budget, history>>

-----------------------------------------------------------------------------
(* The manager and the provider. *)

\* The working directory moved between verdict and start.
CwdMoved(c) ==
    /\ mgr[c].at = "setup"
    /\ mgr' = [mgr EXCEPT ![c].at = "gone", ![c].report = "cwd"]
    /\ UNCHANGED <<pc, client, admission, records, group, budget, history>>

StartProvider(c) ==
    /\ mgr[c].at = "setup"
    /\ mgr' = [mgr EXCEPT ![c].at = "wait"]
    /\ group' = [group EXCEPT ![c] = {"leader"}]
    /\ UNCHANGED <<pc, client, admission, records, budget, history>>

\* TERM to the group, which it may ignore, and a killer with 10 s grace.
Escalate(m) == [m EXCEPT !.killer = "armed"]

\* timeout_s is over: USR1 from the timer.
Timeout(c) ==
    /\ mgr[c].at = "wait"
    /\ ~mgr[c].timed
    /\ mgr' = [mgr EXCEPT ![c] = [Escalate(@) EXCEPT !.timed = TRUE]]
    /\ UNCHANGED <<pc, client, admission, records, group, budget, history>>

\* The grace is over: KILL to whatever is left of the group.
Killer(c) ==
    /\ mgr[c].killer = "armed"
    /\ mgr' = [mgr EXCEPT ![c].killer = "none"]
    /\ group' = [group EXCEPT ![c] = Spared(c)]
    /\ UNCHANGED <<pc, client, admission, records, budget, history>>

\* The leader is reaped.  A killer is waited for while the group is not
\* empty and cancelled otherwise; the timer is cancelled.
ReapLeader(c) ==
    /\ mgr[c].at = "wait"
    /\ "leader" \notin group[c]
    /\ mgr[c].killer = "armed" => InGroup(c) = {}
    /\ mgr' = [mgr EXCEPT ![c].at = "settle", ![c].killer = "none"]
    /\ UNCHANGED <<pc, client, admission, records, group, budget, history>>

\* Mutant: the leader's status is reported without asking about the group.
Settle_LeaderOnly(c) ==
    /\ mgr[c].at = "settle"
    /\ mgr' = [mgr EXCEPT ![c].at = "gone", ![c].report = "clean"]
    /\ UNCHANGED <<pc, client, admission, records, group, budget, history>>

\* Wait for the group, KILL it, wait again, and report; the report is a
\* file, which may be impossible to write.
Settle(c) ==
    /\ mgr[c].at = "settle"
    /\ group' = [group EXCEPT ![c] = Spared(c)]
    /\ \/ /\ mgr' = [mgr EXCEPT ![c].at = "gone",
                     ![c].report = IF "stuck" \in group[c] THEN "left" ELSE "clean"]
          /\ UNCHANGED budget
       \/ /\ Fault(c, "status")
          /\ mgr' = [mgr EXCEPT ![c].at = "gone"]
    /\ UNCHANGED <<pc, client, admission, records, history>>

\* The provider forks.
Fork(c) ==
    /\ InGroup(c) \ {"stuck"} # {}
    /\ group' = [group EXCEPT ![c] = @ \cup {"member"}]
    /\ UNCHANGED <<pc, client, admission, records, mgr, budget, history>>

\* One of its processes leaves the group and keeps the output open.
Daemonise(c) ==
    /\ InGroup(c) \ {"stuck"} # {}
    /\ Fault(c, "away")
    /\ group' = [group EXCEPT ![c] = @ \cup {"away"}]
    /\ UNCHANGED <<pc, client, admission, records, mgr, history>>

\* One of its processes sits in an uninterruptible call.
Stick(c) ==
    /\ "member" \in group[c]
    /\ Fault(c, "stuck")
    /\ group' = [group EXCEPT ![c] = (@ \ {"member"}) \cup {"stuck"}]
    /\ UNCHANGED <<pc, client, admission, records, mgr, history>>

\* One of the provider's processes ends.
ProcessExits(c, p) ==
    /\ p \in group[c]
    /\ group' = [group EXCEPT ![c] = @ \ {p}]
    /\ UNCHANGED <<pc, client, admission, records, mgr, budget, history>>

-----------------------------------------------------------------------------
(* The relay, the abort paths and the end. *)

\* USR2 for the manager.  Before it has set its traps it dies of it; before
\* the provider is started there is nobody to signal and nothing happens;
\* once the leader is reaped the manager kills the group anyway.
Disconnected(m) ==
    CASE m.at = "setup" -> {m, [m EXCEPT !.at = "gone"]}
      [] m.at = "wait"  -> {Escalate(m)}
      [] OTHER          -> {m}

\* An idle tick or a failing write finds the peer gone.
NoticeGone(c) ==
    /\ pc[c] = "relay"
    /\ ~client[c]
    /\ \E m \in Disconnected(mgr[c]) : mgr' = [mgr EXCEPT ![c] = m]
    /\ Goto(c, "left")
    /\ UNCHANGED <<client, admission, records, group, budget, history>>

\* The last writer of the pipe is gone: the manager, every process of the
\* group and every process that left it.
Eof(c) ==
    /\ pc[c] = "relay"
    /\ mgr[c].at = "gone"
    /\ group[c] = {}
    /\ Goto(c, "reap")
    /\ UNCHANGED <<client, admission, records, enactment, budget, history>>

\* A TERM, INT or HUP, or an aib_die, while the manager's traps stand.
Aborts(c) ==
    /\ pc[c] \in {"relay", "left", "reap"}
    /\ Fault(c, "term")
    /\ \E m \in Disconnected(mgr[c]) : mgr' = [mgr EXCEPT ![c] = m]
    /\ Goto(c, "trap")
    /\ UNCHANGED <<client, admission, records, group, history>>

\* Mutant: whatever the report file holds is taken for a status.
Ending_Unchecked(c) == IF pc[c] = "trap" THEN "assumed" ELSE mgr[c].report

\* What the record says of the group: the manager's report if it was read,
\* else the default.
Ending(c) ==
    CASE pc[c] # "trap" /\ mgr[c].report \in {"clean", "left"} -> mgr[c].report
      [] pc[c] = "reap" /\ mgr[c].report = "cwd"               -> "clean"
      [] OTHER                                                 -> "assumed"

\* Mutant: an aborted attempt is left open.
Reap_AbortUnrecorded(c) ==
    /\ pc[c] \in {"left", "reap", "trap"}
    /\ mgr[c].at = "gone"
    /\ IF pc[c] = "reap" /\ mgr[c].report # "none"
       THEN CommitEnded(c, Ending(c))
       ELSE UNCHANGED <<ended, budget>>
    /\ mgr' = [mgr EXCEPT ![c] = NoManager]
    /\ Goto(c, "closing")
    /\ UNCHANGED <<client, admission, decided, group, history>>

\* The manager is reaped.  Without its report the handler dies before it
\* commits anything, unless it ended the attempt itself.
Reap(c) ==
    /\ pc[c] \in {"left", "reap", "trap"}
    /\ mgr[c].at = "gone"
    /\ \/ /\ pc[c] = "reap" /\ mgr[c].report = "none"
          /\ UNCHANGED <<ended, budget>>
       \/ /\ pc[c] = "reap" => mgr[c].report # "none"
          /\ CommitEnded(c, Ending(c))
    /\ mgr' = [mgr EXCEPT ![c] = NoManager]
    /\ Goto(c, "closing")
    /\ UNCHANGED <<client, admission, decided, group, history>>

\* The terminal line and the end of the process, which drops the lease.
Exit(c) ==
    /\ pc[c] = "closing"
    /\ lease' = [lease EXCEPT ![c] = None]
    /\ Goto(c, "gone")
    /\ UNCHANGED <<client, lock, files, scan, records, enactment, budget, history>>

\* SIGKILL, or a signal where no trap is set.  The manager and the provider
\* go on by themselves.
Kill(c) ==
    /\ pc[c] \notin {"idle", "gone", "dead"}
    /\ Fault(c, "kill")
    /\ lease' = [lease EXCEPT ![c] = None]
    /\ Unlock(c)
    /\ Goto(c, "dead")
    /\ UNCHANGED <<client, files, records, enactment, history>>

\* systemd ends what is left in the unit's control group.
Cleanup(c) ==
    /\ pc[c] \in {"gone", "dead"}
    /\ mgr[c].at \in {"setup", "wait", "settle"} \/ group[c] \ {"stuck"} # {}
    /\ mgr' = [mgr EXCEPT ![c] = NoManager]
    /\ group' = [group EXCEPT ![c] = @ \cap {"stuck"}]
    /\ UNCHANGED <<pc, client, admission, records, budget, history>>

-----------------------------------------------------------------------------
Handler(c) ==
    \/ Reject(c) \/ Admit(c) \/ AdmitTimeout(c)
    \/ \E f \in Leases : Probe(c, f)
    \/ Answer(c) \/ OverCapacity(c) \/ Allot(c)
    \/ Unresolved(c)
    \/ \E verdict \in {"allow", "deny"} : CommitDecided(c, verdict)
    \/ Prologue(c) \/ RefusePreflight(c) \/ StartManager(c)
    \/ NoticeGone(c) \/ Eof(c) \/ Reap(c) \/ Exit(c)

\* The manager with its timer and its killer.
Manager(c) ==
    \/ CwdMoved(c) \/ StartProvider(c) \/ Timeout(c) \/ Killer(c)
    \/ ReapLeader(c) \/ Settle(c)

Provider(c) ==
    \/ Fork(c) \/ Daemonise(c) \/ Stick(c)
    \/ \E p \in {"leader", "member", "stuck", "away"} : ProcessExits(c, p)

Outside(c) ==
    \/ Connect(c) \/ Leave(c) \/ Aborts(c) \/ Kill(c) \/ Cleanup(c)
    \/ StoreError(c) \/ DiePreflight(c)

Next ==
    \E c \in Conns :
        Handler(c) \/ Manager(c) \/ Provider(c) \/ Outside(c)

Spec == Init /\ [][Next]_vars

\* The processes of the broker go on and their sleeps end.  The provider
\* owes nothing, a peer need not leave, and a process may be stuck for good.
Fairness ==
    /\ \A c \in Conns : WF_vars(Handler(c))
    /\ \A c \in Launches : WF_vars(Manager(c))

FairSpec == Spec /\ Fairness

\* How a reader of the stream sees an attempt: the fold of its records, and
\* whether the process whose pid it names is there.
FoldState(c) ==
    CASE decided[c] = "no"           -> "none"
      [] decided[c] = "deny"         -> "deny"
      [] ended[c] # "no"             -> "ended"
      [] pc[c] \in {"gone", "dead"} -> "presumed-dead"
      [] OTHER                       -> "open"

-----------------------------------------------------------------------------
TypeOK ==
    /\ pc \in [Conns -> {"idle", "read", "scan", "resolve", "prologue", "preflight",
                         "relay", "left", "reap", "trap", "closing", "gone", "dead"}]
    /\ client \in [Conns -> BOOLEAN]
    /\ lock \in Conns \cup {None}
    /\ files \subseteq Leases
    /\ lease \in [Conns -> Leases \cup {None}]
    /\ scan \in [Conns -> Scans]
    /\ decided \in [Conns -> {"no", "allow", "deny"}]
    /\ ended \in [Conns -> Endings \cup {"no"}]
    /\ mgr \in [Conns -> Managers]
    /\ group \in [Conns -> SUBSET {"leader", "member", "stuck", "away"}]
    /\ faults \in 0 .. MaxFaults
    /\ broken \subseteq Conns
    /\ orphans \in [Conns -> SUBSET Launches]
    /\ cleared \subseteq Launches

\* Never more attempts than AIB_BROKER_CAPACITY are admitted, and no two of
\* them hold the same lease, whatever handlers race, end or are killed
\* between the probes (aib-broker-handler, admission).
CapacityHolds ==
    /\ Cardinality({c \in Conns : lease[c] # None}) <= Capacity
    /\ \A c, d \in Conns : c # d /\ lease[c] # None => lease[c] # lease[d]

\* Below capacity there is always a free index: "no free lease index" is
\* an answer no launch can get, although killed handlers leave their files
\* behind and questions never remove one.
IndexFree ==
    \A c \in Launches :
        pc[c] = "scan" /\ scan[c].left = {} /\ scan[c].live < Capacity
            => FreeSlot(c) < Capacity

\* attempt.ended is committed when the provider is over: no process of the
\* group is left but one that no KILL reaches, and where the manager looked
\* the record says so (aib_enact_launch, the S1b comment).
EndedIsOver ==
    \A c \in Conns :
        /\ ended[c] # "no" => InGroup(c) \subseteq {"stuck"}
        /\ ended[c] = "clean" => InGroup(c) = {}

\* A supervisor that was told "supervised=0" about turns whose launcher was
\* gone when it asked never meets their provider again: the turn neither
\* runs nor starts later, not even from a connection still waiting for
\* admission.  The exceptions are a handler that was killed, whose
\* processes systemd ends a moment later, and processes beyond KILL.
QueryClears ==
    \A c \in cleared : group[c] \subseteq {"stuck", "away"} \/ pc[c] = "dead"

\* An open attempt is closed on record and never found presumed dead,
\* unless its handler was killed or could not write, or a process beyond the
\* group's KILL holds the output open for ever while the peer waits.
EveryAttemptEnds ==
    \A c \in Launches :
        \/ FoldState(c) = "open" ~> FoldState(c) = "ended" \/ c \in broken
        \/ <>[](pc[c] = "relay" /\ client[c] /\ Spared(c) # {})
=============================================================================
