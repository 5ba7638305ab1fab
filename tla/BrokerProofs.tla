---------------------------- MODULE BrokerProofs ----------------------------
(***************************************************************************)
(* Proofs about Broker for any connections, requests, capacity and faults. *)
(*                                                                         *)
(* The inductive invariant has three parts over (almost) disjoint state:   *)
(* what the admission lock guarantees to the handler that counts leases,   *)
(* what the manager's place says of the provider's group, and what a       *)
(* question's walk has still to meet of the turns it asks about.           *)
(***************************************************************************)
EXTENDS Broker, LeastNumber

Waiting == {"idle", "read", "scan"}

Admitted == {"resolve", "prologue", "preflight", "relay", "left", "reap", "trap"}

\* The handler that walks over the leases holds the admission lock.
LockHeld == \A c \in Conns : pc[c] = "scan" <=> lock = c

\* A lease is held by an admitted launch that has not ended, is named after
\* its agent and has its file; no two handlers hold the same.
LeasesHeld ==
    /\ \A c \in Conns : lease[c] # None =>
         /\ c \in Launches /\ lease[c] \in files /\ lease[c][1] = Stem(c)
         /\ pc[c] \in Admitted \cup {"closing"}
    /\ \A c \in Conns : pc[c] \in Admitted => c \in Launches /\ lease[c] # None
    /\ \A c, d \in Conns : c # d /\ lease[c] # None => lease[c] # lease[d]

\* The files that a launch has walked over and kept are as many as it
\* counted: it removed the others, and nobody else adds or removes one.
ScanCounts ==
    \A c \in Conns : pc[c] = "scan" =>
        /\ scan[c].left \subseteq files
        /\ c \in Launches => scan[c].live = Cardinality(files \ scan[c].left)

\* Launches that have been admitted or turned away.
Past == {c \in Launches : pc[c] \notin Waiting}

\* Each launch creates one file at most.
FilesCounted == IsFiniteSet(files) /\ Cardinality(files) <= Cardinality(Past)

Admission ==
    /\ LockHeld /\ LeasesHeld /\ ScanCounts /\ FilesCounted
    /\ Cardinality({c \in Conns : lease[c] # None}) <= Capacity

\* What a manager's place says of the provider: nothing runs before it is
\* started, and what is left once the manager has reported is beyond KILL.
Supervised(c) ==
    /\ mgr[c].at # "none" => pc[c] \in {"relay", "left", "reap", "trap", "dead"}
    /\ pc[c] \in Waiting \cup {"resolve", "prologue", "preflight"} =>
         group[c] = {} /\ ended[c] = "no"
    /\ mgr[c].at = "setup" => group[c] = {}
    /\ mgr[c].at \in {"none", "gone"} => group[c] \subseteq {"stuck", "away"}
    /\ mgr[c].report # "none" => mgr[c].at = "gone"
    /\ mgr[c].report \in {"clean", "cwd"} => "stuck" \notin group[c]
    /\ ended[c] # "no" => mgr[c].at = "none" /\ pc[c] \in {"closing", "gone", "dead"}
    /\ ended[c] = "clean" => "stuck" \notin group[c]

Enactment == \A c \in Conns : Supervised(c)

\* A launch without a peer that has nothing running and will start nothing:
\* it stops at the prologue at the latest.
Over(c) ==
    /\ ~client[c]
    /\ pc[c] \in {"read", "scan", "resolve", "prologue", "closing", "gone", "dead"}

\* Of the turns a question is about, each is over, or its lease is still to
\* be probed, or one was found alive.
Questions ==
    /\ \A c \in Conns : pc[c] = "idle" => client[c]
    /\ \A c \in Conns : \A d \in orphans[c] :
         /\ ~client[d]
         /\ Requests[c].op = "leases" /\ Stem(d) = <<Requests[c].agent, "sup">>
         /\ pc[c] = "scan" => Over(d) \/ lease[d] \in scan[c].left \/ scan[c].mine > 0
    /\ \A c \in cleared : Over(c)

IInv == TypeOK /\ Admission /\ Enactment /\ Questions

-----------------------------------------------------------------------------
(* The index of a new lease. *)

\* Among one index more than there are files, one is free; the first free one
\* is what FreeSlot chooses.
LEMMA FreeSlotFree ==
    ASSUME IsFiniteSet(files), NEW c
    PROVE  /\ FreeSlot(c) \in 0 .. Cardinality(files)
           /\ <<Stem(c), FreeSlot(c)>> \notin files
<1> DEFINE N == Cardinality(files)
           M == {n \in 0 .. N : <<Stem(c), n>> \notin files}
<1>1. N \in Nat
    BY FS_CardinalityType
<1>2. M # {}
    <2> SUFFICES ASSUME \A n \in 0 .. N : <<Stem(c), n>> \in files PROVE FALSE
        OBVIOUS
    <2> DEFINE f == [n \in 0 .. N |-> <<Stem(c), n>>]
    <2>1. f \in [0 .. N -> files]
        OBVIOUS
    <2>2. IsFiniteSet(0 .. N) /\ Cardinality(0 .. N) = N + 1
        BY <1>1, FS_Interval
    <2>3. \A x, y \in 0 .. N : x # y => f[x] # f[y]
        OBVIOUS
    <2>4. Cardinality(files) < Cardinality(0 .. N)
        BY <1>1, <2>2
    <2> HIDE DEF f
    <2>5. \E x, y \in 0 .. N : x # y /\ f[x] = f[y]
        BY <2>1, <2>2, <2>4, FS_PigeonHole
    <2> QED BY <2>3, <2>5
<1>3. M \in SUBSET Nat
    BY <1>1
<1>4. PICK n \in M : \A m \in M : n <= m
    <2> HIDE DEF M
    <2> QED BY <1>2, <1>3, LeastNatural
<1>5. n \in 0 .. N /\ <<Stem(c), n>> \notin files
    OBVIOUS
<1>6. \A m \in 0 .. n - 1 : <<Stem(c), m>> \in files
    BY <1>1, <1>4
<1> QED BY <1>5, <1>6 DEF FreeSlot
-----------------------------------------------------------------------------
(* Types. *)

\* The initial state satisfies the invariant: nobody is connected.
LEMMA InitIInv == Init => IInv
<1> SUFFICES ASSUME Init PROVE IInv
    OBVIOUS
<1> USE BrokerAssumption
<1>1. NoScan \in Scans /\ NoManager \in Managers
    BY DEF NoScan, Scans, NoManager, Managers
<1>2. TypeOK
    BY <1>1 DEF Init, TypeOK
<1>3. LockHeld /\ LeasesHeld /\ ScanCounts
    BY DEF Init, LockHeld, LeasesHeld, ScanCounts, Admitted
<1>4. FilesCounted
    <2>1. Past = {} /\ files = {}
        BY DEF Init, Past, Waiting, Launches
    <2> QED BY <2>1, FS_EmptySet DEF FilesCounted
<1>5. Cardinality({c \in Conns : lease[c] # None}) <= Capacity
    <2>1. {c \in Conns : lease[c] # None} = {}
        BY DEF Init
    <2> QED BY <2>1, FS_EmptySet
<1>6. Enactment
    BY DEF Init, Enactment, Supervised, NoManager
<1>7. Questions
    BY DEF Init, Questions
<1> QED BY <1>2, <1>3, <1>4, <1>5, <1>6, <1>7 DEF IInv, Admission

\* A fault is counted within its bound.
LEMMA FaultType ==
    ASSUME TypeOK, NEW c \in Conns, NEW kind, Fault(c, kind)
    PROVE  faults' \in 0 .. MaxFaults /\ broken' \subseteq Conns
    BY BrokerAssumption DEF TypeOK, Fault

\* The name of a new lease is one of Leases.
LEMMA NewLeaseType ==
    ASSUME FilesCounted, NEW c \in Launches
    PROVE  <<Stem(c), FreeSlot(c)>> \in Leases
<1>1. Launches \in SUBSET Conns /\ Past \in SUBSET Launches
    BY DEF Launches, Past
<1>2. IsFiniteSet(Launches)
    BY <1>1, FS_Subset, BrokerAssumption
<1>3. IsFiniteSet(Past) /\ Cardinality(Past) <= Cardinality(Launches)
    BY <1>1, <1>2, FS_Subset
<1>4. /\ Cardinality(files) \in Nat /\ Cardinality(Past) \in Nat
      /\ Cardinality(Launches) \in Nat
    BY <1>2, <1>3, FS_CardinalityType DEF FilesCounted
<1>5. FreeSlot(c) \in 0 .. Cardinality(files)
    BY FreeSlotFree DEF FilesCounted
<1>6. FreeSlot(c) \in 0 .. Cardinality(Launches)
    BY <1>3, <1>4, <1>5 DEF FilesCounted
<1> QED BY <1>6 DEF Leases

\* What connecting and admission write has its type.
LEMMA AdmissionTypes ==
    ASSUME TypeOK, FilesCounted, NEW c \in Conns,
           \/ Connect(c) \/ Leave(c) \/ Reject(c) \/ Admit(c) \/ AdmitTimeout(c)
           \/ \E f \in Leases : Probe(c, f)
           \/ Answer(c) \/ OverCapacity(c) \/ Allot(c) \/ StoreError(c)
    PROVE  TypeOK'
<1> USE BrokerAssumption DEF admission, records, enactment, history, budget
<1>0. NoScan \in Scans
    BY DEF NoScan, Scans
<1>1. CASE Connect(c)
    BY <1>1 DEF Connect, Goto, TypeOK
<1>2. CASE Leave(c) \/ Reject(c) \/ AdmitTimeout(c)
    BY <1>2 DEF Leave, Reject, AdmitTimeout, Goto, TypeOK
<1>3. CASE Admit(c)
    <2>1. [NoScan EXCEPT !.left = files] \in Scans
        BY DEF NoScan, Scans, TypeOK
    <2> QED BY <1>3, <2>1 DEF Admit, Goto, TypeOK
<1>4. ASSUME NEW f \in Leases, Probe(c, f) PROVE TypeOK'
    BY <1>4 DEF Probe, TypeOK, Scans
<1>5. CASE Answer(c)
    BY <1>0, <1>5 DEF Answer, Unlock, Goto, TypeOK
<1>6. CASE OverCapacity(c)
    BY <1>0, <1>6 DEF OverCapacity, Unlock, Goto, TypeOK
<1>7. CASE Allot(c)
    <2>1. c \in Launches
        BY <1>7 DEF Allot, Launches
    <2>2. <<Stem(c), FreeSlot(c)>> \in Leases
        BY <2>1, NewLeaseType
    <2> QED BY <1>0, <1>7, <2>2 DEF Allot, Unlock, Goto, TypeOK
<1>8. CASE StoreError(c)
    <2>1. faults' \in 0 .. MaxFaults /\ broken' \subseteq Conns
        BY <1>8, FaultType DEF StoreError
    <2> QED BY <1>0, <1>8, <2>1 DEF StoreError, Unlock, Goto, TypeOK
<1> QED BY <1>1, <1>2, <1>3, <1>4, <1>5, <1>6, <1>7, <1>8

\* A committed or failed ending has its type.
LEMMA CommitEndedType ==
    ASSUME TypeOK, NEW c \in Conns, NEW ending \in Endings, CommitEnded(c, ending)
    PROVE  /\ ended' \in [Conns -> Endings \cup {"no"}]
           /\ faults' \in 0 .. MaxFaults /\ broken' \subseteq Conns
<1>1. CASE Fault(c, "store") /\ ended' = ended
    BY <1>1, FaultType DEF TypeOK
<1>2. CASE ended' = [ended EXCEPT ![c] = ending] /\ UNCHANGED budget
    BY <1>2 DEF TypeOK, budget
<1> QED BY <1>1, <1>2 DEF CommitEnded

\* Every change a manager goes through leaves a manager.
LEMMA ManagerEdits ==
    ASSUME NEW m \in Managers
    PROVE  /\ \A at \in {"setup", "wait", "gone"} : [m EXCEPT !.at = at] \in Managers
           /\ \A report \in {"clean", "left", "cwd"} :
                [m EXCEPT !.at = "gone", !.report = report] \in Managers
           /\ [m EXCEPT !.killer = "none"] \in Managers
           /\ [m EXCEPT !.at = "settle", !.killer = "none"] \in Managers
           /\ Escalate(m) \in Managers
           /\ [Escalate(m) EXCEPT !.timed = TRUE] \in Managers
    BY DEF Managers, Escalate

\* What the decision, the relay and the end write has its type.
LEMMA HandlerTypes ==
    ASSUME TypeOK, NEW c \in Conns,
           \/ Unresolved(c) \/ \E verdict \in {"allow", "deny"} : CommitDecided(c, verdict)
           \/ Prologue(c) \/ RefusePreflight(c) \/ DiePreflight(c) \/ StartManager(c)
           \/ NoticeGone(c) \/ Eof(c) \/ Aborts(c) \/ Reap(c) \/ Exit(c) \/ Kill(c)
           \/ Cleanup(c)
    PROVE  TypeOK'
<1> USE BrokerAssumption DEF admission, records, enactment, history, budget, Goto
<1>0. /\ NoScan \in Scans
      /\ NoManager \in Managers
    BY DEF NoScan, NoManager, Scans, Managers
<1>1. CASE Unresolved(c) \/ Eof(c)
    BY <1>1 DEF Unresolved, Eof, TypeOK
<1>13. CASE Exit(c)
    BY <1>13 DEF Exit, TypeOK
<1>2. ASSUME NEW verdict \in {"allow", "deny"}, CommitDecided(c, verdict) PROVE TypeOK'
    BY <1>2 DEF CommitDecided, TypeOK
<1>3. CASE Prologue(c)
    <2>1. CASE UNCHANGED <<ended, budget>>
        BY <1>3, <2>1 DEF Prologue, TypeOK
    <2>2. CASE CommitEnded(c, "clean")
        <3>1. /\ ended' \in [Conns -> Endings \cup {"no"}]
              /\ faults' \in 0 .. MaxFaults /\ broken' \subseteq Conns
            BY <2>2, CommitEndedType DEF Endings
        <3>2. pc' = [pc EXCEPT ![c] = "preflight"] \/ pc' = [pc EXCEPT ![c] = "closing"]
            BY <1>3 DEF Prologue
        <3>3. UNCHANGED <<client, admission, decided, enactment, history>>
            BY <1>3 DEF Prologue
        <3> QED BY <3>1, <3>2, <3>3 DEF TypeOK
    <2> QED BY <1>3, <2>1, <2>2 DEF Prologue
<1>4. CASE RefusePreflight(c)
    <2>1. /\ ended' \in [Conns -> Endings \cup {"no"}]
          /\ faults' \in 0 .. MaxFaults /\ broken' \subseteq Conns
        BY <1>4, CommitEndedType DEF Endings, RefusePreflight
    <2> QED BY <1>4, <2>1 DEF RefusePreflight, TypeOK
<1>5. CASE DiePreflight(c)
    <2>1. faults' \in 0 .. MaxFaults /\ broken' \subseteq Conns
        BY <1>5, FaultType DEF DiePreflight
    <2> QED BY <1>5, <2>1 DEF DiePreflight, TypeOK
<1>6. CASE StartManager(c)
    BY <1>6, ManagerEdits DEF StartManager, TypeOK
<1>7. \A m \in Disconnected(mgr[c]) :
        m \in Managers
    <2>1. mgr[c] \in Managers
        BY DEF TypeOK
    <2>2. [mgr[c] EXCEPT !.at = "gone"] \in Managers /\ Escalate(mgr[c]) \in Managers
        BY <2>1, ManagerEdits
    <2> QED BY <2>1, <2>2 DEF Disconnected
<1>8. CASE NoticeGone(c)
    BY <1>7, <1>8 DEF NoticeGone, TypeOK
<1>9. CASE Aborts(c)
    <2>1. faults' \in 0 .. MaxFaults /\ broken' \subseteq Conns
        BY <1>9, FaultType DEF Aborts
    <2> QED BY <1>7, <1>9, <2>1 DEF Aborts, TypeOK
<1>10. CASE Reap(c)
    <2>1. Ending(c) \in Endings
        BY DEF Ending, Endings
    <2>2. /\ ended' \in [Conns -> Endings \cup {"no"}]
          /\ faults' \in 0 .. MaxFaults /\ broken' \subseteq Conns
        <3>1. CASE UNCHANGED <<ended, budget>>
            BY <3>1 DEF TypeOK
        <3>2. CASE CommitEnded(c, Ending(c))
            BY <2>1, <3>2, CommitEndedType
        <3> QED BY <1>10, <3>1, <3>2 DEF Reap
    <2> QED BY <1>0, <1>10, <2>2 DEF Reap, TypeOK
<1>11. CASE Kill(c)
    <2>1. faults' \in 0 .. MaxFaults /\ broken' \subseteq Conns
        BY <1>11, FaultType DEF Kill
    <2> QED BY <1>0, <1>11, <2>1 DEF Kill, Unlock, TypeOK
<1>12. CASE Cleanup(c)
    BY <1>0, <1>12 DEF Cleanup, TypeOK
<1> QED BY <1>1, <1>2, <1>3, <1>4, <1>5, <1>6, <1>8, <1>9, <1>10, <1>11, <1>12, <1>13

\* What the manager and the provider do has its type.
LEMMA EnactmentTypes ==
    ASSUME TypeOK, NEW c \in Conns, Manager(c) \/ Provider(c)
    PROVE  TypeOK'
<1> USE DEF Manager, Provider
<1>1. mgr' = mgr \/ \E m \in Managers : mgr' = [mgr EXCEPT ![c] = m]
    <2>0. mgr[c] \in Managers
        BY DEF TypeOK
    <2>1. CASE CwdMoved(c)
        BY <2>0, <2>1, ManagerEdits DEF CwdMoved, TypeOK
    <2>2. CASE StartProvider(c)
        BY <2>0, <2>2, ManagerEdits DEF StartProvider, TypeOK
    <2>3. CASE Timeout(c)
        BY <2>0, <2>3, ManagerEdits DEF Timeout, TypeOK
    <2>4. CASE Killer(c)
        BY <2>0, <2>4, ManagerEdits DEF Killer, TypeOK
    <2>5. CASE ReapLeader(c)
        BY <2>0, <2>5, ManagerEdits DEF ReapLeader, TypeOK
    <2>6. CASE Settle(c)
        BY <2>0, <2>6, ManagerEdits DEF Settle, TypeOK
    <2>7. CASE Provider(c)
        BY <2>7 DEF Fork, Daemonise, Stick, ProcessExits
    <2> QED BY <2>1, <2>2, <2>3, <2>4, <2>5, <2>6, <2>7
<1>2. group' = group \/ \E g \in SUBSET {"leader", "member", "stuck", "away"} :
                          group' = [group EXCEPT ![c] = g]
    <2>0. group[c] \in SUBSET {"leader", "member", "stuck", "away"}
        BY DEF TypeOK
    <2>1. CASE Manager(c)
        BY <2>0, <2>1 DEF CwdMoved, StartProvider, Timeout, Killer, ReapLeader, Settle, Spared
    <2>2. CASE Provider(c)
        BY <2>0, <2>2 DEF Fork, Daemonise, Stick, ProcessExits
    <2> QED BY <2>1, <2>2
<1>3. faults' \in 0 .. MaxFaults /\ broken' \subseteq Conns
    <2>1. CASE UNCHANGED budget
        BY <2>1 DEF TypeOK, budget
    <2>2. CASE \E kind \in FaultKinds : Fault(c, kind)
        BY <2>2, FaultType
    <2>3. UNCHANGED budget \/ \E kind \in FaultKinds : Fault(c, kind)
        BY DEF CwdMoved, StartProvider, Timeout, Killer, ReapLeader, Settle,
               Fork, Daemonise, Stick, ProcessExits, FaultKinds
    <2> QED BY <2>1, <2>2, <2>3
<1>4. UNCHANGED <<pc, client, lock, files, lease, scan, decided, ended, orphans, cleared>>
    BY DEF CwdMoved, StartProvider, Timeout, Killer, ReapLeader, Settle, Fork, Daemonise,
           Stick, ProcessExits, admission, records, history
<1>5. mgr' \in [Conns -> Managers]
    BY <1>1 DEF TypeOK
<1>6. group' \in [Conns -> SUBSET {"leader", "member", "stuck", "away"}]
    BY <1>2 DEF TypeOK
<1> QED BY <1>3, <1>4, <1>5, <1>6 DEF TypeOK

\* Every step keeps the types.
LEMMA TypeStep ==
    ASSUME TypeOK, FilesCounted, [Next]_vars
    PROVE  TypeOK'
<1>1. ASSUME NEW c \in Conns, Handler(c) \/ Outside(c) PROVE TypeOK'
    BY <1>1, AdmissionTypes, HandlerTypes DEF Handler, Outside
<1>2. ASSUME NEW c \in Conns, Manager(c) \/ Provider(c) PROVE TypeOK'
    BY <1>2, EnactmentTypes
<1>3. CASE UNCHANGED vars
    BY <1>3 DEF TypeOK, vars, admission, records, enactment, history, budget
<1> QED BY <1>1, <1>2, <1>3 DEF Next
-----------------------------------------------------------------------------
(* Admission. *)

\* A step of c that leaves the lock, the files and the leases alone: its place
\* moves on without entering or leaving the walk.
Passes(c) ==
    /\ UNCHANGED <<lock, files, lease, scan>>
    /\ \E x \in {"read", "prologue", "preflight", "relay", "left", "reap", "trap", "closing"} :
         /\ pc' = [pc EXCEPT ![c] = x]
         /\ pc[c] # "scan"
         /\ x = "read" => pc[c] = "idle"
         /\ x \in Admitted => pc[c] \in Admitted
         /\ pc[c] \in Admitted \cup {"closing"} => x \in Admitted \cup {"closing"}

\* The steps that are not about admission.
LEMMA OtherStepsPass ==
    ASSUME NEW c \in Conns,
           \/ Manager(c) \/ Provider(c) \/ Connect(c) \/ Leave(c) \/ Reject(c)
           \/ AdmitTimeout(c) \/ Unresolved(c)
           \/ \E verdict \in {"allow", "deny"} : CommitDecided(c, verdict)
           \/ Prologue(c) \/ RefusePreflight(c) \/ DiePreflight(c) \/ StartManager(c)
           \/ NoticeGone(c) \/ Eof(c) \/ Aborts(c) \/ Reap(c) \/ Cleanup(c)
    PROVE  Passes(c) \/ UNCHANGED <<pc, lock, files, lease, scan>>
<1> USE DEF admission, Goto, Passes, Admitted
<1>1. CASE Manager(c) \/ Provider(c) \/ Leave(c) \/ Cleanup(c)
    BY <1>1 DEF Manager, Provider, CwdMoved, StartProvider, Timeout, Killer, ReapLeader, Settle,
                Fork, Daemonise, Stick, ProcessExits, Leave, Cleanup
<1>2. CASE Connect(c) \/ Reject(c) \/ AdmitTimeout(c) \/ Unresolved(c)
    BY <1>2 DEF Connect, Reject, AdmitTimeout, Unresolved
<1>3. CASE \/ \E verdict \in {"allow", "deny"} : CommitDecided(c, verdict)
           \/ Prologue(c) \/ RefusePreflight(c) \/ DiePreflight(c) \/ StartManager(c)
    BY <1>3 DEF CommitDecided, Prologue, RefusePreflight, DiePreflight, StartManager
<1>4. CASE NoticeGone(c) \/ Eof(c) \/ Aborts(c) \/ Reap(c)
    BY <1>4 DEF NoticeGone, Eof, Aborts, Reap
<1> QED BY <1>1, <1>2, <1>3, <1>4

\* The steps that are.
LEMMA AdmissionSteps ==
    ASSUME [Next]_vars
    PROVE  \/ UNCHANGED <<pc, lock, files, lease, scan>>
           \/ \E c \in Conns :
                \/ Passes(c)
                \/ Admit(c) \/ \E f \in Leases : Probe(c, f)
                \/ Answer(c) \/ OverCapacity(c) \/ Allot(c) \/ StoreError(c)
                \/ Exit(c) \/ Kill(c)
<1>1. CASE UNCHANGED vars
    BY <1>1 DEF vars, admission
<1>2. ASSUME NEW c \in Conns, Handler(c) \/ Manager(c) \/ Provider(c) \/ Outside(c)
      PROVE  \/ UNCHANGED <<pc, lock, files, lease, scan>>
             \/ Passes(c)
             \/ Admit(c) \/ \E f \in Leases : Probe(c, f)
             \/ Answer(c) \/ OverCapacity(c) \/ Allot(c) \/ StoreError(c)
             \/ Exit(c) \/ Kill(c)
    BY <1>2, OtherStepsPass DEF Handler, Outside
<1> QED BY <1>1, <1>2 DEF Next
\* One handler at a time walks over the leases.
LEMMA LockStep ==
    ASSUME TypeOK, LockHeld, [Next]_vars
    PROVE  LockHeld'
<1> USE BrokerAssumption DEF TypeOK, LockHeld, Goto, Unlock, admission
<1>1. CASE UNCHANGED <<pc, lock, files, lease, scan>>
    BY <1>1
<1>2. ASSUME NEW c \in Conns, Passes(c) PROVE LockHeld'
    BY <1>2 DEF Passes
<1>3. ASSUME NEW c \in Conns, Admit(c) PROVE LockHeld'
    BY <1>3 DEF Admit
<1>4. ASSUME NEW c \in Conns, NEW f \in Leases, Probe(c, f) PROVE LockHeld'
    BY <1>4 DEF Probe
<1>5. ASSUME NEW c \in Conns, Answer(c) \/ OverCapacity(c) \/ Allot(c) \/ StoreError(c)
      PROVE  LockHeld'
    BY <1>5 DEF Answer, OverCapacity, Allot, StoreError
<1>6. ASSUME NEW c \in Conns, Exit(c) \/ Kill(c) PROVE LockHeld'
    BY <1>6 DEF Exit, Kill
<1> QED BY <1>1, <1>2, <1>3, <1>4, <1>5, <1>6, AdmissionSteps

\* A new lease is nobody's, and a probe removes no held one.
LEMMA LeasesStep ==
    ASSUME TypeOK, LockHeld, LeasesHeld, FilesCounted, [Next]_vars
    PROVE  LeasesHeld'
<1> USE BrokerAssumption DEF TypeOK, LeasesHeld, Admitted, Goto, Unlock, admission
<1>1. CASE UNCHANGED <<pc, lock, files, lease, scan>>
    BY <1>1
<1>2. ASSUME NEW c \in Conns, Passes(c) PROVE LeasesHeld'
    BY <1>2 DEF Passes
<1>3. ASSUME NEW c \in Conns, Admit(c) PROVE LeasesHeld'
    BY <1>3 DEF Admit
<1>4. ASSUME NEW c \in Conns, NEW f \in Leases, Probe(c, f) PROVE LeasesHeld'
    <2>1. UNCHANGED <<pc, lease>> /\ (files' = files \/ (files' = files \ {f} /\ f \notin Held))
        BY <1>4 DEF Probe
    <2>2. \A d \in Conns : lease[d] # None /\ lease[d] \in files => lease[d] \in files'
        BY <2>1 DEF Held
    <2> QED BY <2>1, <2>2
<1>5. ASSUME NEW c \in Conns, Answer(c) \/ OverCapacity(c) \/ StoreError(c)
      PROVE  LeasesHeld'
    BY <1>5 DEF Answer, OverCapacity, StoreError
<1>6. ASSUME NEW c \in Conns, Allot(c) PROVE LeasesHeld'
    <2> DEFINE new == <<Stem(c), FreeSlot(c)>>
    <2>1. c \in Launches
        BY <1>6 DEF Allot, Launches
    <2>2. new \notin files /\ new # None /\ new[1] = Stem(c)
        BY <2>1, FreeSlotFree, NewLeaseType, LeaseAssumption DEF FilesCounted
    <2>3. /\ files' = files \cup {new} /\ lease' = [lease EXCEPT ![c] = new]
          /\ pc' = [pc EXCEPT ![c] = "resolve"]
        BY <1>6 DEF Allot
    <2> HIDE DEF new
    <2> QED BY <2>1, <2>2, <2>3
<1>7. ASSUME NEW c \in Conns, Exit(c) \/ Kill(c) PROVE LeasesHeld'
    BY <1>7 DEF Exit, Kill
<1> QED BY <1>1, <1>2, <1>3, <1>4, <1>5, <1>6, <1>7, AdmissionSteps

\* The count of a launch agrees with the files it has left standing.
LEMMA ScanStep ==
    ASSUME TypeOK, LockHeld, LockHeld', ScanCounts, FilesCounted, [Next]_vars
    PROVE  ScanCounts'
<1> USE BrokerAssumption DEF TypeOK, LockHeld, ScanCounts, Goto, Unlock, admission
<1>1. CASE UNCHANGED <<pc, lock, files, lease, scan>>
    BY <1>1
<1>2. ASSUME NEW c \in Conns, Passes(c) PROVE ScanCounts'
    BY <1>2 DEF Passes
<1>3. ASSUME NEW c \in Conns, Admit(c) PROVE ScanCounts'
    <2>1. scan'[c].left = files /\ scan'[c].live = 0 /\ files' = files
        BY <1>3 DEF Admit, NoScan
    <2>2. files \ files = {}
        OBVIOUS
    <2>3. \A d \in Conns : pc'[d] = "scan" => d = c
        BY <1>3 DEF Admit
    <2> QED BY <2>1, <2>2, <2>3, FS_EmptySet
<1>4. ASSUME NEW c \in Conns, NEW f \in Leases, Probe(c, f) PROVE ScanCounts'
    <2>1. /\ \A d \in Conns : pc'[d] = "scan" => d = c
          /\ pc[c] = "scan" /\ f \in scan[c].left
          /\ scan[c].left \subseteq files /\ scan'[c].left = scan[c].left \ {f}
        BY <1>4 DEF Probe
    <2>2. scan'[c].left \subseteq files'
        BY <1>4, <2>1 DEF Probe
    <2>3. ASSUME c \in Launches PROVE scan'[c].live = Cardinality(files' \ scan'[c].left)
        <3> DEFINE kept == files \ scan[c].left
        <3>0. Requests[c].op # "leases"
            BY <2>3 DEF Launches
        <3>1. IsFiniteSet(kept) /\ scan[c].live = Cardinality(kept) /\ f \notin kept
            BY <2>1, <2>3, FS_Difference DEF FilesCounted
        <3>2. CASE f \in Held
            <4>1. files' \ scan'[c].left = kept \cup {f}
                BY <1>4, <2>1, <3>2 DEF Probe
            <4>2. Cardinality(kept \cup {f}) = Cardinality(kept) + 1
                BY <3>1, FS_AddElement
            <4>3. scan'[c].live = scan[c].live + 1
                BY <1>4, <3>2 DEF Probe
            <4> QED BY <3>1, <4>1, <4>2, <4>3
        <3>3. CASE f \notin Held
            <4>1. files' \ scan'[c].left = kept
                BY <1>4, <2>1, <3>0, <3>3 DEF Probe
            <4>2. scan'[c].live = scan[c].live + 0 /\ scan[c].live \in Nat
                BY <1>4, <3>3 DEF Probe, Scans
            <4>3. scan'[c].live = scan[c].live
                BY <4>2
            <4> HIDE DEF kept
            <4> QED BY <3>1, <4>1, <4>3
        <3> QED BY <3>2, <3>3
    <2> QED BY <2>1, <2>2, <2>3
<1>5. ASSUME NEW c \in Conns, Answer(c) \/ OverCapacity(c) \/ Allot(c)
      PROVE  ScanCounts'
    <2>1. lock = c /\ lock' = None
        BY <1>5 DEF Answer, OverCapacity, Allot
    <2> QED BY <2>1
<1>6. ASSUME NEW c \in Conns, StoreError(c) \/ Kill(c) PROVE ScanCounts'
    <2>1. /\ pc' = [pc EXCEPT ![c] = "closing"] \/ pc' = [pc EXCEPT ![c] = "dead"]
          /\ files' = files /\ scan' = [scan EXCEPT ![c] = NoScan]
        BY <1>6 DEF StoreError, Kill
    <2>2. \A d \in Conns : pc'[d] = "scan" => d # c /\ pc[d] = "scan" /\ scan'[d] = scan[d]
        BY <2>1
    <2> QED BY <2>1, <2>2
<1>7. ASSUME NEW c \in Conns, Exit(c) PROVE ScanCounts'
    BY <1>7 DEF Exit
<1> QED BY <1>1, <1>2, <1>3, <1>4, <1>5, <1>6, <1>7, AdmissionSteps

\* A launch that creates a file has left the waiting ones.
LEMMA FilesStep ==
    ASSUME TypeOK, LockHeld, FilesCounted, [Next]_vars
    PROVE  FilesCounted'
<1> USE BrokerAssumption DEF TypeOK, Goto, Unlock, admission
<1>1. IsFiniteSet(Past') /\ IsFiniteSet(Past)
    <2>1. Past \in SUBSET Conns /\ Past' \in SUBSET Conns
        BY DEF Past, Launches
    <2> QED BY <2>1, FS_Subset
<1>2. ASSUME Past \subseteq Past', files' \subseteq files PROVE FilesCounted'
    <2>1. Cardinality(Past) <= Cardinality(Past')
        BY <1>1, <1>2, FS_Subset
    <2>2. IsFiniteSet(files') /\ Cardinality(files') <= Cardinality(files)
        BY <1>2, FS_Subset DEF FilesCounted
    <2>3. /\ Cardinality(Past) \in Nat /\ Cardinality(Past') \in Nat
          /\ Cardinality(files) \in Nat /\ Cardinality(files') \in Nat
        BY <1>1, <2>2, FS_CardinalityType DEF FilesCounted
    <2> QED BY <2>1, <2>2, <2>3 DEF FilesCounted
<1>3. ASSUME NEW c \in Conns, Allot(c) PROVE FilesCounted'
    <2> DEFINE new == <<Stem(c), FreeSlot(c)>>
    <2>1. Past' = Past \cup {c} /\ c \notin Past
        BY <1>3 DEF Allot, Past, Waiting, Launches
    <2>2. files' = files \cup {new}
        BY <1>3 DEF Allot
    <2>3. Cardinality(Past') = Cardinality(Past) + 1
        BY <1>1, <2>1, FS_AddElement
    <2> HIDE DEF new
    <2>4. IsFiniteSet(files') /\ Cardinality(files') <= Cardinality(files) + 1
        <3>1. Cardinality(files) \in Nat
            BY FS_CardinalityType DEF FilesCounted
        <3>2. /\ IsFiniteSet(files \cup {new})
              /\ Cardinality(files \cup {new}) = IF new \in files THEN Cardinality(files)
                                                ELSE Cardinality(files) + 1
            BY FS_AddElement DEF FilesCounted
        <3> QED BY <2>2, <3>1, <3>2
    <2>5. Cardinality(Past) \in Nat /\ Cardinality(files) \in Nat /\ Cardinality(files') \in Nat
        BY <1>1, <2>4, FS_CardinalityType DEF FilesCounted
    <2> QED BY <2>3, <2>4, <2>5 DEF FilesCounted
<1>4. CASE UNCHANGED <<pc, lock, files, lease, scan>>
    BY <1>2, <1>4 DEF Past
<1>5. ASSUME NEW c \in Conns, Passes(c) PROVE FilesCounted'
    <2>1. Past \subseteq Past'
        BY <1>5 DEF Past, Passes, Waiting, Launches
    <2> QED BY <1>2, <1>5, <2>1 DEF Passes
<1>6. ASSUME NEW c \in Conns, Admit(c) \/ \E f \in Leases : Probe(c, f) PROVE FilesCounted'
    <2>1. Past \subseteq Past'
        BY <1>6 DEF Past, Admit, Probe, Waiting, Launches
    <2>2. files' \subseteq files
        BY <1>6 DEF Admit, Probe
    <2> QED BY <1>2, <2>1, <2>2
<1>7. ASSUME NEW c \in Conns,
             Answer(c) \/ OverCapacity(c) \/ StoreError(c) \/ Exit(c) \/ Kill(c)
      PROVE  FilesCounted'
    <2>1. Past \subseteq Past'
        BY <1>7 DEF Past, Answer, OverCapacity, StoreError, Exit, Kill, Waiting, Launches
    <2>2. files' = files
        BY <1>7 DEF Answer, OverCapacity, StoreError, Exit, Kill
    <2> QED BY <1>2, <2>1, <2>2
<1> QED BY <1>3, <1>4, <1>5, <1>6, <1>7, AdmissionSteps

\* What a launch counted bounds the leases held when it takes its own: under
\* the admission lock leases are only given up.
LEMMA HeldWithinCount ==
    ASSUME TypeOK, LeasesHeld, FilesCounted
    PROVE  /\ IsFiniteSet({c \in Conns : lease[c] # None})
           /\ Cardinality({c \in Conns : lease[c] # None}) <= Cardinality(files)
<1> DEFINE H == {c \in Conns : lease[c] # None}
           f == [c \in H |-> lease[c]]
<1>1. f \in Injection(H, files)
    <2>1. f \in [H -> files]
        BY DEF LeasesHeld
    <2>2. \A c, d \in H : f[c] = f[d] => c = d
        BY DEF LeasesHeld
    <2> HIDE DEF f, H
    <2> QED BY <2>1, <2>2 DEF Injection, IsInjective
<1> HIDE DEF f, H
<1>2. IsFiniteSet(H) /\ Cardinality(H) <= Cardinality(files)
    BY <1>1, FS_Injection DEF FilesCounted
<1> QED BY <1>2 DEF H

\* Admission never exceeds the capacity.
LEMMA CapacityStep ==
    ASSUME TypeOK, Admission, [Next]_vars
    PROVE  Cardinality({c \in Conns : lease[c] # None})' <= Capacity
<1> USE BrokerAssumption DEF Admission
<1> DEFINE H == {c \in Conns : lease[c] # None}
<1>1. IsFiniteSet(H) /\ Cardinality(H) <= Cardinality(files) /\ Cardinality(H) <= Capacity
    BY HeldWithinCount
<1>2. Cardinality(H) \in Nat /\ Cardinality(files) \in Nat
    BY <1>1, FS_CardinalityType DEF FilesCounted
<1>3. ASSUME H' \subseteq H PROVE Cardinality(H') <= Capacity
    <2>1. IsFiniteSet(H') /\ Cardinality(H') <= Cardinality(H)
        BY <1>1, <1>3, FS_Subset
    <2>2. Cardinality(H') \in Nat
        BY <2>1, FS_CardinalityType
    <2> QED BY <1>1, <1>2, <2>1, <2>2
<1>4. ASSUME NEW c \in Conns, Allot(c) PROVE Cardinality(H') <= Capacity
    <2>1. H' \subseteq H \cup {c}
        BY <1>4 DEF Allot, TypeOK
    <2>2. Cardinality(files) < Capacity
        <3>1. c \in Launches /\ pc[c] = "scan" /\ scan[c].left = {} /\ scan[c].live < Capacity
            BY <1>4 DEF Allot, Launches
        <3>2. files \ {} = files
            OBVIOUS
        <3> QED BY <3>1, <3>2 DEF ScanCounts
    <2>3. IsFiniteSet(H \cup {c}) /\ Cardinality(H \cup {c}) <= Cardinality(H) + 1
        <3>1. /\ IsFiniteSet(H \cup {c})
              /\ Cardinality(H \cup {c}) = IF c \in H THEN Cardinality(H) ELSE Cardinality(H) + 1
            BY <1>1, FS_AddElement
        <3> QED BY <1>2, <3>1
    <2>4. IsFiniteSet(H') /\ Cardinality(H') <= Cardinality(H \cup {c})
        BY <2>1, <2>3, FS_Subset
    <2>5. Cardinality(H') \in Nat /\ Cardinality(H \cup {c}) \in Nat
        BY <2>3, <2>4, FS_CardinalityType
    <2> HIDE DEF H
    <2> QED BY <1>1, <1>2, <2>2, <2>3, <2>4, <2>5
<1>5. H' \subseteq H \/ \E c \in Conns : Allot(c)
    <2>1. ASSUME NEW c \in Conns, \/ Passes(c) \/ Admit(c) \/ \E f \in Leases : Probe(c, f)
                                  \/ Answer(c) \/ OverCapacity(c) \/ StoreError(c)
          PROVE lease' = lease
        BY <2>1 DEF Passes, Admit, Probe, Answer, OverCapacity, StoreError
    <2>2. ASSUME NEW c \in Conns, Exit(c) \/ Kill(c) PROVE H' \subseteq H
        BY <2>2 DEF Exit, Kill, TypeOK
    <2> QED BY <2>1, <2>2, AdmissionSteps
<1> QED BY <1>3, <1>4, <1>5

\* Every step keeps what admission relies on.
LEMMA AdmissionStep ==
    ASSUME TypeOK, Admission, [Next]_vars
    PROVE  Admission'
    BY LockStep, LeasesStep, ScanStep, FilesStep, CapacityStep DEF Admission
-----------------------------------------------------------------------------
(* Enactment. *)

\* A handler that moves on without touching the provider.
LEMMA HandlerSupervises ==
    ASSUME TypeOK, NEW c \in Conns, Supervised(c),
           \/ Connect(c) \/ Leave(c) \/ Reject(c) \/ Admit(c) \/ AdmitTimeout(c)
           \/ \E f \in Leases : Probe(c, f)
           \/ Answer(c) \/ OverCapacity(c) \/ Allot(c) \/ StoreError(c)
           \/ Unresolved(c) \/ \E verdict \in {"allow", "deny"} : CommitDecided(c, verdict)
           \/ DiePreflight(c) \/ StartManager(c) \/ Eof(c) \/ Exit(c) \/ Kill(c)
    PROVE  Supervised(c)'
<1> USE DEF TypeOK, Supervised, Waiting, records, enactment, Goto
<1>1. CASE StartManager(c)
    <2>1. /\ mgr'[c] = [mgr[c] EXCEPT !.at = "setup"] /\ pc'[c] = "relay"
          /\ UNCHANGED <<group, ended>> /\ mgr[c] \in Managers
        BY <1>1 DEF StartManager
    <2>2. mgr'[c].at = "setup" /\ mgr'[c].report = mgr[c].report
        BY <2>1 DEF Managers
    <2> QED BY <1>1, <2>1, <2>2 DEF StartManager
<1>2. CASE Connect(c) \/ Leave(c) \/ Reject(c) \/ Admit(c) \/ AdmitTimeout(c)
           \/ \E f \in Leases : Probe(c, f)
    BY <1>2 DEF Connect, Leave, Reject, Admit, AdmitTimeout, Probe
<1>3. CASE Answer(c) \/ OverCapacity(c) \/ Allot(c) \/ StoreError(c)
    BY <1>3 DEF Answer, OverCapacity, Allot, StoreError
<1>4. CASE Unresolved(c) \/ \E verdict \in {"allow", "deny"} : CommitDecided(c, verdict)
    BY <1>4 DEF Unresolved, CommitDecided
<1>5. CASE DiePreflight(c) \/ Eof(c) \/ Exit(c) \/ Kill(c)
    BY <1>5 DEF DiePreflight, Eof, Exit, Kill
<1> QED BY <1>1, <1>2, <1>3, <1>4, <1>5

\* The attempt is closed on record when nothing of it runs: before a provider
\* was started, or when the manager is gone.
LEMMA EndingSupervises ==
    ASSUME TypeOK, NEW c \in Conns, Supervised(c),
           Prologue(c) \/ RefusePreflight(c) \/ Reap(c)
    PROVE  Supervised(c)'
<1> USE DEF TypeOK, Supervised, Waiting, enactment, Goto
<1>1. CASE Prologue(c)
    <2>1. /\ UNCHANGED <<mgr, group>> /\ pc'[c] \in {"preflight", "closing"}
          /\ ended'[c] = ended[c] \/ (ended'[c] = "clean" /\ pc'[c] = "closing")
        BY <1>1 DEF Prologue, CommitEnded
    <2> QED BY <1>1, <2>1 DEF Prologue
<1>2. CASE RefusePreflight(c)
    <2>1. /\ UNCHANGED <<mgr, group>> /\ pc'[c] = "closing"
          /\ ended'[c] = ended[c] \/ ended'[c] = "clean"
        BY <1>2 DEF RefusePreflight, CommitEnded
    <2> QED BY <1>2, <2>1 DEF RefusePreflight
<1>3. CASE Reap(c)
    <2>1. /\ mgr'[c] = NoManager /\ pc'[c] = "closing" /\ group' = group
          /\ ended'[c] = ended[c] \/ ended'[c] = Ending(c)
          /\ mgr[c].at = "gone"
        BY <1>3 DEF Reap, CommitEnded
    <2>2. Ending(c) = "clean" => mgr[c].report \in {"clean", "cwd"}
        BY DEF Ending
    <2>3. NoManager.at = "none" /\ NoManager.report = "none"
        BY DEF NoManager
    <2> QED BY <2>1, <2>2, <2>3
<1> QED BY <1>1, <1>2, <1>3

\* What is sent to the manager when the peer is gone or the handler aborts.
LEMMA SignalSupervises ==
    ASSUME TypeOK, NEW c \in Conns, Supervised(c), NoticeGone(c) \/ Aborts(c)
    PROVE  Supervised(c)'
<1> USE DEF TypeOK, Supervised, Waiting, records, Goto
<1>1. PICK m \in Disconnected(mgr[c]) : mgr' = [mgr EXCEPT ![c] = m]
    BY DEF NoticeGone, Aborts
<1>2. /\ pc[c] \in {"relay", "left", "reap"} /\ pc'[c] \in {"left", "trap"}
      /\ UNCHANGED <<group, ended>> /\ mgr'[c] = m /\ mgr[c] \in Managers
    BY <1>1 DEF NoticeGone, Aborts
<1>3. CASE mgr[c].at = "setup"
    <2>1. m.report = mgr[c].report /\ m.at \in {"setup", "gone"}
        BY <1>2, <1>3 DEF Disconnected, Managers
    <2> QED BY <1>2, <1>3, <2>1
<1>4. CASE mgr[c].at # "setup"
    <2>1. m.report = mgr[c].report /\ m.at = mgr[c].at
        BY <1>2, <1>4 DEF Disconnected, Escalate, Managers
    <2> QED BY <1>2, <2>1
<1> QED BY <1>3, <1>4

\* The manager starts the provider, and reports only when the group is gone or
\* beyond KILL.
LEMMA ManagerSupervises ==
    ASSUME TypeOK, NEW c \in Conns, Supervised(c), Manager(c) \/ Cleanup(c)
    PROVE  Supervised(c)'
<1> USE DEF TypeOK, Supervised, records
<1>0. mgr[c] \in Managers
    OBVIOUS
<1>1. CASE CwdMoved(c)
    <2>1. /\ mgr'[c].at = "gone" /\ mgr'[c].report = "cwd" /\ UNCHANGED <<pc, group, ended>>
        BY <1>0, <1>1 DEF CwdMoved, Managers
    <2> QED BY <1>1, <2>1 DEF CwdMoved, Waiting
<1>2. CASE StartProvider(c)
    <2>1. /\ mgr'[c].at = "wait" /\ mgr'[c].report = mgr[c].report /\ UNCHANGED <<pc, ended>>
        BY <1>0, <1>2 DEF StartProvider, Managers
    <2> QED BY <1>2, <2>1 DEF StartProvider, Waiting
<1>3. CASE Timeout(c)
    <2>1. /\ mgr'[c].at = mgr[c].at /\ mgr'[c].report = mgr[c].report
          /\ UNCHANGED <<pc, group, ended>>
        BY <1>0, <1>3 DEF Timeout, Escalate, Managers
    <2> QED BY <2>1
<1>4. CASE Killer(c)
    <2>1. /\ mgr'[c].at = mgr[c].at /\ mgr'[c].report = mgr[c].report
          /\ UNCHANGED <<pc, ended>> /\ group'[c] \subseteq group[c]
        BY <1>0, <1>4 DEF Killer, Spared, Managers
    <2> QED BY <2>1
<1>5. CASE ReapLeader(c)
    <2>1. /\ mgr'[c].at = "settle" /\ mgr'[c].report = mgr[c].report
          /\ UNCHANGED <<pc, group, ended>>
        BY <1>0, <1>5 DEF ReapLeader, Managers
    <2> QED BY <1>5, <2>1 DEF ReapLeader, Waiting
<1>6. CASE Settle(c)
    <2>1. /\ mgr'[c].at = "gone" /\ UNCHANGED <<pc, ended>>
          /\ group'[c] = group[c] \cap {"away", "stuck"}
          /\ \/ mgr'[c].report = mgr[c].report
             \/ mgr'[c].report = IF "stuck" \in group[c] THEN "left" ELSE "clean"
        BY <1>0, <1>6 DEF Settle, Spared, Managers
    <2> QED BY <1>6, <2>1 DEF Settle, Waiting
<1>7. CASE Cleanup(c)
    <2>1. /\ mgr'[c] = NoManager /\ group'[c] = group[c] \cap {"stuck"}
          /\ UNCHANGED <<pc, ended>>
        BY <1>7 DEF Cleanup
    <2>2. NoManager.at = "none" /\ NoManager.report = "none"
        BY DEF NoManager
    <2> QED BY <2>1, <2>2
<1> QED BY <1>1, <1>2, <1>3, <1>4, <1>5, <1>6, <1>7 DEF Manager

\* A provider whose members are gone or stuck brings forth no others.
LEMMA ProviderSupervises ==
    ASSUME TypeOK, NEW c \in Conns, Supervised(c), Provider(c)
    PROVE  Supervised(c)'
<1> USE DEF TypeOK, Supervised, Waiting, records
<1>1. CASE Fork(c) \/ Daemonise(c)
    BY <1>1 DEF Fork, Daemonise, InGroup
<1>2. CASE Stick(c)
    BY <1>2 DEF Stick
<1>3. ASSUME NEW p \in {"leader", "member", "stuck", "away"}, ProcessExits(c, p)
      PROVE  Supervised(c)'
    BY <1>3 DEF ProcessExits
<1> QED BY <1>1, <1>2, <1>3 DEF Provider

\* A step of one connection leaves the attempts of the others alone.
LEMMA OthersSupervised ==
    ASSUME TypeOK, NEW c \in Conns, NEW d \in Conns, d # c,
           Handler(c) \/ Manager(c) \/ Provider(c) \/ Outside(c)
    PROVE  /\ pc'[d] = pc[d] /\ client'[d] = client[d] /\ orphans'[d] = orphans[d]
           /\ mgr'[d] = mgr[d] /\ group'[d] = group[d] /\ ended'[d] = ended[d]
           /\ lease'[d] = lease[d] /\ scan'[d] = scan[d]
<1> USE DEF TypeOK, admission, records, enactment, history, Goto, Unlock
<1>1. CASE Handler(c)
    <2>1. CASE Reject(c) \/ Admit(c) \/ AdmitTimeout(c) \/ \E f \in Leases : Probe(c, f)
        BY <2>1 DEF Reject, Admit, AdmitTimeout, Probe
    <2>2. CASE Answer(c) \/ OverCapacity(c) \/ Allot(c) \/ Unresolved(c)
               \/ \E verdict \in {"allow", "deny"} : CommitDecided(c, verdict)
        BY <2>2 DEF Answer, OverCapacity, Allot, Unresolved, CommitDecided
    <2>3. CASE Prologue(c) \/ RefusePreflight(c) \/ StartManager(c)
        BY <2>3 DEF Prologue, RefusePreflight, StartManager, CommitEnded
    <2>4. CASE NoticeGone(c) \/ Eof(c) \/ Reap(c) \/ Exit(c)
        BY <2>4 DEF NoticeGone, Eof, Reap, Exit, CommitEnded
    <2> QED BY <1>1, <2>1, <2>2, <2>3, <2>4 DEF Handler
<1>2. CASE Manager(c) \/ Provider(c)
    BY <1>2 DEF Manager, Provider, CwdMoved, StartProvider, Timeout, Killer, ReapLeader, Settle,
                Fork, Daemonise, Stick, ProcessExits
<1>3. CASE Outside(c)
    BY <1>3 DEF Outside, Connect, Leave, Aborts, Kill, Cleanup, StoreError, DiePreflight
<1> QED BY <1>1, <1>2, <1>3

\* Every step keeps what is known of the managers.
LEMMA EnactmentStep ==
    ASSUME TypeOK, Enactment, [Next]_vars
    PROVE  Enactment'
<1>1. ASSUME NEW c \in Conns, Handler(c) \/ Manager(c) \/ Provider(c) \/ Outside(c),
             NEW d \in Conns
      PROVE  Supervised(d)'
    <2>1. CASE d = c
        <3>1. Supervised(c)
            BY DEF Enactment
        <3> QED BY <1>1, <2>1, <3>1, HandlerSupervises, EndingSupervises, SignalSupervises,
                   ManagerSupervises, ProviderSupervises DEF Handler, Outside
    <2>2. CASE d # c
        <3>1. /\ pc'[d] = pc[d] /\ mgr'[d] = mgr[d] /\ group'[d] = group[d]
              /\ ended'[d] = ended[d]
            BY <1>1, <2>2, OthersSupervised
        <3> QED BY <3>1 DEF Enactment, Supervised
    <2> QED BY <2>1, <2>2
<1>2. CASE UNCHANGED vars
    BY <1>2 DEF vars, records, enactment, Enactment, Supervised
<1> QED BY <1>1, <1>2 DEF Next, Enactment
-----------------------------------------------------------------------------
(* Questions. *)

\* A launch that is over stays so: nothing gets past the prologue without a
\* peer.
LEMMA OverStays ==
    ASSUME TypeOK, NEW d \in Conns, Over(d), [Next]_vars
    PROVE  Over(d)'
<1> USE DEF TypeOK, Over, Goto
<1>1. ASSUME NEW c \in Conns, Handler(c) \/ Manager(c) \/ Provider(c) \/ Outside(c)
      PROVE  Over(d)'
    <2>1. CASE d # c
        <3>1. pc'[d] = pc[d] /\ client'[d] = client[d]
            BY <1>1, <2>1, OthersSupervised
        <3> QED BY <3>1
    <2>2. CASE d = c /\ (Manager(c) \/ Provider(c))
        BY <2>2 DEF Manager, Provider, CwdMoved, StartProvider, Timeout, Killer, ReapLeader,
                    Settle, Fork, Daemonise, Stick, ProcessExits
    <2>3. CASE d = c /\ Outside(c)
        BY <2>3 DEF Outside, Connect, Leave, Aborts, Kill, Cleanup, StoreError, DiePreflight
    <2>4. CASE d = c /\ Handler(c)
        <3>1. CASE Reject(c) \/ Admit(c) \/ AdmitTimeout(c) \/ \E f \in Leases : Probe(c, f)
            BY <2>4, <3>1 DEF Reject, Admit, AdmitTimeout, Probe
        <3>2. CASE Answer(c) \/ OverCapacity(c) \/ Allot(c) \/ Unresolved(c)
                   \/ \E verdict \in {"allow", "deny"} : CommitDecided(c, verdict)
            BY <2>4, <3>2 DEF Answer, OverCapacity, Allot, Unresolved, CommitDecided
        <3>3. CASE Prologue(c) \/ RefusePreflight(c) \/ StartManager(c)
            BY <2>4, <3>3 DEF Prologue, RefusePreflight, StartManager
        <3>4. CASE NoticeGone(c) \/ Eof(c) \/ Reap(c) \/ Exit(c)
            BY <2>4, <3>4 DEF NoticeGone, Eof, Reap, Exit
        <3> QED BY <2>4, <3>1, <3>2, <3>3, <3>4 DEF Handler
    <2> QED BY <1>1, <2>1, <2>2, <2>3, <2>4
<1>2. CASE UNCHANGED vars
    BY <1>2 DEF vars
<1> QED BY <1>1, <1>2 DEF Next

\* Who writes the history, and what happens to a peer.
LEMMA HistorySteps ==
    ASSUME TypeOK, NEW c \in Conns, Handler(c) \/ Manager(c) \/ Provider(c) \/ Outside(c)
    PROVE  /\ orphans' = orphans \/ Connect(c)
           /\ cleared' = cleared \/ Answer(c)
           /\ \A d \in Conns : client'[d] => client[d]
           /\ pc'[c] # "idle" \/ (pc'[c] = pc[c] /\ client'[c] = client[c])
           /\ pc'[c] = "scan" => Admit(c) \/ (pc[c] = "scan" /\ client' = client)
                                 \/ (pc[c] = "scan" /\ Leave(c))
<1> USE DEF TypeOK, history, Goto
<1>1. CASE Manager(c) \/ Provider(c)
    BY <1>1 DEF Manager, Provider, CwdMoved, StartProvider, Timeout, Killer, ReapLeader, Settle,
                Fork, Daemonise, Stick, ProcessExits
<1>2. CASE Outside(c)
    BY <1>2 DEF Outside, Connect, Leave, Aborts, Kill, Cleanup, StoreError, DiePreflight
<1>3. CASE Handler(c)
    <2>1. CASE Reject(c) \/ Admit(c) \/ AdmitTimeout(c) \/ \E f \in Leases : Probe(c, f)
        BY <2>1 DEF Reject, Admit, AdmitTimeout, Probe
    <2>2. CASE Answer(c) \/ OverCapacity(c) \/ Allot(c) \/ Unresolved(c)
               \/ \E verdict \in {"allow", "deny"} : CommitDecided(c, verdict)
        BY <2>2 DEF Answer, OverCapacity, Allot, Unresolved, CommitDecided
    <2>3. CASE Prologue(c) \/ RefusePreflight(c) \/ StartManager(c)
        BY <2>3 DEF Prologue, RefusePreflight, StartManager
    <2>4. CASE NoticeGone(c) \/ Eof(c) \/ Reap(c) \/ Exit(c)
        BY <2>4 DEF NoticeGone, Eof, Reap, Exit
    <2> QED BY <1>3, <2>1, <2>2, <2>3, <2>4 DEF Handler
<1> QED BY <1>1, <1>2, <1>3

\* Which leases and walks a step changes.
LEMMA WalkSteps ==
    ASSUME TypeOK, LockHeld, NEW c \in Conns, pc[c] = "scan", pc'[c] = "scan", [Next]_vars
    PROVE  /\ scan'[c] = scan[c] \/ \E f \in Leases : Probe(c, f)
           /\ \A d \in Conns : lease'[d] = lease[d] \/ pc'[d] \in {"gone", "dead"}
<1> USE BrokerAssumption DEF TypeOK, LockHeld, Goto, Unlock
<1>1. CASE UNCHANGED <<pc, lock, files, lease, scan>>
    BY <1>1
<1>2. ASSUME NEW e \in Conns, Passes(e) PROVE UNCHANGED <<lease, scan>>
    BY <1>2 DEF Passes
<1>3. ASSUME NEW e \in Conns, Admit(e) \/ Answer(e) \/ OverCapacity(e) \/ Allot(e) PROVE FALSE
    BY <1>3 DEF Admit, Answer, OverCapacity, Allot
<1>4. ASSUME NEW e \in Conns, NEW f \in Leases, Probe(e, f)
      PROVE  e = c /\ lease' = lease
    BY <1>4 DEF Probe
<1>5. ASSUME NEW e \in Conns, StoreError(e) \/ Exit(e) \/ Kill(e)
      PROVE  /\ scan'[c] = scan[c]
             /\ \A d \in Conns : lease'[d] = lease[d] \/ pc'[d] \in {"gone", "dead"}
    BY <1>5 DEF StoreError, Exit, Kill
<1> QED BY <1>1, <1>2, <1>3, <1>4, <1>5, AdmissionSteps

\* A turn that is not over when its question begins to walk has a lease among
\* those to be probed, and a probe of it finds it alive.
LEMMA WalkMeets ==
    ASSUME TypeOK, LockHeld, LeasesHeld, Questions, [Next]_vars,
           NEW c \in Conns, NEW d \in orphans[c], pc'[c] = "scan"
    PROVE  Over(d)' \/ lease'[d] \in scan'[c].left \/ scan'[c].mine > 0
<1>1. /\ d \in Conns /\ d \in Launches /\ ~client[d] /\ pc[d] # "idle" /\ c # d
      /\ Stem(d) = <<Requests[c].agent, "sup">>
    BY DEF TypeOK, Launches, Questions
<1>2. CASE Over(d)
    BY <1>1, <1>2, OverStays
<1>3. CASE ~Over(d) /\ pc[c] = "scan"
    <2>1. /\ scan'[c] = scan[c] \/ \E f \in Leases : Probe(c, f)
          /\ lease'[d] = lease[d] \/ pc'[d] \in {"gone", "dead"}
        BY <1>1, <1>3, WalkSteps
    <2>2. ~client'[d]
        BY <1>1, HistorySteps DEF Next, vars, TypeOK
    <2>3. CASE pc'[d] \in {"gone", "dead"}
        BY <2>2, <2>3 DEF Over
    <2>4. CASE lease'[d] = lease[d] /\ scan'[c] = scan[c]
        BY <1>3, <2>4 DEF Questions
    <2>5. ASSUME NEW f \in Leases, Probe(c, f), lease'[d] = lease[d]
          PROVE  lease'[d] \in scan'[c].left \/ scan'[c].mine > 0
        <3>1. scan[c].mine \in Nat /\ (lease[d] \in scan[c].left \/ scan[c].mine > 0)
            BY <1>3 DEF Questions, TypeOK, Scans
        <3>2. /\ scan'[c].left = scan[c].left \ {f}
              /\ scan'[c].mine = scan[c].mine +
                    (IF f \in Held /\ f[1] = <<Requests[c].agent, "sup">> THEN 1 ELSE 0)
            BY <2>5 DEF Probe, TypeOK
        <3>3. CASE f # lease[d] \/ scan[c].mine > 0
            BY <2>5, <3>1, <3>2, <3>3
        <3>4. CASE f = lease[d]
            <4>1. f # None
                BY LeaseAssumption
            <4>2. f \in Held /\ f[1] = Stem(d)
                BY <1>1, <3>4, <4>1 DEF Held, LeasesHeld
            <4> QED BY <1>1, <3>1, <3>2, <4>2
        <3> QED BY <3>3, <3>4
    <2> QED BY <2>1, <2>3, <2>4, <2>5
<1>4. CASE ~Over(d) /\ pc[c] # "scan"
    <2>1. Admit(c)
        <3>1. ASSUME NEW e \in Conns, Handler(e) \/ Manager(e) \/ Provider(e) \/ Outside(e)
              PROVE  Admit(c)
            <4>1. e = c
                BY <1>4, <3>1, OthersSupervised
            <4> QED BY <1>4, <3>1, <4>1, HistorySteps
        <3>2. pc' # pc
            BY <1>4
        <3> QED BY <3>1, <3>2 DEF Next, vars
    <2>2. pc[d] \in Admitted
        BY <1>1, <1>4 DEF Over, TypeOK, Admitted
    <2>3. lease[d] \in files
        BY <1>1, <2>2 DEF LeasesHeld
    <2>4. lease' = lease /\ scan'[c].left = files
        BY <2>1 DEF Admit, TypeOK, NoScan
    <2> QED BY <2>3, <2>4
<1> QED BY <1>2, <1>3, <1>4

\* Every step keeps what a question knows of the turns it asks about.
LEMMA QuestionsStep ==
    ASSUME TypeOK, LockHeld, LeasesHeld, Questions, [Next]_vars
    PROVE  Questions'
<1>1. CASE UNCHANGED vars
    BY <1>1 DEF vars, admission, history, Questions, Over
<1>2. ASSUME NEW e \in Conns, Handler(e) \/ Manager(e) \/ Provider(e) \/ Outside(e)
      PROVE  Questions'
    <2>0. /\ orphans' = orphans \/ Connect(e)
          /\ cleared' = cleared \/ Answer(e)
          /\ \A d \in Conns : client'[d] => client[d]
        BY <1>2, HistorySteps
    <2>1. ASSUME NEW c \in Conns, pc'[c] = "idle" PROVE client'[c]
        <3>1. pc'[c] = pc[c] /\ client'[c] = client[c]
            BY <1>2, <2>1, HistorySteps, OthersSupervised
        <3> QED BY <2>1, <3>1 DEF Questions
    <2>2. ASSUME NEW c \in Conns, NEW d \in orphans'[c]
          PROVE  /\ ~client'[d]
                 /\ Requests[c].op = "leases" /\ Stem(d) = <<Requests[c].agent, "sup">>
                 /\ pc'[c] = "scan" =>
                      Over(d)' \/ lease'[d] \in scan'[c].left \/ scan'[c].mine > 0
        <3>1. CASE d \in orphans[c]
            <4>1. d \in Conns
                BY <3>1 DEF TypeOK, Launches
            <4> QED BY <2>0, <3>1, <4>1, WalkMeets DEF Questions
        <3>2. CASE d \notin orphans[c]
            <4>1. Connect(e) /\ c = e
                BY <1>2, <2>0, <2>2, <3>2, OthersSupervised
            <4>2. /\ pc'[c] = "read" /\ Requests[c].op # "launch" /\ client' = client
                  /\ d \in Launches /\ ~client[d] /\ Stem(d) = <<Requests[c].agent, "sup">>
                BY <2>2, <4>1 DEF Connect, Goto, TypeOK
            <4> QED BY <4>2, BrokerAssumption
        <3> QED BY <3>1, <3>2
    <2>3. ASSUME NEW d \in cleared' PROVE Over(d)'
        <3>1. CASE d \in cleared
            BY <3>1, OverStays DEF Questions, TypeOK, Launches
        <3>2. CASE d \notin cleared
            <4>1. /\ Answer(e) /\ d \in orphans[e] /\ scan[e].mine = 0 /\ scan[e].left = {}
                  /\ pc[e] = "scan"
                BY <2>0, <2>3, <3>2 DEF Answer
            <4>2. Over(d) /\ d \in Conns
                BY <4>1 DEF Questions, TypeOK, Launches
            <4> QED BY <4>2, OverStays
        <3> QED BY <3>1, <3>2
    <2> QED BY <2>1, <2>2, <2>3 DEF Questions
<1> QED BY <1>1, <1>2 DEF Next

-----------------------------------------------------------------------------
(* The theorems. *)

\* The invariant is inductive.
LEMMA IInvStep == IInv /\ [Next]_vars => IInv'
    BY TypeStep, AdmissionStep, EnactmentStep, QuestionsStep DEF IInv, Admission

\* The broker's state has its types.
THEOREM BrokerTypes == Spec => []TypeOK
<1>1. IInv => TypeOK
    BY DEF IInv
<1> QED BY <1>1, InitIInv, IInvStep, PTL DEF Spec

\* Whatever handlers race, end or are killed while leases are probed one by
\* one, no more attempts than AIB_BROKER_CAPACITY are admitted and no two
\* hold the same lease (aib-broker-handler, admission).
THEOREM CapacityAlwaysHolds == Spec => []CapacityHolds
<1>1. IInv => CapacityHolds
    BY DEF IInv, Admission, LeasesHeld, CapacityHolds
<1> QED BY <1>1, InitIInv, IInvStep, PTL DEF Spec

\* A launch that is below the capacity finds an index below it, although the
\* files of ended and killed handlers stay behind until a launch removes them.
THEOREM IndexAlwaysFree == Spec => []IndexFree
<1>1. IInv => IndexFree
    <2> SUFFICES ASSUME IInv, NEW c \in Launches, pc[c] = "scan", scan[c].left = {},
                        scan[c].live < Capacity
                 PROVE  FreeSlot(c) < Capacity
        BY DEF IndexFree
    <2>1. c \in Conns
        BY DEF Launches
    <2>2. scan[c].live = Cardinality(files \ {}) /\ IsFiniteSet(files)
        BY <2>1 DEF IInv, Admission, ScanCounts, FilesCounted
    <2>3. files \ {} = files
        OBVIOUS
    <2>4. FreeSlot(c) \in 0 .. Cardinality(files) /\ Cardinality(files) \in Nat
        BY <2>2, FreeSlotFree, FS_CardinalityType
    <2> QED BY <2>2, <2>3, <2>4, BrokerAssumption
<1> QED BY <1>1, InitIInv, IInvStep, PTL DEF Spec

\* attempt.ended is committed only when the provider is over, in every order of
\* peer, provider, timer, killer, signals and kills (aib_enact_launch).
THEOREM EndedAlwaysOver == Spec => []EndedIsOver
<1>1. IInv => EndedIsOver
    BY DEF IInv, Enactment, Supervised, EndedIsOver, InGroup
<1> QED BY <1>1, InitIInv, IInvStep, PTL DEF Spec

\* A supervisor that was told "supervised=0" never meets those turns again.
THEOREM QueryAlwaysClears == Spec => []QueryClears
<1>1. IInv => QueryClears
    <2> SUFFICES ASSUME IInv, NEW c \in cleared, pc[c] # "dead"
                 PROVE  group[c] \subseteq {"stuck", "away"}
        BY DEF QueryClears
    <2>1. c \in Conns /\ Over(c) /\ Supervised(c)
        BY DEF IInv, TypeOK, Launches, Questions, Enactment
    <2> QED BY <2>1 DEF Over, Supervised, IInv, TypeOK, Managers
<1> QED BY <1>1, InitIInv, IInvStep, PTL DEF Spec
=============================================================================
