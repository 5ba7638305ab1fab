------------------------- MODULE IntentApplyProofs --------------------------
(***************************************************************************)
(* Theorems about one task in its worker's hands, for any files, limits,   *)
(* faults and number of turns.                                             *)
(*                                                                         *)
(* A handler is a list of durable steps, and a restart begins a new one,   *)
(* so the argument is about which steps may stand before which others      *)
(* (Precedes) and what has to be true while a step is still to be taken.   *)
(*                                                                         *)
(* The invariant has four layers: the frame (types and plans), applying    *)
(* (closed rows, records and the ledger's answers), outcome (one, and told *)
(* as it was taken) and following (the one further message).               *)
(***************************************************************************)
EXTENDS IntentApply, Integers, SequenceTheorems, LeastNumber

\* The steps left in a plan.
In(s) == {s[i] : i \in 1 .. Len(s)}

Words == Final \cup {"cancelled"}

RowSteps == {"row", "record", "budget"}
ReportSteps == {"report", "send", "sent", "unsent"}
LastSteps == {"choose", "prepare", "activate", "pickup", "start", "engine"}

\* The steps of a start-up up to the closing of what was left open.
Opening == {"await", "adopt", "gone", "close", "resolve", "quarantine", "taint"}

AttemptSteps == RowSteps \cup
    {"quarantine", "taint", "retry", "apply", "self", "applied", "unlink", "done", "close",
     "file", "recheck", "finish", "service_fail", "adopt", "resolve"}

Closing(s) == s.op \in {"close", "close_all"} \/ (s.op = "apply" /\ s.w = "close")

\* Step p may stand before step q in one plan.
Precedes(p, q) ==
    /\ p.op \notin LastSteps
    /\ q.op \in RowSteps => p.op \in ReportSteps
    /\ Closing(q) => p.op \in Opening

Ordered(s) == \A i, j \in 1 .. Len(s) : i < j => Precedes(s[i], s[j])

\* What the steps are about.
StepOK(s) ==
    /\ s.op \in AttemptSteps => s.a \in Attempts
    /\ s.op \in {"report", "send"} => s.w \in Words
    /\ s.op = "record" => s.w \in Outcomes
    /\ s.op = "self" => s.w \in {"c", "r"}
    /\ s.op = "adopt" => s.a <= jn.last
    /\ s.op \in {"resend", "send", "sent", "unsent"} => jn.report[s.a].says \in Words

OtherSteps ==
    {"resend", "missing", "no_report", "await", "gone", "close_all", "reports", "orphans",
     "scan", "sweep", "dlq", "dlq_done", "work_done", "work_failed"}

Ops == ReportSteps \cup LastSteps \cup AttemptSteps \cup OtherSteps

Marks == Words \cup Outcomes \cup
    {"none", "c", "r", "close", "scan", "first", "ok", "infra", "failure", "turn",
     "ASSIGNED", "IN_PROGRESS"}

Steps == [op : Ops, a : ReportIds, w : Marks]

PlanOK ==
    /\ todo \in Seq(Steps)
    /\ Ordered(todo)
    /\ \A s \in In(todo) : StepOK(s)

Contents == Files \cup {<<>>}
Events == Reports \cup {"start", "cancelled"}
TaskStates == States \ {"none"}

Reporting == [st : {"none", "pending", "delivered", "undeliverable"}, n : Nat, says : Words \cup {"none"}]

Journals ==
    [open : 0 .. MaxAttempts, last : 0 .. MaxAttempts,
     msg : [Attempts -> MsgIds \cup {None}], task : [Attempts -> BOOLEAN],
     of : [Attempts -> 0 .. MaxAttempts], closed : [Attempts -> Contents \cup {None}],
     rec : [Attempts -> Seq(Outcomes)], applied : SUBSET Attempts, tainted : SUBSET Attempts,
     retries : [Attempts -> Nat], report : [ReportIds -> Reporting],
     missing : Nat, missed : ReportIds,
     defer : [Attempts -> Nat], pending : [Attempts -> SUBSET Attempts],
     dlq : BOOLEAN, prep : [MsgIds -> Int], errs : [MsgIds -> Nat], fails : [MsgIds -> Nat]]

Works == [msg : MsgIds \cup {None}, ready : BOOLEAN, task : BOOLEAN, state : Marks]

Locals == [rows : Contents, i : Nat \ {0}, was : States, handled : BOOLEAN,
           refused : BOOLEAN, cont : BOOLEAN, final : Final \cup {"none"}]

Ledgers == [state : TaskStates, turns : 0 .. Budget,
            yes : SUBSET [cause : Causes, ev : Events], no : SUBSET Causes]

Types ==
    /\ up \in BOOLEAN /\ turn \in 0 .. MaxAttempts /\ born \in 0 .. MaxAttempts
    /\ alive \subseteq Attempts
    /\ acc \in Locals /\ work \in Works /\ jn \in Journals /\ ledger \in Ledgers
    /\ file \in [Attempts -> Contents]
    /\ inbox \in [MsgIds -> {"absent", "open", "seen", "done", "failed"}]
    /\ told \in [ReportIds -> Seq(Words)]
    /\ faults \in 0 .. MaxFaults /\ waived \subseteq {"idle", "lost"}

\* Nothing in the journal is about a turn that has not begun.
Begun ==
    /\ jn.open <= jn.last /\ turn <= jn.last
    /\ \A a \in Attempts : jn.of[a] <= jn.last /\ (jn.defer[a] > 0 => a <= jn.last)

Saying == \A r \in ReportIds : jn.report[r].st # "none" => jn.report[r].says \in Words

\* While a turn runs the supervisor has nothing else to do, and its work is
\* the turn's.
Turning == turn # 0 => up /\ todo = <<>> /\ jn.task[turn] = work.task

Frame == Types /\ PlanOK /\ Begun /\ Saying /\ Turning

-----------------------------------------------------------------------------
\* Step s closes attempt a.
Closes(s, a) == Closing(s) /\ (s.op = "close_all" \/ s.a = a)

\* A claimed attempt of the task is closed, or will be before a file is read.
Owing ==
    up => \A a \in Claimed : jn.task[jn.of[a]] /\ jn.closed[a] = None =>
            \E s \in In(todo) : Closes(s, a)

Scanned == \A s \in In(todo) : s.op = "apply" /\ s.w # "close" => jn.closed[s.a] # None

\* The ledger refused the row, or was never asked.
TurnedDown(a, i) == <<"row", a, i>> \in ledger.no \/ jn.closed[a][i] \notin Reports

Took(c, ev) == [cause |-> c, ev |-> ev] \in ledger.yes

\* The outcome o on record for row i of a, or about to be.
Answered(a, i, o) ==
    /\ o \in Reports => Took(<<"row", a, i>>, o)
    /\ o = "rejected" => TurnedDown(a, i)

\* The rows being applied are those closed, and the record keeps pace.
RowAt(s) ==
    /\ jn.closed[s.a] # None /\ acc.rows = jn.closed[s.a]
    /\ s.op = "row" => acc.i <= Len(jn.rec[s.a]) + 1
    /\ s.op # "row" => acc.i = Len(jn.rec[s.a]) + 1 /\ acc.i <= Len(acc.rows)
    /\ s.op = "record" => Answered(s.a, acc.i, s.w)

Rowing == \A s \in In(todo) : s.op \in RowSteps => RowAt(s)

Complete(a) == jn.closed[a] # None /\ Len(jn.rec[a]) = Len(jn.closed[a])

Recorded ==
    /\ \A a \in Attempts :
         /\ jn.rec[a] # <<>> => jn.closed[a] # None /\ Len(jn.rec[a]) <= Len(jn.closed[a])
         /\ \A i \in 1 .. Len(jn.rec[a]) : Answered(a, i, jn.rec[a][i])
         /\ a \in jn.applied => Complete(a)
    /\ \A s \in In(todo) : s.op = "applied" => Complete(s.a)

\* What each cause can stand for in the ledger.
CauseFits(y) ==
    LET c == y.cause IN
    /\ c[1] = "row" => y.ev \in Reports /\ c[2] \in Attempts /\ jn.closed[c[2]] # None
                         /\ c[3] \in 1 .. Len(jn.closed[c[2]]) /\ jn.closed[c[2]][c[3]] = y.ev
    /\ c[1] = "start" => y.ev = "start"
    /\ c[1] \in {"budget", "no_report"} => y.ev = "blocked"
    /\ c[1] = "fail" => y.ev = "failed"
    /\ c[1] = "delivery" => y.ev = "cancelled"

Answering ==
    /\ \A y \in ledger.yes : CauseFits(y) /\ y.cause \notin ledger.no
    /\ \A y, z \in ledger.yes : y.cause = z.cause => y = z

Applying == Owing /\ Scanned /\ Rowing /\ Recorded /\ Answering

-----------------------------------------------------------------------------
\* The task is over once an outcome was taken, and only one is.
OneOutcome ==
    /\ \A y \in ledger.yes : y.ev \in Words => ledger.state \notin {"ASSIGNED", "IN_PROGRESS"}
    /\ \A y, z \in ledger.yes : y.ev \in Words /\ z.ev \in Words => y = z

\* The report that tells outcome y.
ReportOf(y, r) ==
    LET c == y.cause IN
    /\ c[1] \in {"row", "budget", "fail"} => r = c[2]
    /\ c[1] = "delivery" => r = Delivery

Backed(r, w) == w \in Words /\ \E y \in ledger.yes : y.ev = w /\ ReportOf(y, r)

Telling ==
    /\ \A r \in ReportIds : \A k \in 1 .. Len(told[r]) : Backed(r, told[r][k])
    /\ \A r \in ReportIds : jn.report[r].st # "none" => Backed(r, jn.report[r].says)
    /\ \A s \in In(todo) :
         /\ s.op \in {"report", "send"} => Backed(s.a, s.w)
         /\ s.op \in {"send", "sent", "unsent", "resend"} => jn.report[s.a].st # "none"
         /\ s.op \in RowSteps /\ acc.final # "none" => Backed(s.a, acc.final)

Outcome == OneOutcome /\ Telling

-----------------------------------------------------------------------------
\* Outcome o is on record for a row of a.
OnRecord(a, o) == \E i \in 1 .. Len(jn.rec[a]) : jn.rec[a][i] = o

Counts(s) ==
    /\ acc.cont => acc.handled
    /\ acc.refused => OnRecord(s.a, "rejected")
    /\ acc.cont => OnRecord(s.a, "continue")
    /\ ~acc.refused => \A i \in 1 .. Len(jn.rec[s.a]) : i < acc.i => jn.rec[s.a][i] # "rejected"

Continues(a) == Complete(a) /\ ~OnRecord(a, "rejected")

Following ==
    /\ \A s \in In(todo) : s.op \in RowSteps => Counts(s)
    /\ \A s \in In(todo) : s.op = "self" =>
         IF s.w = "c" THEN Continues(s.a) ELSE OnRecord(s.a, "rejected")
    /\ \A a \in Attempts :
         /\ inbox[<<"c", a>>] # "absent" => Continues(a)
         /\ inbox[<<"r", a>>] # "absent" => OnRecord(a, "rejected")

IInv == Frame /\ Applying /\ Outcome /\ Following

-----------------------------------------------------------------------------
(***************************************************************************)
(* Plans.                                                                  *)
(***************************************************************************)
\* A bounded set of numbers can be listed in ascending order.
LEMMA Listed ==
    ASSUME NEW N \in Nat, NEW S \in SUBSET (0 .. N)
    PROVE  IsFiniteSet(S) /\ InOrder(S) \in [1 .. Cardinality(S) -> S]
<1> DEFINE Rising(s, n) == \A i, j \in 1 .. n : i < j => s[i] < s[j]
           Good(T) == \E s \in [1 .. Cardinality(T) -> T] : Rising(s, Cardinality(T))
           Bad == {n \in Nat : \E T \in SUBSET S : Cardinality(T) = n /\ ~Good(T)}
<1>1. IsFiniteSet(S) /\ \A T \in SUBSET S : IsFiniteSet(T) /\ Cardinality(T) \in Nat
    <2>1. IsFiniteSet(0 .. N)
        BY FS_Interval
    <2>2. \A T \in SUBSET (0 .. N) : IsFiniteSet(T)
        BY <2>1, FS_Subset
    <2> QED
        BY <2>2, FS_CardinalityType
<1>2. Bad = {}
    <2> SUFFICES ASSUME Bad # {} PROVE FALSE
        OBVIOUS
    <2>1. PICK n \in Bad : \A m \in Bad : n <= m
        BY LeastNatural
    <2>2. PICK T \in SUBSET S : Cardinality(T) = n /\ ~Good(T)
        OBVIOUS
    <2>3. CASE T = {}
        <3>1. Cardinality(T) = 0
            BY <2>3, FS_EmptySet
        <3> DEFINE s == [i \in 1 .. 0 |-> 0]
        <3>2. s \in [1 .. Cardinality(T) -> T] /\ Rising(s, Cardinality(T))
            BY <3>1
        <3>3. Good(T)
            BY <3>2
        <3> QED
            BY <2>2, <3>3
    <2>4. CASE T # {}
        <3> DEFINE Above == {m \in Nat : \A y \in T : y <= m}
        <3>1. PICK x \in Above : \A m \in Above : x <= m
            <4>1. N \in Above
                OBVIOUS
            <4> QED
                BY <4>1, LeastNatural
        <3>2. x \in T
            <4> SUFFICES ASSUME x \notin T PROVE FALSE
                OBVIOUS
            <4>1. \A y \in T : y \in Nat /\ y <= x /\ y # x
                BY <3>1
            <4>2. x # 0 /\ x - 1 \in Nat
                <5>1. PICK y \in T : TRUE
                    BY <2>4
                <5> QED
                    BY <3>1, <4>1, <5>1
            <4>3. x - 1 \in Above
                BY <4>1, <4>2
            <4> QED
                BY <3>1, <4>3
        <3> DEFINE R == T \ {x}
        <3>3. Cardinality(R) = n - 1 /\ R \in SUBSET S /\ n - 1 \in Nat
            <4>1. IsFiniteSet(T) /\ n \in Nat /\ R \in SUBSET S
                BY <1>1, <2>2
            <4>2. Cardinality(R) = n - 1
                BY <2>2, <3>2, <4>1, FS_RemoveElement
            <4> QED
                BY <1>1, <4>1, <4>2
        <3>4. n - 1 \notin Bad
            BY <2>1, <3>3
        <3>5. PICK s \in [1 .. n - 1 -> R] : Rising(s, n - 1)
            <4>1. Good(R)
                BY <3>3, <3>4
            <4> QED
                BY <3>3, <4>1
        <3> DEFINE t == [i \in 1 .. n |-> IF i = n THEN x ELSE s[i]]
        <3>6. t \in [1 .. n -> T]
            BY <3>2, <3>3, <3>5
        <3>7. Rising(t, n)
            <4> SUFFICES ASSUME NEW i \in 1 .. n, NEW j \in 1 .. n, i < j
                         PROVE  t[i] < t[j]
                OBVIOUS
            <4>1. i \in 1 .. n - 1 /\ t[i] = s[i]
                BY <3>3
            <4>4. s[i] \in R /\ s[i] \in Nat
                <5>1. i \in 1 .. n - 1
                    BY <3>3
                <5>2. s[i] \in R
                    BY <3>5, <5>1
                <5>3. \A y \in R : y \in Nat
                    OBVIOUS
                <5> HIDE DEF R
                <5> QED
                    BY <5>2, <5>3
            <4>2. CASE j = n
                BY <3>1, <4>1, <4>2, <4>4
            <4>3. CASE j # n
                BY <3>5, <4>1, <4>3
            <4> QED
                BY <4>2, <4>3
        <3> QED
            BY <2>2, <3>6, <3>7
    <2> QED
        BY <2>3, <2>4
<1>3. Good(S)
    BY <1>1, <1>2
<1> QED
    BY <1>1, <1>3 DEF InOrder

\* One step for each member of a set.
LEMMA EachStep ==
    ASSUME NEW S \in SUBSET ReportIds, NEW op \in Ops
    PROVE  /\ Each(op, S) \in Seq(Steps)
           /\ \A s \in In(Each(op, S)) : s.op = op /\ s.a \in S /\ s.w = "none"
<1> DEFINE n == Cardinality(S)
<1>1. ReportIds = 0 .. MaxAttempts + 1 /\ MaxAttempts + 1 \in Nat
    BY IntentAssumption DEF ReportIds, Delivery
<1>2. n \in Nat /\ InOrder(S) \in [1 .. n -> S]
    BY <1>1, Listed, FS_CardinalityType
<1>3. ASSUME NEW k \in 1 .. n
      PROVE  /\ Do(op, InOrder(S)[k]) \in Steps
             /\ Do(op, InOrder(S)[k]).op = op
             /\ Do(op, InOrder(S)[k]).a \in S
             /\ Do(op, InOrder(S)[k]).w = "none"
    <2> DEFINE x == InOrder(S)[k]
    <2>1. x \in S /\ x \in ReportIds
        BY <1>2
    <2>2. Do(op, x) = [op |-> op, a |-> x, w |-> "none"]
        BY DEF Do, Step
    <2> HIDE DEF x
    <2>3. [op |-> op, a |-> x, w |-> "none"] \in Steps
        BY <2>1 DEF Steps, Marks
    <2> QED
        BY <2>1, <2>2, <2>3 DEF x
<1>4. Each(op, S) \in [1 .. n -> Steps]
    BY <1>3 DEF Each
<1>5. Each(op, S) \in Seq(Steps) /\ Len(Each(op, S)) = n
    <2> HIDE DEF n
    <2>1. Each(op, S) \in Seq(Steps)
        <3>1. [1 .. n -> Steps] \subseteq UNION {[1 .. k -> Steps] : k \in Nat}
            BY <1>2
        <3>2. Seq(Steps) = UNION {[1 .. k -> Steps] : k \in Nat}
            BY SeqDef
        <3> QED
            BY <1>4, <3>1, <3>2
    <2>2. DOMAIN Each(op, S) = 1 .. n /\ DOMAIN Each(op, S) = 1 .. Len(Each(op, S))
        BY <1>4, <2>1, LenProperties
    <2>3. Len(Each(op, S)) \in Nat
        BY <2>1, LenProperties
    <2> DEFINE m == Len(Each(op, S))
    <2>4. ~(m < n) /\ ~(n < m)
        <3>1. m < n => n \in 1 .. n /\ n \notin 1 .. m
            BY <1>2, <2>3
        <3>2. n < m => m \in 1 .. m /\ m \notin 1 .. n
            BY <1>2, <2>3
        <3> HIDE DEF m
        <3> QED
            BY <2>2, <3>1, <3>2 DEF m
    <2> QED
        BY <1>2, <2>1, <2>3, <2>4
<1>6. \A k \in 1 .. n : Each(op, S)[k] = Do(op, InOrder(S)[k])
    BY DEF Each
<1> QED
    BY <1>3, <1>5, <1>6 DEF In

\* Short plans.
LEMMA ShortPlans ==
    /\ <<>> \in Seq(Steps) /\ Ordered(<<>>) /\ In(<<>>) = {}
    /\ \A x \in Steps : <<x>> \in Seq(Steps) /\ Ordered(<<x>>) /\ In(<<x>>) = {x}
<1>1. <<>> \in Seq(Steps) /\ Len(<<>>) = 0
    OBVIOUS
<1>2. ASSUME NEW x \in Steps PROVE <<x>> \in Seq(Steps) /\ Len(<<x>>) = 1 /\ <<x>>[1] = x
    OBVIOUS
<1> QED
    BY <1>1, <1>2 DEF In, Ordered

\* Two plans, joined.
LEMMA Joined ==
    ASSUME NEW s \in Seq(Steps), NEW t \in Seq(Steps), Ordered(s), Ordered(t),
           \A p \in In(s), q \in In(t) : Precedes(p, q)
    PROVE  /\ s \o t \in Seq(Steps) /\ Ordered(s \o t)
           /\ In(s \o t) = In(s) \cup In(t)
<1> DEFINE u == s \o t
<1>1. /\ u \in Seq(Steps) /\ Len(u) = Len(s) + Len(t) /\ Len(s) \in Nat /\ Len(t) \in Nat
      /\ \A i \in 1 .. Len(u) : u[i] = IF i <= Len(s) THEN s[i] ELSE t[i - Len(s)]
    BY ConcatProperties, LenProperties
<1> HIDE DEF u
<1>2. \A i \in 1 .. Len(s) : i \in 1 .. Len(u) /\ u[i] = s[i]
    BY <1>1
<1>3. \A i \in 1 .. Len(t) : i + Len(s) \in 1 .. Len(u) /\ u[i + Len(s)] = t[i]
    BY <1>1
<1>4. In(u) = In(s) \cup In(t)
    <2>1. ASSUME NEW i \in 1 .. Len(u) PROVE u[i] \in In(s) \cup In(t)
        <3>1. i <= Len(s) \/ i - Len(s) \in 1 .. Len(t)
            BY <1>1
        <3> QED
            BY <1>1, <3>1 DEF In
    <2>2. ASSUME NEW i \in 1 .. Len(s) PROVE s[i] \in In(u)
        BY <1>2 DEF In
    <2>3. ASSUME NEW i \in 1 .. Len(t) PROVE t[i] \in In(u)
        BY <1>3 DEF In
    <2> QED
        BY <2>1, <2>2, <2>3 DEF In
<1>5. Ordered(u)
    <2> SUFFICES ASSUME NEW i \in 1 .. Len(u), NEW j \in 1 .. Len(u), i < j
                 PROVE  Precedes(u[i], u[j])
        BY DEF Ordered
    <2>1. CASE j <= Len(s)
        <3>1. i \in 1 .. Len(s) /\ j \in 1 .. Len(s) /\ u[i] = s[i] /\ u[j] = s[j]
            BY <1>1, <2>1
        <3> QED
            BY <3>1 DEF Ordered
    <2>2. CASE i > Len(s)
        <3>1. /\ i - Len(s) \in 1 .. Len(t) /\ j - Len(s) \in 1 .. Len(t)
              /\ i - Len(s) < j - Len(s)
              /\ u[i] = t[i - Len(s)] /\ u[j] = t[j - Len(s)]
            BY <1>1, <2>2
        <3> QED
            BY <3>1 DEF Ordered
    <2>3. CASE i <= Len(s) /\ j > Len(s)
        <3>1. /\ i \in 1 .. Len(s) /\ j - Len(s) \in 1 .. Len(t)
              /\ u[i] = s[i] /\ u[j] = t[j - Len(s)]
            BY <1>1, <2>3
        <3> QED
            BY <3>1 DEF In
    <2> QED
        BY <1>1, <2>1, <2>2, <2>3
<1> QED
    BY <1>1, <1>4, <1>5 DEF u

\* What a step may be replaced by.
Follows(h, p) ==
    \/ h.op \in LastSteps
    \/ /\ p.op \notin LastSteps
       /\ h.op \in ReportSteps => p.op \in ReportSteps
       /\ h.op \in Opening => p.op \in Opening

\* The plan goes on: its first step is replaced by steps of N.
Goes(N) ==
    /\ todo' \in Seq(Steps) /\ Ordered(todo')
    /\ In(Tail(todo)) \subseteq In(todo') /\ In(todo') \subseteq N \cup In(Tail(todo))

\* What is known of the rest of a plan.
LEMMA Rest ==
    ASSUME PlanOK, todo # <<>>
    PROVE  /\ Head(todo) \in Steps /\ Head(todo) \in In(todo) /\ StepOK(Head(todo))
           /\ Tail(todo) \in Seq(Steps) /\ Ordered(Tail(todo))
           /\ In(todo) = {Head(todo)} \cup In(Tail(todo))
           /\ \A q \in In(Tail(todo)) : Precedes(Head(todo), q) /\ q \in In(todo)
<1>1. /\ Tail(todo) \in Seq(Steps)
      /\ Len(Tail(todo)) = Len(todo) - 1
      /\ Len(todo) \in Nat \ {0}
      /\ Head(todo) = todo[1]
      /\ \A i \in 1 .. Len(Tail(todo)) : Tail(todo)[i] = todo[i + 1]
    BY EmptySeq, HeadTailProperties, LenProperties DEF PlanOK
<1>2. Head(todo) \in Steps /\ Head(todo) \in In(todo)
    BY <1>1, ElementOfSeq DEF In, PlanOK
<1>3. Ordered(Tail(todo))
    BY <1>1 DEF Ordered, PlanOK
<1>4. \A q \in In(Tail(todo)) : Precedes(Head(todo), q) /\ q \in In(todo)
    BY <1>1 DEF In, Ordered, PlanOK
<1>5. ASSUME NEW i \in 1 .. Len(todo), i # 1 PROVE todo[i] \in In(Tail(todo))
    <2>1. i - 1 \in 1 .. Len(Tail(todo)) /\ todo[i] = Tail(todo)[i - 1]
        BY <1>1, <1>5
    <2> QED
        BY <2>1 DEF In
<1>6. In(todo) = {Head(todo)} \cup In(Tail(todo))
    BY <1>1, <1>2, <1>4, <1>5 DEF In
<1> QED
    BY <1>1, <1>2, <1>3, <1>4, <1>6 DEF PlanOK

LEMMA GoesOn ==
    ASSUME PlanOK, todo # <<>>, NEW s \in Seq(Steps), Ordered(s), Then(s),
           \A p \in In(s) : Follows(Head(todo), p)
    PROVE  Goes(In(s))
<1>1. ASSUME NEW p \in In(s), NEW q \in In(Tail(todo)) PROVE Precedes(p, q)
    BY Rest DEF Follows, Precedes
<1> QED
    BY <1>1, Rest, Joined DEF Then, Goes

LEMMA GoNone ==
    ASSUME PlanOK, todo # <<>>, Then(<<>>)
    PROVE  Goes({})
BY ShortPlans, GoesOn

LEMMA GoOne ==
    ASSUME PlanOK, todo # <<>>, NEW x \in Steps, Then(<<x>>), Follows(Head(todo), x)
    PROVE  Goes({x})
<1>1. <<x>> \in Seq(Steps) /\ Ordered(<<x>>) /\ In(<<x>>) = {x}
    BY ShortPlans
<1>2. Goes(In(<<x>>))
    BY <1>1, GoesOn
<1> QED
    BY <1>1, <1>2

\* A step after a plan that may stand before it.
LEMMA Appended ==
    ASSUME NEW s \in Seq(Steps), NEW x \in Steps, Ordered(s),
           \A p \in In(s) : Precedes(p, x)
    PROVE  s \o <<x>> \in Seq(Steps) /\ Ordered(s \o <<x>>) /\ In(s \o <<x>>) = In(s) \cup {x}
<1>1. <<x>> \in Seq(Steps) /\ Ordered(<<x>>) /\ In(<<x>>) = {x}
    BY ShortPlans
<1>2. \A p \in In(s), q \in In(<<x>>) : Precedes(p, q)
    BY <1>1
<1> QED
    BY <1>1, <1>2, Joined

LEMMA Pair ==
    ASSUME NEW x \in Steps, NEW y \in Steps, Precedes(x, y)
    PROVE  <<x, y>> \in Seq(Steps) /\ Ordered(<<x, y>>) /\ In(<<x, y>>) = {x, y}
<1>1. <<x, y>> \in Seq(Steps) /\ Len(<<x, y>>) = 2 /\ <<x, y>>[1] = x /\ <<x, y>>[2] = y
    OBVIOUS
<1>2. \A i, j \in 1 .. 2 : i < j => i = 1 /\ j = 2
    OBVIOUS
<1> QED
    BY <1>1, <1>2 DEF In, Ordered

LEMMA GoTwo ==
    ASSUME PlanOK, todo # <<>>, NEW x \in Steps, NEW y \in Steps, Precedes(x, y),
           Then(<<x, y>>), Follows(Head(todo), x), Follows(Head(todo), y)
    PROVE  Goes({x, y})
<1>1. <<x, y>> \in Seq(Steps) /\ Ordered(<<x, y>>) /\ In(<<x, y>>) = {x, y}
    BY Pair
<1>2. Goes(In(<<x, y>>))
    BY <1>1, GoesOn
<1> QED
    BY <1>1, <1>2

\* Steps of one kind, none of which closes anything nor applies rows.
LEMMA EachPlan ==
    ASSUME NEW S \in SUBSET ReportIds, NEW op \in Ops,
           op \notin LastSteps \cup RowSteps, op \in Opening \/ ~(op \in {"close", "close_all"})
    PROVE  Each(op, S) \in Seq(Steps) /\ Ordered(Each(op, S))
<1>1. \A p, q \in In(Each(op, S)) : Precedes(p, q)
    BY EachStep DEF Precedes, Closing
<1> QED
    BY <1>1, EachStep DEF Ordered, In

LEMMA GoEach ==
    ASSUME PlanOK, todo # <<>>, NEW S \in SUBSET ReportIds, NEW op \in Ops,
           op \notin LastSteps \cup RowSteps, op \in Opening \/ ~(op \in {"close", "close_all"}),
           Then(Each(op, S)),
           \A p \in Steps : p.op = op => Follows(Head(todo), p)
    PROVE  Goes({s \in Steps : s.op = op /\ s.a \in S /\ s.w = "none"})
<1>1. In(Each(op, S)) \subseteq {s \in Steps : s.op = op /\ s.a \in S /\ s.w = "none"}
    <2>1. In(Each(op, S)) \subseteq Steps
        BY EachStep, ElementOfSeq DEF In
    <2> QED
        BY <2>1, EachStep
<1>2. Goes(In(Each(op, S)))
    BY <1>1, EachPlan, GoesOn
<1> QED
    BY <1>1, <1>2 DEF Goes

\* The fields of a step.
LEMMA StepFields ==
    \A op, a, w :
        /\ Step(op, a, w).op = op /\ Step(op, a, w).a = a /\ Step(op, a, w).w = w
        /\ Do(op, a).op = op /\ Do(op, a).a = a /\ Do(op, a).w = "none"
        /\ op \in Ops /\ a \in ReportIds =>
              Do(op, a) \in Steps /\ (w \in Marks => Step(op, a, w) \in Steps)
BY DEF Step, Do, Steps, Marks

LEMMA Ids ==
    /\ ReportIds = 0 .. MaxAttempts + 1 /\ Delivery = MaxAttempts + 1
    /\ Attempts \subseteq ReportIds /\ Attempts \subseteq 1 .. MaxAttempts
    /\ 0 \in ReportIds /\ Startup = 0 /\ Delivery \in ReportIds
    /\ MaxAttempts \in Nat
BY IntentAssumption DEF ReportIds, Delivery, Attempts, Startup

-----------------------------------------------------------------------------
(***************************************************************************)
(* Types.                                                                  *)
(***************************************************************************)
\* Two journals differ at most in some fields.
Fields == {"open", "last", "msg", "task", "of", "closed", "rec", "applied", "tainted", "retries",
           "report", "missing", "missed", "defer", "pending", "dlq", "prep", "errs", "fails"}

Alike(k, j, F) == \A f \in Fields \ F : k[f] = j[f]

\* One field of the journal is changed.
LEMMA SetOpen ==
    ASSUME NEW j \in Journals, NEW v \in 0 .. MaxAttempts
    PROVE  LET k == [j EXCEPT !.open = v] IN k \in Journals /\ k.open = v /\ Alike(k, j, {"open"})
BY DEF Journals, Alike, Fields

LEMMA SetOf ==
    ASSUME NEW j \in Journals, NEW v \in [Attempts -> 0 .. MaxAttempts]
    PROVE  LET k == [j EXCEPT !.of = v] IN k \in Journals /\ k.of = v /\ Alike(k, j, {"of"})
BY DEF Journals, Alike, Fields

LEMMA SetClosed ==
    ASSUME NEW j \in Journals, NEW v \in [Attempts -> Contents \cup {None}]
    PROVE  LET k == [j EXCEPT !.closed = v] IN k \in Journals /\ k.closed = v /\ Alike(k, j, {"closed"})
BY DEF Journals, Alike, Fields

LEMMA SetRec ==
    ASSUME NEW j \in Journals, NEW v \in [Attempts -> Seq(Outcomes)]
    PROVE  LET k == [j EXCEPT !.rec = v] IN k \in Journals /\ k.rec = v /\ Alike(k, j, {"rec"})
BY DEF Journals, Alike, Fields

LEMMA SetApplied ==
    ASSUME NEW j \in Journals, NEW v \in SUBSET Attempts
    PROVE  LET k == [j EXCEPT !.applied = v] IN k \in Journals /\ k.applied = v /\ Alike(k, j, {"applied"})
BY DEF Journals, Alike, Fields

LEMMA SetTainted ==
    ASSUME NEW j \in Journals, NEW v \in SUBSET Attempts
    PROVE  LET k == [j EXCEPT !.tainted = v] IN k \in Journals /\ k.tainted = v /\ Alike(k, j, {"tainted"})
BY DEF Journals, Alike, Fields

LEMMA SetRetries ==
    ASSUME NEW j \in Journals, NEW v \in [Attempts -> Nat]
    PROVE  LET k == [j EXCEPT !.retries = v] IN k \in Journals /\ k.retries = v /\ Alike(k, j, {"retries"})
BY DEF Journals, Alike, Fields

LEMMA SetReport ==
    ASSUME NEW j \in Journals, NEW v \in [ReportIds -> Reporting]
    PROVE  LET k == [j EXCEPT !.report = v] IN k \in Journals /\ k.report = v /\ Alike(k, j, {"report"})
BY DEF Journals, Alike, Fields

LEMMA SetPrep ==
    ASSUME NEW j \in Journals, NEW v \in [MsgIds -> Int]
    PROVE  LET k == [j EXCEPT !.prep = v] IN k \in Journals /\ k.prep = v /\ Alike(k, j, {"prep"})
BY DEF Journals, Alike, Fields

LEMMA SetErrs ==
    ASSUME NEW j \in Journals, NEW v \in [MsgIds -> Nat]
    PROVE  LET k == [j EXCEPT !.errs = v] IN k \in Journals /\ k.errs = v /\ Alike(k, j, {"errs"})
BY DEF Journals, Alike, Fields

LEMMA SetDlq ==
    ASSUME NEW j \in Journals, NEW v \in BOOLEAN
    PROVE  LET k == [j EXCEPT !.dlq = v] IN k \in Journals /\ k.dlq = v /\ Alike(k, j, {"dlq"})
BY DEF Journals, Alike, Fields

\* The fields themselves.
LEMMA JournalTypes ==
    ASSUME NEW j \in Journals
    PROVE  /\ j.open \in 0 .. MaxAttempts /\ j.last \in 0 .. MaxAttempts
           /\ j.msg \in [Attempts -> MsgIds \cup {None}] /\ j.task \in [Attempts -> BOOLEAN]
           /\ j.of \in [Attempts -> 0 .. MaxAttempts]
           /\ j.closed \in [Attempts -> Contents \cup {None}]
           /\ j.rec \in [Attempts -> Seq(Outcomes)]
           /\ j.applied \in SUBSET Attempts /\ j.tainted \in SUBSET Attempts
           /\ j.retries \in [Attempts -> Nat] /\ j.report \in [ReportIds -> Reporting]
           /\ j.missing \in Nat /\ j.missed \in ReportIds
           /\ j.defer \in [Attempts -> Nat] /\ j.pending \in [Attempts -> SUBSET Attempts]
           /\ j.prep \in [MsgIds -> Int] /\ j.errs \in [MsgIds -> Nat]
           /\ j.fails \in [MsgIds -> Nat]
BY DEF Journals

LEMMA Put ==
    ASSUME NEW S, NEW T, NEW f \in [S -> T], NEW a \in S, NEW e \in T
    PROVE  /\ [f EXCEPT ![a] = e] \in [S -> T] /\ [f EXCEPT ![a] = e][a] = e
           /\ \A b \in S : b # a => [f EXCEPT ![a] = e][b] = f[b]
OBVIOUS

LEMMA RetryType ==
    ASSUME NEW j \in Journals, NEW a \in Attempts
    PROVE  LET k == [j EXCEPT !.retries[a] = @ + 1] IN k \in Journals /\ Alike(k, j, {"retries"})
<1> DEFINE v == [j.retries EXCEPT ![a] = j.retries[a] + 1]
<1>1. v \in [Attempts -> Nat]
    BY JournalTypes, Put
<1>2. [j EXCEPT !.retries[a] = @ + 1] = [j EXCEPT !.retries = v]
    OBVIOUS
<1> HIDE DEF v
<1> QED
    BY <1>1, <1>2, SetRetries

\* What one bin/task call leaves behind: the answer agrees with the record.
LEMMA TaskEvent ==
    ASSUME NEW c, NEW ev, NEW r, task_event(c, ev, r)
    PROVE  /\ \/ ledger' = ledger
              \/ /\ ~Accepted(c) /\ c \notin ledger.no /\ Allowed(ev)
                 /\ ledger' = After(c, ev) /\ r \in {"ok", "killed"}
              \/ /\ ~Accepted(c) /\ ~Allowed(ev)
                 /\ ledger' = [ledger EXCEPT !.no = @ \cup {c}] /\ r \in {"refused", "killed"}
           /\ r = "ok" => Accepted(c) \/ ledger' = After(c, ev)
           /\ r = "ok" /\ ~Accepted(c) => c \notin ledger.no /\ Allowed(ev)
           /\ r = "refused" => ~Accepted(c) /\ (c \in ledger.no \/ ~Allowed(ev))
           /\ r = "refused" => ledger' = After(c, ev)
           /\ faults' = faults \/ (faults' = faults + 1 /\ faults < MaxFaults)
BY DEF task_event, Answer, After, Fault, MayFault

LEMMA FaultType ==
    ASSUME faults \in 0 .. MaxFaults,
           faults' = faults \/ (faults' = faults + 1 /\ faults < MaxFaults)
    PROVE  faults' \in 0 .. MaxFaults
BY IntentAssumption

LEMMA FaultIs ==
    ASSUME faults \in 0 .. MaxFaults, NEW kind, Fault(kind) \/ faults' = faults
    PROVE  faults' \in 0 .. MaxFaults
BY IntentAssumption DEF Fault, MayFault

\* The ledger after an event that is allowed.
LEMMA Taken ==
    ASSUME ledger \in Ledgers, NEW c \in Causes, NEW ev \in Events, Allowed(ev), ~Accepted(c),
           c \notin ledger.no
    PROVE  LET l == After(c, ev) IN
           /\ l \in Ledgers /\ l.state = Becomes(ev) /\ l.no = ledger.no
           /\ l.yes = ledger.yes \cup {[cause |-> c, ev |-> ev]}
<1> DEFINE s == Becomes(ev)
           y == ledger.yes \cup {[cause |-> c, ev |-> ev]}
           n == IF ev \in {"progress", "continue"} THEN ledger.turns + 1 ELSE ledger.turns
<1>1. After(c, ev) = [ledger EXCEPT !.state = s, !.yes = y, !.turns = n]
    BY DEF After
<1>2. s \in TaskStates
    BY DEF Becomes, TaskStates, States
<1>3. y \in SUBSET [cause : Causes, ev : Events]
    BY DEF Ledgers
<1>4. n \in 0 .. Budget
    BY IntentAssumption DEF Allowed, Ledgers, Final
<1> HIDE DEF s, y, n
<1>5. LET l == [ledger EXCEPT !.state = s, !.yes = y, !.turns = n] IN
      l \in Ledgers /\ l.state = s /\ l.no = ledger.no /\ l.yes = y
    BY <1>2, <1>3, <1>4 DEF Ledgers
<1> QED
    BY <1>1, <1>5 DEF s, y

LEMMA Denied ==
    ASSUME ledger \in Ledgers, NEW c \in Causes
    PROVE  LET l == [ledger EXCEPT !.no = @ \cup {c}] IN
           /\ l \in Ledgers /\ l.state = ledger.state /\ l.yes = ledger.yes
           /\ l.no = ledger.no \cup {c}
BY DEF Ledgers

LEMMA TaskEventType ==
    ASSUME Types, NEW c \in Causes, NEW ev \in Events, NEW r, task_event(c, ev, r)
    PROVE  ledger' \in Ledgers /\ faults' \in 0 .. MaxFaults
<1>1. ledger \in Ledgers /\ faults \in 0 .. MaxFaults
    BY DEF Types
<1> QED
    BY <1>1, TaskEvent, Taken, Denied, FaultType

\* A step that is taken, while the process runs and no turn does.
LEMMA FrameStep ==
    ASSUME Frame, up, todo # <<>>, NEW N, Goes(N), \A s \in N : StepOK(s)', Types',
           UNCHANGED <<up, turn>>,
           jn'.last = jn.last, jn'.open \in {jn.open, 0},
           \A a \in Attempts : jn'.of[a] <= jn.last /\ (jn'.defer[a] > 0 => a <= jn.last),
           \A r \in ReportIds :
              /\ jn.report[r].says \in Words => jn'.report[r].says \in Words
              /\ jn'.report[r].st # "none" => jn'.report[r].says \in Words
    PROVE  Frame'
<1>1. turn' = 0
    BY DEF Frame, Turning
<1>2. \A s \in In(Tail(todo)) : StepOK(s)'
    <2> SUFFICES ASSUME NEW s \in In(Tail(todo)) PROVE StepOK(s)'
        OBVIOUS
    <2>1. s \in In(todo) /\ StepOK(s) /\ s.a \in ReportIds
        <3>1. s \in In(todo) /\ StepOK(s)
            BY Rest DEF Frame, PlanOK
        <3>2. s \in Steps
            BY <3>1, ElementOfSeq DEF In, Frame, PlanOK
        <3> QED
            BY <3>1, <3>2 DEF Steps
    <2> QED
        BY <2>1 DEF StepOK
<1>3. PlanOK'
    BY <1>2 DEF PlanOK, Goes
<1>4. Begun'
    <2>1. jn.open <= jn.last /\ jn.last \in 0 .. MaxAttempts
        BY JournalTypes DEF Frame, Begun, Types
    <2> QED
        BY <1>1, <2>1, Ids DEF Begun
<1> QED
    BY <1>1, <1>3, <1>4 DEF Frame, Turning, Saying

\* Most steps leave alone what the journal says of turns and reports.
Calm == Alike(jn', jn, Fields \ {"last", "open", "of", "defer", "report", "task"})

LEMMA FrameCalm ==
    ASSUME Frame, up, todo # <<>>, NEW N, Goes(N), \A s \in N : StepOK(s)', Types',
           UNCHANGED <<up, turn>>, Calm
    PROVE  Frame'
<1>1. /\ jn'.last = jn.last /\ jn'.open = jn.open /\ jn'.of = jn.of /\ jn'.defer = jn.defer
      /\ jn'.report = jn.report
    BY DEF Calm, Alike, Fields
<1> QED
    BY <1>1, FrameStep DEF Frame, Begun, Saying

\* What holds when a step is taken.
LEMMA AtStep ==
    ASSUME Frame, NEW op, At(op)
    PROVE  /\ up /\ todo # <<>> /\ turn = 0 /\ Head(todo).op = op /\ Head(todo).a = Arg
           /\ Arg \in ReportIds /\ Word \in Marks /\ StepOK(Head(todo)) /\ PlanOK /\ Types
           /\ op \in AttemptSteps => Arg \in Attempts
BY Rest DEF Frame, Turning, At, Arg, Word, Steps, StepOK

-----------------------------------------------------------------------------
(***************************************************************************)
(* The frame is kept, action by action.                                    *)
(***************************************************************************)
LEMMA CalmSame == jn' = jn => Calm
BY DEF Calm, Alike

LEMMA CalmBut ==
    ASSUME NEW F, Alike(jn', jn, F),
           F \cap {"last", "open", "of", "defer", "report", "task"} = {}
    PROVE  Calm
BY DEF Calm, Alike, Fields

\* A report in the journal is changed.
LEMMA ReportType ==
    ASSUME jn \in Journals, NEW r \in ReportIds, NEW e \in Reporting,
           jn' = [jn EXCEPT !.report[r] = e]
    PROVE  /\ jn' \in Journals /\ Alike(jn', jn, {"report"}) /\ jn'.report[r] = e
           /\ \A q \in ReportIds : q # r => jn'.report[q] = jn.report[q]
<1> DEFINE v == [jn.report EXCEPT ![r] = e]
<1>1. /\ v \in [ReportIds -> Reporting] /\ v[r] = e
      /\ \A q \in ReportIds : q # r => v[q] = jn.report[q]
    BY JournalTypes, Put
<1>2. jn' = [jn EXCEPT !.report = v]
    OBVIOUS
<1> HIDE DEF v
<1>3. LET k == [jn EXCEPT !.report = v] IN
      k \in Journals /\ k.report = v /\ Alike(k, jn, {"report"})
    BY <1>1, SetReport
<1> QED
    BY <1>1, <1>2, <1>3

\* A report that was begun stays begun, and says what it said.
LEMMA FrameReport ==
    ASSUME Frame, up, todo # <<>>, NEW N, Goes(N), \A s \in N : StepOK(s)',
           UNCHANGED <<up, acc, work, turn, born, outside, faults, waived>>,
           NEW r \in ReportIds, NEW e \in Reporting, jn' = [jn EXCEPT !.report[r] = e],
           jn.report[r].says \in Words => e.says \in Words,
           e.st # "none" => e.says \in Words
    PROVE  Frame'
<1>1. jn \in Journals
    BY DEF Frame, Types
<1>2. /\ jn' \in Journals /\ Alike(jn', jn, {"report"}) /\ jn'.report[r] = e
      /\ \A q \in ReportIds : q # r => jn'.report[q] = jn.report[q]
    BY <1>1, ReportType
<1>3. jn'.last = jn.last /\ jn'.open = jn.open /\ jn'.of = jn.of /\ jn'.defer = jn.defer
    BY <1>2 DEF Alike, Fields
<1>4. Types'
    BY <1>2 DEF Frame, Types, outside
<1> QED
    BY <1>2, <1>3, <1>4, FrameStep DEF Frame, Begun, Saying

LEMMA ReportEntries ==
    ASSUME jn \in Journals, NEW r \in ReportIds
    PROVE  jn.report[r] \in Reporting
BY JournalTypes

LEMMA DeliverFrame ==
    ASSUME Frame, deliver_task_report
    PROVE  Frame' /\ Goes({Step("send", Arg, Word)})
<1> DEFINE x == Step("send", Arg, Word)
           e == [jn.report[Arg] EXCEPT !.st = "pending", !.says = Word]
<1>1. /\ up /\ todo # <<>> /\ Arg \in ReportIds /\ Word \in Words /\ Word \in Marks
      /\ Head(todo).op = "report" /\ PlanOK /\ jn \in Journals
    BY AtStep DEF deliver_task_report, StepOK, Types, Word
<1>2. x \in Steps /\ x.op = "send" /\ x.a = Arg /\ x.w = Word
    BY <1>1, StepFields DEF Ops, ReportSteps
<1>3. CASE jn.report[Arg].st = "delivered"
    <2>1. Then(<<>>) /\ jn' = jn /\ UNCHANGED <<up, acc, work, turn, born, outside, faults, waived>>
        BY <1>3 DEF deliver_task_report
    <2>2. Goes({})
        BY <1>1, <2>1, GoNone
    <2>3. Types'
        BY <2>1 DEF Frame, Types, outside
    <2>4. Frame'
        BY <1>1, <2>1, <2>2, <2>3, CalmSame, FrameCalm
    <2> QED
        BY <2>2, <2>4 DEF Goes
<1>4. CASE jn.report[Arg].st # "delivered"
    <2>1. /\ Then(<<x>>) /\ UNCHANGED <<up, acc, work, turn, born, outside, faults, waived>>
          /\ jn' = [jn EXCEPT !.report[Arg] = IF jn.report[Arg].st = "none" THEN e ELSE jn.report[Arg]]
        BY <1>4 DEF deliver_task_report
    <2>2. Goes({x})
        BY <1>1, <1>2, <2>1, GoOne DEF Follows, LastSteps, ReportSteps, Opening
    <2>3. e \in Reporting /\ e.st = "pending" /\ e.says = Word
        BY <1>1, ReportEntries DEF Reporting
    <2> HIDE DEF e
    <2> DEFINE d == IF jn.report[Arg].st = "none" THEN e ELSE jn.report[Arg]
    <2>4. d \in Reporting /\ d.says \in Words
        BY <1>1, <2>3, ReportEntries DEF Frame, Saying
    <2> HIDE DEF d
    <2>5. jn' = [jn EXCEPT !.report[Arg] = d]
        BY <2>1 DEF d
    <2>6. jn'.report[Arg] = d
        BY <1>1, <2>4, <2>5, ReportType
    <2>7. \A s \in {x} : StepOK(s)'
        BY <1>1, <1>2, <2>4, <2>6 DEF StepOK, AttemptSteps, RowSteps
    <2>8. UNCHANGED <<up, acc, work, turn, born, outside, faults, waived>>
        BY <2>1
    <2>9. Frame'
        BY <1>1, <2>2, <2>4, <2>5, <2>7, <2>8, FrameReport
    <2> QED
        BY <2>2, <2>9
<1> QED
    BY <1>3, <1>4

LEMMA SendFrame ==
    ASSUME Frame, Send
    PROVE  Frame' /\ Goes({Do("sent", Arg), Do("unsent", Arg)})
<1> DEFINE x == Do("sent", Arg)
           y == Do("unsent", Arg)
<1>1. /\ up /\ todo # <<>> /\ Arg \in ReportIds /\ Word \in Words
      /\ Head(todo).op = "send" /\ PlanOK /\ jn.report[Arg].says \in Words
    BY AtStep DEF Send, SendFails, StepOK, Word
<1>2. /\ x \in Steps /\ x.op = "sent" /\ x.a = Arg
      /\ y \in Steps /\ y.op = "unsent" /\ y.a = Arg
    BY <1>1, StepFields DEF Ops, ReportSteps
<1> HIDE DEF x, y
<1>3. (Then(<<x>>) /\ told' = Told(Arg, Word)) \/ (Then(<<y>>) /\ told' \in {told, Told(Arg, Word)})
    BY DEF Send, SendFails, x, y
<1>4. Goes({x, y})
    <2>1. Follows(Head(todo), x) /\ Follows(Head(todo), y)
        BY <1>1, <1>2 DEF Follows, LastSteps, ReportSteps, Opening
    <2>2. Goes({x}) \/ Goes({y})
        BY <1>1, <1>2, <1>3, <2>1, GoOne
    <2> QED
        BY <2>2 DEF Goes
<1>5. jn' = jn /\ faults' \in 0 .. MaxFaults
    BY FaultIs DEF Send, SendFails, Frame, Types
<1>6. told' \in [ReportIds -> Seq(Words)]
    <2>1. told \in [ReportIds -> Seq(Words)]
        BY DEF Frame, Types
    <2>2. Append(told[Arg], Word) \in Seq(Words)
        BY <1>1, <2>1
    <2>3. Told(Arg, Word) \in [ReportIds -> Seq(Words)]
        BY <1>1, <2>1, <2>2, Put DEF Told
    <2> QED
        BY <1>3, <2>1, <2>3
<1>7. Types'
    BY <1>5, <1>6 DEF Send, SendFails, Frame, Types
<1>8. \A s \in {x, y} : StepOK(s)'
    BY <1>1, <1>2, <1>5 DEF StepOK, AttemptSteps, RowSteps
<1>9. Frame'
    <2>1. UNCHANGED <<up, turn>>
        BY DEF Send, SendFails
    <2> QED
        BY <1>1, <1>4, <1>5, <1>7, <1>8, <2>1, CalmSame, FrameCalm
<1> QED
    BY <1>4, <1>9 DEF x, y

LEMMA DeliveredFrame ==
    ASSUME Frame, ReportDelivered
    PROVE  Frame' /\ Goes({})
<1> DEFINE e == [jn.report[Arg] EXCEPT !.st = "delivered"]
<1>1. /\ up /\ todo # <<>> /\ Arg \in ReportIds /\ PlanOK /\ jn.report[Arg].says \in Words
      /\ jn \in Journals
    BY AtStep DEF ReportDelivered, StepOK, Types
<1>2. /\ Then(<<>>) /\ UNCHANGED <<up, acc, work, turn, born, outside, faults, waived>>
      /\ jn' = [jn EXCEPT !.report[Arg] = e]
    BY DEF ReportDelivered
<1>3. e \in Reporting /\ e.says = jn.report[Arg].says
    BY <1>1, ReportEntries DEF Reporting
<1>4. Goes({})
    BY <1>1, <1>2, GoNone
<1> HIDE DEF e
<1> QED
    BY <1>1, <1>2, <1>3, <1>4, FrameReport

LEMMA UnsentFrame ==
    ASSUME Frame, record_report_failure
    PROVE  Frame' /\ Goes({})
<1> DEFINE n == jn.report[Arg].n + 1
           e == IF n >= ReportLimit THEN [jn.report[Arg] EXCEPT !.st = "undeliverable"]
                ELSE [jn.report[Arg] EXCEPT !.n = n]
<1>1. /\ up /\ todo # <<>> /\ Arg \in ReportIds /\ PlanOK /\ jn.report[Arg].says \in Words
      /\ jn \in Journals
    BY AtStep DEF record_report_failure, StepOK, Types
<1>2. /\ Then(<<>>) /\ UNCHANGED <<up, acc, work, turn, born, outside, faults, waived>>
      /\ jn' = [jn EXCEPT !.report[Arg] = e]
    BY DEF record_report_failure
<1>3. e \in Reporting /\ e.says = jn.report[Arg].says
    BY <1>1, ReportEntries DEF Reporting
<1>4. Goes({})
    BY <1>1, <1>2, GoNone
<1> HIDE DEF e
<1> QED
    BY <1>1, <1>2, <1>3, <1>4, FrameReport

\* A step that changes neither the journal nor what is outside.
LEMMA FrameIdle ==
    ASSUME Frame, up, todo # <<>>, NEW N, Goes(N), \A s \in N : StepOK(s)',
           UNCHANGED <<up, acc, work, turn, born, outside, jn>>,
           faults' \in 0 .. MaxFaults, waived' \subseteq {"idle", "lost"}
    PROVE  Frame'
<1>1. Types' /\ UNCHANGED <<up, turn>> /\ jn' = jn
    BY DEF Frame, Types, outside
<1> QED
    BY <1>1, CalmSame, FrameCalm

\* A step that puts one step for each of a set in its place.
LEMMA EachFrame ==
    ASSUME Frame, NEW h, At(h), h \notin ReportSteps \cup Opening \cup LastSteps,
           NEW op \in Ops, op \notin LastSteps \cup RowSteps,
           NEW S \in SUBSET ReportIds, Then(Each(op, S)),
           op \in Opening \/ ~(op \in {"close", "close_all"}),
           UNCHANGED <<up, acc, work, turn, born, outside, jn, faults, waived>>,
           \A s \in Steps : s.op = op /\ s.a \in S => StepOK(s)'
    PROVE  Frame' /\ Goes({s \in Steps : s.op = op /\ s.a \in S /\ s.w = "none"})
<1>1. up /\ todo # <<>> /\ PlanOK /\ Head(todo).op = h
    BY AtStep
<1>2. Goes({s \in Steps : s.op = op /\ s.a \in S /\ s.w = "none"})
    BY <1>1, GoEach DEF Follows
<1>3. faults' \in 0 .. MaxFaults /\ waived' \subseteq {"idle", "lost"}
    BY DEF Frame, Types
<1> QED
    BY <1>1, <1>2, <1>3, FrameIdle

LEMMA RetryReportsFrame ==
    ASSUME Frame, retry_pending_reports
    PROVE  Frame' /\ Goes({s \in Steps : s.op = "resend" /\ jn.report[s.a].st = "pending"})
<1> DEFINE S == {r \in ReportIds : jn.report[r].st = "pending"}
<1>1. /\ At("reports") /\ Then(Each("resend", S)) /\ S \in SUBSET ReportIds
      /\ UNCHANGED <<up, acc, work, turn, born, outside, jn, faults, waived>>
    BY DEF retry_pending_reports
<1>2. \A s \in Steps : s.op = "resend" /\ s.a \in S => StepOK(s)'
    BY <1>1 DEF StepOK, Frame, Saying, AttemptSteps, RowSteps
<1>3. "resend" \in Ops /\ "resend" \notin LastSteps \cup RowSteps
    BY DEF Ops, OtherSteps, LastSteps, RowSteps
<1>4. Frame' /\ Goes({s \in Steps : s.op = "resend" /\ s.a \in S /\ s.w = "none"})
    <2>1. "reports" \notin ReportSteps \cup Opening \cup LastSteps
        BY DEF ReportSteps, Opening, LastSteps
    <2> HIDE DEF S
    <2> QED
        BY <1>1, <1>2, <1>3, <2>1, EachFrame
<1> QED
    BY <1>4 DEF Goes

LEMMA ResendFrame ==
    ASSUME Frame, Resend
    PROVE  Frame' /\ Goes({Step("report", Arg, jn.report[Arg].says)})
<1> DEFINE x == Step("report", Arg, jn.report[Arg].says)
<1>1. /\ up /\ todo # <<>> /\ Arg \in ReportIds /\ PlanOK /\ jn.report[Arg].says \in Words
      /\ Head(todo).op = "resend"
    BY AtStep DEF Resend, StepOK
<1>2. x \in Steps /\ x.op = "report" /\ x.a = Arg /\ x.w \in Words
    BY <1>1, StepFields DEF Ops, ReportSteps, Marks
<1>3. Then(<<x>>) /\ UNCHANGED <<up, acc, work, turn, born, outside, jn, faults, waived>>
    BY DEF Resend
<1> HIDE DEF x
<1>4. Goes({x})
    BY <1>1, <1>2, <1>3, GoOne DEF Follows, LastSteps, ReportSteps, Opening
<1>5. \A s \in {x} : StepOK(s)'
    BY <1>2 DEF StepOK, AttemptSteps, RowSteps
<1>6. faults' \in 0 .. MaxFaults /\ waived' \subseteq {"idle", "lost"}
    BY <1>3 DEF Frame, Types
<1> QED
    BY <1>1, <1>3, <1>4, <1>5, <1>6, FrameIdle DEF x

\* A plain step.
LEMMA DoOK ==
    ASSUME NEW op \in Ops, NEW a \in ReportIds, op \in AttemptSteps => a \in Attempts,
           op \notin {"report", "send", "record", "self", "adopt", "resend", "sent", "unsent"}
    PROVE  /\ Do(op, a) \in Steps /\ Do(op, a).op = op /\ Do(op, a).a = a /\ Do(op, a).w = "none"
           /\ \A s : s = Do(op, a) => StepOK(s)'
<1>1. Do(op, a) \in Steps /\ Do(op, a).op = op /\ Do(op, a).a = a /\ Do(op, a).w = "none"
    BY StepFields
<1>2. ASSUME NEW s, s.op = op, s.a = a PROVE StepOK(s)'
    BY <1>2 DEF StepOK
<1> QED
    BY <1>1, <1>2

\* A step that changes nothing but the journal.
LEMMA FrameJournal ==
    ASSUME Frame, up, todo # <<>>, NEW N, Goes(N), \A s \in N : StepOK(s)',
           UNCHANGED <<up, acc, work, turn, born, outside, faults, waived>>,
           jn' \in Journals, Calm
    PROVE  Frame'
<1>1. Types' /\ UNCHANGED <<up, turn>>
    BY DEF Frame, Types, outside
<1> QED
    BY <1>1, FrameCalm

LEMMA FileEmptied ==
    ASSUME Frame, NEW a \in Attempts, file' = [file EXCEPT ![a] = <<>>]
    PROVE  file' \in [Attempts -> Contents]
<1>1. file \in [Attempts -> Contents] /\ <<>> \in Contents
    BY DEF Frame, Types, Contents
<1> QED
    BY <1>1, Put

LEMMA QuarantineFrame ==
    ASSUME Frame, quarantine_intent
    PROVE  Frame' /\ Goes({Do("taint", Arg)})
<1> DEFINE x == Do("taint", Arg)
<1>1. up /\ todo # <<>> /\ Arg \in Attempts /\ PlanOK /\ Head(todo).op = "quarantine"
    BY AtStep DEF quarantine_intent, AttemptSteps
<1>2. x \in Steps /\ x.op = "taint" /\ x.a = Arg /\ (\A s : s = x => StepOK(s)')
    <2>1. "taint" \in Ops /\ Arg \in ReportIds
        BY <1>1, Ids DEF Ops, AttemptSteps
    <2> QED
        BY <1>1, <2>1, DoOK
<1>3. Then(<<>>) \/ Then(<<x>>)
    BY DEF quarantine_intent
<1>4. UNCHANGED <<up, acc, work, turn, born, alive, jn, ledger, inbox, told, faults, waived>>
    BY DEF quarantine_intent
<1>5. file' \in [Attempts -> Contents]
    BY <1>1, FileEmptied DEF quarantine_intent
<1> HIDE DEF x
<1>6. Goes({x})
    <2>1. Goes({}) \/ Goes({x})
        BY <1>1, <1>2, <1>3, GoNone, GoOne DEF Follows, LastSteps, ReportSteps, Opening
    <2> QED
        BY <2>1 DEF Goes
<1>7. Types' /\ UNCHANGED <<up, turn>> /\ jn' = jn
    BY <1>4, <1>5 DEF Frame, Types
<1> QED
    BY <1>1, <1>2, <1>6, <1>7, CalmSame, FrameCalm DEF x

LEMMA TaintFrame ==
    ASSUME Frame, Taint
    PROVE  Frame' /\ Goes({})
<1>1. up /\ todo # <<>> /\ Arg \in Attempts /\ PlanOK /\ jn \in Journals
    BY AtStep DEF Taint, AttemptSteps, Types
<1>2. /\ Then(<<>>) /\ UNCHANGED <<up, acc, work, turn, born, outside, faults, waived>>
      /\ jn' = [jn EXCEPT !.tainted = jn.tainted \cup {Arg}]
    BY DEF Taint
<1>3. jn.tainted \cup {Arg} \in SUBSET Attempts
    BY <1>1, JournalTypes
<1>4. jn' \in Journals /\ Calm
    <2> DEFINE v == jn.tainted \cup {Arg}
    <2> HIDE DEF v
    <2>1. LET k == [jn EXCEPT !.tainted = v] IN k \in Journals /\ Alike(k, jn, {"tainted"})
        BY <1>1, <1>3, SetTainted DEF v
    <2>2. jn' = [jn EXCEPT !.tainted = v]
        BY <1>2 DEF v
    <2> QED
        BY <2>1, <2>2, CalmBut
<1> QED
    BY <1>1, <1>2, <1>4, GoNone, FrameJournal

LEMMA RetryFrame ==
    ASSUME Frame, intent_retry
    PROVE  Frame' /\ Goes({Do("quarantine", Arg)})
<1> DEFINE x == Do("quarantine", Arg)
<1>1. /\ up /\ todo # <<>> /\ Arg \in Attempts /\ PlanOK /\ jn \in Journals
      /\ Head(todo).op = "retry"
    BY AtStep DEF intent_retry, AttemptSteps, Types
<1>2. x \in Steps /\ x.op = "quarantine" /\ x.a = Arg /\ (\A s : s = x => StepOK(s)')
    BY <1>1, DoOK, Ids DEF Ops, AttemptSteps
<1>3. (Then(<<>>) \/ Then(<<x>>)) /\ UNCHANGED <<up, acc, work, turn, born, outside, faults, waived>>
    BY DEF intent_retry
<1>4. jn' \in Journals /\ Calm
    BY <1>1, RetryType, CalmBut DEF intent_retry
<1> HIDE DEF x
<1>5. Goes({x})
    <2>1. Goes({}) \/ Goes({x})
        BY <1>1, <1>2, <1>3, GoNone, GoOne DEF Follows, LastSteps, ReportSteps, Opening
    <2> QED
        BY <2>1 DEF Goes
<1> QED
    BY <1>1, <1>2, <1>3, <1>4, <1>5, FrameJournal DEF x

LEMMA LocalsTypes ==
    /\ NoAcc \in Locals
    /\ \A c \in Locals, o \in Outcomes :
          Counted(c, o) \in Locals /\ [Counted(c, o) EXCEPT !.handled = TRUE] \in Locals
<1>1. NoAcc \in Locals
    BY DEF NoAcc, Locals, Contents, States
<1>2. ASSUME NEW c \in Locals, NEW o \in Outcomes
      PROVE  Counted(c, o) \in Locals /\ [Counted(c, o) EXCEPT !.handled = TRUE] \in Locals
    <2> DEFINE h == c.handled \/ o \in Reports
               e == c.refused \/ o = "rejected"
               n == c.cont \/ o = "continue"
               f == IF o \in Final THEN o ELSE c.final
               m == c.i + 1
               d == [c EXCEPT !.i = m, !.handled = h, !.refused = e, !.cont = n, !.final = f]
    <2>1. Counted(c, o) = d
        BY DEF Counted
    <2>2. h \in BOOLEAN /\ e \in BOOLEAN /\ n \in BOOLEAN
        OBVIOUS
    <2>3. f \in Final \cup {"none"}
        BY DEF Locals
    <2>5. m \in Nat \ {0}
        BY DEF Locals
    <2> HIDE DEF h, e, n, f, m
    <2>4. d \in Locals /\ [d EXCEPT !.handled = TRUE] \in Locals
        BY <2>2, <2>3, <2>5 DEF Locals
    <2> QED
        BY <2>1, <2>4
<1> QED
    BY <1>1, <1>2

\* The steps a read file leads to.
LEMMA ApplyFrame ==
    ASSUME Frame, ApplyFile
    PROVE  Frame' /\ Goes({Do("quarantine", Arg), Do("unlink", Arg), Do("row", Arg), Do("retry", Arg)})
<1> DEFINE x(op) == Do(op, Arg)
           K == {"quarantine", "unlink", "row", "retry"}
           v == [jn.closed EXCEPT ![Arg] = ClosedAs(Arg)]
<1>1. /\ up /\ todo # <<>> /\ Arg \in Attempts /\ PlanOK /\ jn \in Journals /\ Types
      /\ Head(todo).op = "apply"
    BY AtStep DEF ApplyFile, AttemptSteps, Types
<1>2. \A op \in K : x(op) \in Steps /\ x(op).op = op /\ (\A s : s = x(op) => StepOK(s)')
    BY <1>1, DoOK, Ids DEF Ops, AttemptSteps, RowSteps
<1>3. Then(<<>>) \/ \E op \in K : Then(<<x(op)>>)
    BY DEF ApplyFile
<1>4. /\ jn' \in Journals /\ Calm
    <2>1. ClosedAs(Arg) \in Contents \cup {None}
        BY <1>1, JournalTypes DEF ClosedAs, Types
    <2>2. v \in [Attempts -> Contents \cup {None}]
        BY <1>1, <2>1, JournalTypes, Put
    <2>3. jn' = [jn EXCEPT !.closed = v]
        BY DEF ApplyFile
    <2> HIDE DEF v
    <2>4. LET k == [jn EXCEPT !.closed = v] IN k \in Journals /\ Alike(k, jn, {"closed"})
        BY <1>1, <2>2, SetClosed
    <2> QED
        BY <2>3, <2>4, CalmBut
<1>5. acc' \in Locals
    <2>1. acc' = NoAcc \/ acc' = [NoAcc EXCEPT !.rows = file[Arg], !.was = ledger.state]
        BY DEF ApplyFile
    <2>2. file[Arg] \in Contents /\ ledger.state \in States
        BY <1>1 DEF Types, Ledgers, TaskStates
    <2>3. [NoAcc EXCEPT !.rows = file[Arg], !.was = ledger.state] \in Locals
        BY <2>2, LocalsTypes DEF Locals
    <2> QED
        BY <2>1, <2>3, LocalsTypes
<1>6. faults' \in 0 .. MaxFaults
    BY <1>1, FaultIs DEF ApplyFile, Types
<1>7. Types' /\ UNCHANGED <<up, turn>>
    BY <1>1, <1>4, <1>5, <1>6 DEF ApplyFile, Types, outside
<1>8. Goes({x(op) : op \in K})
    <2>1. \A op \in K : Follows(Head(todo), x(op))
        BY <1>1, <1>2 DEF Follows, LastSteps, ReportSteps, Opening
    <2>2. Goes({}) \/ \E op \in K : Goes({x(op)})
        BY <1>1, <1>2, <1>3, <2>1, GoNone, GoOne
    <2> QED
        BY <2>2 DEF Goes
<1>9. Frame'
    BY <1>1, <1>2, <1>4, <1>7, <1>8, FrameCalm
<1>10. {x(op) : op \in K} = {Do("quarantine", Arg), Do("unlink", Arg), Do("row", Arg), Do("retry", Arg)}
    OBVIOUS
<1> QED
    BY <1>8, <1>9, <1>10

LEMMA CauseTypes ==
    /\ \A a \in 0 .. MaxAttempts, i \in 0 .. MaxRows, k \in {"row", "start", "budget", "fail", "no_report", "delivery"} :
          <<k, a, i>> \in Causes
    /\ 0 \in 0 .. MaxRows /\ 0 \in 0 .. MaxAttempts
BY IntentAssumption DEF Causes

\* The row under way stands in the file.
LEMMA RowTypes ==
    ASSUME Types, acc.i <= Len(acc.rows)
    PROVE  acc.i \in 1 .. MaxRows /\ acc.i \in 1 .. Len(acc.rows) /\ Row \in Rows
<1>1. acc.rows \in Contents /\ acc.i \in Nat \ {0}
    BY DEF Types, Locals
<1>2. acc.rows # <<>>
    BY <1>1
<1>3. acc.rows \in Seq(Rows) /\ Len(acc.rows) \in 1 .. MaxRows /\ MaxRows \in Nat
    BY <1>1, <1>2, IntentAssumption DEF Contents
<1> QED
    BY <1>1, <1>3, ElementOfSeq DEF Row

LEMMA RecordedFrame ==
    ASSUME Frame, RecordedRow
    PROVE  Frame'
<1>1. /\ UNCHANGED <<up, todo, work, turn, born, outside, jn, faults, waived>>
      /\ acc' = Counted(acc, jn.rec[Arg][acc.i]) /\ acc.i <= Len(jn.rec[Arg])
    BY DEF RecordedRow
<1>2. Arg \in Attempts /\ Types
    BY AtStep DEF RecordedRow, MoreRows, AttemptSteps, RowSteps
<1>3. jn.rec[Arg][acc.i] \in Outcomes
    <2>1. jn.rec[Arg] \in Seq(Outcomes) /\ acc.i \in Nat \ {0}
        BY <1>2, JournalTypes DEF Types, Locals
    <2> QED
        BY <1>1, <2>1, LenProperties, ElementOfSeq
<1>4. acc' \in Locals
    BY <1>1, <1>2, <1>3, LocalsTypes DEF Types
<1>5. Types'
    BY <1>1, <1>4 DEF Frame, Types, outside
<1>6. PlanOK' /\ Begun' /\ Saying' /\ Turning'
    <2>1. \A s \in In(todo) : StepOK(s) => StepOK(s)'
        BY <1>1 DEF StepOK
    <2> QED
        BY <1>1, <2>1 DEF Frame, PlanOK, Begun, Saying, Turning
<1> QED
    BY <1>5, <1>6 DEF Frame

\* A step that changes the ledger or the locals of an application.
LEMMA FrameLedger ==
    ASSUME Frame, up, todo # <<>>, NEW N, Goes(N), \A s \in N : StepOK(s)',
           UNCHANGED <<up, work, turn, born, alive, jn, file, told>>,
           inbox' \in [MsgIds -> {"absent", "open", "seen", "done", "failed"}],
           ledger' \in Ledgers, faults' \in 0 .. MaxFaults, acc' \in Locals,
           waived' \subseteq {"idle", "lost"}
    PROVE  Frame'
<1>1. Types' /\ UNCHANGED <<up, turn>> /\ jn' = jn
    BY DEF Frame, Types
<1> QED
    BY <1>1, CalmSame, FrameCalm

\* The steps of an application.
LEMMA RowPlan ==
    ASSUME Frame, NEW h \in RowSteps, At(h), NEW w \in Outcomes
    PROVE  /\ up /\ todo # <<>> /\ Arg \in Attempts /\ PlanOK /\ Types
           /\ \A x : Follows(Head(todo), x) <=> x.op \notin LastSteps
           /\ LET r == Step("record", Arg, w) IN
              r \in Steps /\ r.op = "record" /\ r.a = Arg /\ r.w = w
                /\ (\A s : s = r => StepOK(s)')
           /\ \A op \in {"retry", "budget", "row"} :
                 LET x == Do(op, Arg) IN
                 x \in Steps /\ x.op = op /\ x.a = Arg /\ (\A s : s = x => StepOK(s)')
<1>1. up /\ todo # <<>> /\ Arg \in Attempts /\ PlanOK /\ Types /\ Head(todo).op = h
    BY AtStep DEF AttemptSteps
<1>2. \A x : Follows(Head(todo), x) <=> x.op \notin LastSteps
    BY <1>1 DEF Follows, RowSteps, LastSteps, ReportSteps, Opening
<1>3. Arg \in ReportIds /\ w \in Marks /\ "record" \in Ops
    BY <1>1, Ids DEF Marks, Ops, AttemptSteps, RowSteps
<1> DEFINE r == Step("record", Arg, w)
<1>4. r \in Steps /\ r.op = "record" /\ r.a = Arg /\ r.w = w
    BY <1>3, StepFields
<1>5. \A s : s.op = "record" /\ s.a = Arg /\ s.w = w => StepOK(s)'
    BY <1>1 DEF StepOK
<1>6. ASSUME NEW op \in {"retry", "budget", "row"}
      PROVE  LET x == Do(op, Arg) IN
             x \in Steps /\ x.op = op /\ x.a = Arg /\ (\A s : s = x => StepOK(s)')
    <2>1. op \in Ops
        BY DEF Ops, AttemptSteps, RowSteps
    <2> QED
        BY <1>1, <1>3, <2>1, DoOK
<1> QED
    BY <1>1, <1>2, <1>4, <1>5, <1>6

LEMMA RefusedFrame ==
    ASSUME Frame, RefusedRow
    PROVE  Frame' /\ Goes({Step("record", Arg, "rejected"), Do("retry", Arg)})
<1> DEFINE r == Step("record", Arg, "rejected")
           x == Do("retry", Arg)
<1>1. At("row") /\ "row" \in RowSteps /\ "rejected" \in Outcomes
    BY DEF RefusedRow, NewRow, MoreRows, RowSteps, Outcomes
<1>2. /\ up /\ todo # <<>> /\ PlanOK /\ Types
      /\ Follows(Head(todo), r) /\ Follows(Head(todo), x)
      /\ r \in Steps /\ x \in Steps /\ \A s : s = r \/ s = x => StepOK(s)'
    BY <1>1, RowPlan DEF LastSteps
<1>3. /\ UNCHANGED <<up, work, turn, born, outside, jn, waived>>
      /\ (Then(<<r>>) \/ Then(<<x>>)) /\ acc' \in {acc, NoAcc}
    BY DEF RefusedRow
<1>4. acc' \in Locals /\ faults' \in 0 .. MaxFaults
    BY <1>2, <1>3, LocalsTypes, FaultIs DEF RefusedRow, Types
<1> HIDE DEF r, x
<1>5. Goes({r, x})
    <2>1. Goes({r}) \/ Goes({x})
        BY <1>2, <1>3, GoOne
    <2> QED
        BY <2>1 DEF Goes
<1>6. ledger' \in Ledgers /\ inbox' \in [MsgIds -> {"absent", "open", "seen", "done", "failed"}]
      /\ waived' \subseteq {"idle", "lost"} /\ UNCHANGED <<up, work, turn, born, alive, jn, file, told>>
    BY <1>2, <1>3 DEF Types, outside
<1> QED
    BY <1>2, <1>4, <1>5, <1>6, FrameLedger DEF r, x

LEMMA ReportRowFrame ==
    ASSUME Frame, ReportRow
    PROVE  Frame' /\ Goes({Step("record", Arg, Row), Step("record", Arg, "rejected"),
                           Do("budget", Arg), Do("retry", Arg)})
<1> DEFINE r == Step("record", Arg, Row)
           s == Step("record", Arg, "rejected")
           b == Do("budget", Arg)
           x == Do("retry", Arg)
           N == {r, s, b, x}
<1>1. /\ At("row") /\ "row" \in RowSteps /\ "rejected" \in Outcomes /\ Row \in Outcomes
      /\ Row \in Events /\ acc.i <= Len(acc.rows)
    BY DEF ReportRow, NewRow, MoreRows, RowSteps, Outcomes, Events
<1>2. /\ up /\ todo # <<>> /\ PlanOK /\ Types /\ Arg \in Attempts
      /\ \A y \in N : Follows(Head(todo), y) /\ y \in Steps /\ StepOK(y)'
    <2>1. \A w \in Outcomes : LET z == Step("record", Arg, w) IN
              z \in Steps /\ z.op = "record" /\ \A y : y = z => StepOK(y)'
        BY <1>1, RowPlan
    <2>2. \A op \in {"retry", "budget"} : LET z == Do(op, Arg) IN
              z \in Steps /\ z.op = op /\ \A y : y = z => StepOK(y)'
        BY <1>1, RowPlan
    <2>3. \A z : z.op \notin LastSteps => Follows(Head(todo), z)
        BY <1>1, RowPlan
    <2>4. up /\ todo # <<>> /\ PlanOK /\ Types /\ Arg \in Attempts
        BY <1>1, RowPlan
    <2> QED
        BY <1>1, <2>1, <2>2, <2>3, <2>4 DEF LastSteps
<1>3. PICK q \in Rcs : /\ task_event(<<"row", Arg, acc.i>>, Row, q) /\ Then(<<AfterReport(q)>>)
                       /\ acc' = IF AfterReport(q).op = "retry" THEN NoAcc ELSE acc
    BY DEF ReportRow
<1>4. AfterReport(q) \in N
    BY DEF AfterReport
<1>5. ledger' \in Ledgers /\ faults' \in 0 .. MaxFaults
    <2>1. <<"row", Arg, acc.i>> \in Causes
        <3>1. acc.i \in 0 .. MaxRows /\ Arg \in 0 .. MaxAttempts
            BY <1>1, <1>2, RowTypes, Ids
        <3> QED
            BY <3>1, CauseTypes
    <2> QED
        BY <1>1, <1>2, <1>3, <2>1, TaskEventType
<1>6. acc' \in Locals /\ inbox' \in [MsgIds -> {"absent", "open", "seen", "done", "failed"}]
      /\ waived' \subseteq {"idle", "lost"} /\ UNCHANGED <<up, work, turn, born, alive, jn, file, told>>
    BY <1>2, <1>3, LocalsTypes DEF ReportRow, Types
<1> HIDE DEF N
<1>7. Goes(N)
    <2>1. Goes({AfterReport(q)})
        BY <1>2, <1>3, <1>4, GoOne
    <2> QED
        BY <1>4, <2>1 DEF Goes
<1>8. Frame'
    BY <1>2, <1>5, <1>6, <1>7, FrameLedger
<1> QED
    BY <1>7, <1>8 DEF N

LEMMA BudgetFrame ==
    ASSUME Frame, BudgetBlock
    PROVE  Frame' /\ Goes({Step("report", Arg, "blocked"), Step("record", Arg, "budget"), Do("retry", Arg)})
<1> DEFINE p == Step("report", Arg, "blocked")
           r == Step("record", Arg, "budget")
           x == Do("retry", Arg)
           N == {p, r, x}
<1>1. At("budget") /\ "budget" \in RowSteps /\ "budget" \in Outcomes /\ "blocked" \in Events
    BY DEF BudgetBlock, RowSteps, Outcomes, Events, Reports, Final
<1>2. up /\ todo # <<>> /\ PlanOK /\ Types /\ Arg \in Attempts /\ Arg \in ReportIds
    BY <1>1, RowPlan, Ids
<1>3. \A y \in N : Follows(Head(todo), y) /\ y \in Steps /\ StepOK(y)'
    <2>1. r \in Steps /\ r.op = "record" /\ \A y : y = r => StepOK(y)'
        BY <1>1, RowPlan
    <2>2. x \in Steps /\ x.op = "retry" /\ \A y : y = x => StepOK(y)'
        BY <1>1, RowPlan
    <2>3. p \in Steps /\ p.op = "report" /\ p.w = "blocked"
        BY <1>2, StepFields DEF Ops, ReportSteps, Marks, Words, Final
    <2>4. \A y : y.op = "report" /\ y.w = "blocked" => StepOK(y)'
        BY DEF StepOK, AttemptSteps, RowSteps, Words, Final
    <2>5. \A z : z.op \notin LastSteps => Follows(Head(todo), z)
        BY <1>1, RowPlan
    <2> HIDE DEF p, r, x
    <2> QED
        BY <2>1, <2>2, <2>3, <2>4, <2>5 DEF LastSteps
<1>4. PICK q \in Rcs : /\ task_event(<<"budget", Arg, 0>>, "blocked", q)
                       /\ Then(<<p, r>>) \/ Then(<<r>>) \/ Then(<<x>>)
                       /\ acc' \in {acc, NoAcc}
    BY DEF BudgetBlock
<1>5. Precedes(p, r)
    BY StepFields DEF Precedes, LastSteps, ReportSteps, Closing
<1>6. ledger' \in Ledgers /\ faults' \in 0 .. MaxFaults
    <2>1. Arg \in 0 .. MaxAttempts
        BY <1>2, Ids
    <2>2. <<"budget", Arg, 0>> \in Causes
        BY <2>1, CauseTypes
    <2> QED
        BY <1>1, <1>2, <1>4, <2>2, TaskEventType
<1>7. acc' \in Locals /\ inbox' \in [MsgIds -> {"absent", "open", "seen", "done", "failed"}]
      /\ waived' \subseteq {"idle", "lost"} /\ UNCHANGED <<up, work, turn, born, alive, jn, file, told>>
    BY <1>2, <1>4, LocalsTypes DEF BudgetBlock, Types
<1>8. Goes(N)
    <2>1. p \in N /\ r \in N /\ x \in N
        OBVIOUS
    <2> HIDE DEF p, r, x, N
    <2>2. Goes({p, r}) \/ Goes({r}) \/ Goes({x})
        BY <1>2, <1>3, <1>4, <1>5, <2>1, GoOne, GoTwo
    <2> QED
        BY <2>1, <2>2 DEF Goes
<1> HIDE DEF N
<1>9. Frame'
    BY <1>2, <1>3, <1>6, <1>7, <1>8, FrameLedger
<1> QED
    BY <1>8, <1>9 DEF N

\* A record is added for attempt a.
LEMMA RecType ==
    ASSUME jn \in Journals, NEW a \in Attempts, NEW w \in Outcomes,
           jn' = [jn EXCEPT !.rec[a] = Append(@, w)]
    PROVE  /\ jn' \in Journals /\ Alike(jn', jn, {"rec"})
           /\ jn'.rec[a] = Append(jn.rec[a], w)
           /\ \A b \in Attempts : b # a => jn'.rec[b] = jn.rec[b]
<1> DEFINE v == [jn.rec EXCEPT ![a] = Append(jn.rec[a], w)]
<1>1. jn.rec \in [Attempts -> Seq(Outcomes)] /\ Append(jn.rec[a], w) \in Seq(Outcomes)
    BY JournalTypes
<1>2. /\ v \in [Attempts -> Seq(Outcomes)] /\ v[a] = Append(jn.rec[a], w)
      /\ \A b \in Attempts : b # a => v[b] = jn.rec[b]
    BY <1>1, Put
<1>3. jn' = [jn EXCEPT !.rec = v]
    OBVIOUS
<1> HIDE DEF v
<1>4. LET k == [jn EXCEPT !.rec = v] IN k \in Journals /\ k.rec = v /\ Alike(k, jn, {"rec"})
    BY <1>2, SetRec
<1> QED
    BY <1>2, <1>3, <1>4

LEMMA RecordFrame ==
    ASSUME Frame, RecordRow
    PROVE  Frame' /\ Goes({Do("row", Arg)})
<1> DEFINE x == Do("row", Arg)
<1>1. At("record") /\ "record" \in RowSteps
    BY DEF RecordRow, RowSteps
<1>2. /\ up /\ todo # <<>> /\ PlanOK /\ Types /\ Arg \in Attempts /\ Word \in Outcomes
      /\ jn \in Journals /\ acc \in Locals
    BY <1>1, AtStep DEF AttemptSteps, StepOK, Word, Types
<1>3. x \in Steps /\ Follows(Head(todo), x) /\ (\A s : s = x => StepOK(s)')
    BY <1>1, <1>2, RowPlan DEF LastSteps
<1>4. /\ Then(<<x>>) /\ jn' = [jn EXCEPT !.rec[Arg] = Append(@, Word)]
      /\ acc' = [Counted(acc, Word) EXCEPT !.handled = @ \/ Word = "budget"]
      /\ UNCHANGED <<up, work, turn, born, outside, faults, waived>>
    BY DEF RecordRow
<1>5. jn' \in Journals /\ Calm
    BY <1>2, <1>4, RecType, CalmBut
<1>6. acc' \in Locals
    <2> DEFINE c == Counted(acc, Word)
    <2>1. c \in Locals /\ [c EXCEPT !.handled = TRUE] \in Locals
        BY <1>2, LocalsTypes
    <2>2. acc' = [c EXCEPT !.handled = @ \/ Word = "budget"]
        BY <1>4
    <2> HIDE DEF c
    <2>3. CASE Word = "budget"
        BY <2>1, <2>2, <2>3
    <2>4. CASE Word # "budget"
        BY <2>1, <2>2, <2>4 DEF Locals
    <2> QED
        BY <2>3, <2>4
<1>7. Types' /\ UNCHANGED <<up, turn>>
    BY <1>2, <1>4, <1>5, <1>6 DEF Types, outside
<1> HIDE DEF x
<1>8. Goes({x})
    BY <1>2, <1>3, <1>4, GoOne
<1> QED
    BY <1>2, <1>3, <1>5, <1>7, <1>8, FrameCalm DEF x

\* Steps that stand anywhere.
Free(s) == s.op \notin LastSteps \cup RowSteps /\ ~Closing(s)

LEMMA FreePlan ==
    ASSUME NEW s \in Seq(Steps), NEW t \in Seq(Steps), \A x \in In(s) \cup In(t) : Free(x)
    PROVE  s \o t \in Seq(Steps) /\ Ordered(s \o t) /\ In(s \o t) = In(s) \cup In(t)
<1>1. Ordered(s) /\ Ordered(t)
    BY DEF Ordered, In, Free, Precedes
<1>2. \A p \in In(s), q \in In(t) : Precedes(p, q)
    BY DEF Free, Precedes
<1> QED
    BY <1>1, <1>2, Joined

\* What the end of an application of a's file still asks for.
Due(s, a) ==
    /\ s.a = a /\ s.op \in {"report", "self", "applied", "unlink", "done"}
    /\ s.op = "report" => s.w = acc.final /\ acc.final # "none"
    /\ s.op = "self" /\ s.w = "r" => acc.handled /\ acc.refused
    /\ s.op = "self" /\ s.w # "r" => s.w = "c" /\ acc.cont /\ ~(acc.handled /\ acc.refused)

LEMMA RowsDoneFrame ==
    ASSUME Frame, RowsDone
    PROVE  Frame' /\ Goes({s \in Steps : Due(s, Arg)})
<1> DEFINE p == Step("report", Arg, acc.final)
           sr == Step("self", Arg, "r")
           sc == Step("self", Arg, "c")
           e1 == Do("applied", Arg)
           e2 == Do("unlink", Arg)
           e3 == Do("done", Arg)
           A == IF acc.final = "none" THEN <<>> ELSE <<p>>
           R == acc.handled /\ acc.refused
<1>1. At("row") /\ "row" \in RowSteps /\ "budget" \in Outcomes
    BY DEF RowsDone, RowSteps, Outcomes
<1>2. /\ up /\ todo # <<>> /\ PlanOK /\ Types /\ Arg \in Attempts /\ Arg \in ReportIds
      /\ acc.final \in Final \cup {"none"}
      /\ \A z : z.op \notin LastSteps => Follows(Head(todo), z)
    BY <1>1, RowPlan, Ids DEF Types, Locals
<1>3. PICK B : /\ Then(A \o B \o <<e1, e2, e3>>)
               /\ B = <<>> \/ (B = <<sr>> /\ R) \/ (B = <<sc>> /\ acc.cont /\ ~R)
    <2>1. PICK state : Settle(Arg, state)
        BY DEF RowsDone
    <2> DEFINE C == IF state # "IN_PROGRESS" THEN <<>>
                    ELSE IF R THEN <<sr>> ELSE IF acc.cont THEN <<sc>> ELSE <<>>
    <2>2. Then(A \o C \o <<e1, e2, e3>>)
        BY <2>1 DEF Settle
    <2> HIDE DEF A, e1, e2, e3
    <2>3. C = <<>> \/ (C = <<sr>> /\ R) \/ (C = <<sc>> /\ acc.cont /\ ~R)
        <3> HIDE DEF sr, sc
        <3> QED
            OBVIOUS
    <2> QED
        BY <2>2, <2>3
<1>4. A \in Seq(Steps) /\ \A x \in In(A) : Free(x) /\ StepOK(x)' /\ Due(x, Arg)
    <2>1. CASE acc.final = "none"
        BY <2>1, ShortPlans
    <2>2. CASE acc.final # "none"
        <3>1. acc.final \in Words /\ acc.final \in Marks /\ "report" \in Ops
            BY <1>2, <2>2 DEF Words, Marks, Ops, ReportSteps
        <3>2. p \in Steps /\ p.op = "report" /\ p.w \in Words /\ p.a = Arg /\ p.w = acc.final
            BY <1>2, <3>1, StepFields
        <3>5. Due(p, Arg)
            BY <2>2, <3>2 DEF Due
        <3>3. \A y : y.op = "report" /\ y.w \in Words => StepOK(y)' /\ Free(y)
            BY DEF StepOK, AttemptSteps, RowSteps, Free, LastSteps, Closing
        <3>4. A = <<p>> /\ <<p>> \in Seq(Steps) /\ In(<<p>>) = {p}
            BY <2>2, <3>2, ShortPlans
        <3> HIDE DEF p, A
        <3> QED
            BY <3>2, <3>3, <3>4, <3>5
    <2> QED
        BY <2>1, <2>2
<1>5. /\ \A x \in {sr, sc} : x \in Steps /\ Free(x) /\ StepOK(x)'
      /\ R => Due(sr, Arg)
      /\ acc.cont /\ ~R => Due(sc, Arg)
    <2>1. \A w \in {"r", "c"} : LET x == Step("self", Arg, w) IN
              x \in Steps /\ x.op = "self" /\ x.a = Arg /\ x.w = w
        BY <1>2, StepFields DEF Marks, Ops, AttemptSteps
    <2>2. \A x : x.op = "self" /\ x.a = Arg /\ x.w \in {"r", "c"} => StepOK(x)' /\ Free(x)
        BY <1>2 DEF StepOK, Free, LastSteps, RowSteps, Closing
    <2>3. (R => Due(sr, Arg)) /\ (acc.cont /\ ~R => Due(sc, Arg))
        BY StepFields DEF Due
    <2> QED
        BY <2>1, <2>2, <2>3
<1>6. \A x \in {e1, e2, e3} : x \in Steps /\ Free(x) /\ StepOK(x)' /\ Due(x, Arg)
    <2>1. ASSUME NEW op \in {"applied", "unlink", "done"}
          PROVE  LET x == Do(op, Arg) IN
                 x \in Steps /\ x.op = op /\ x.a = Arg /\ (\A s : s = x => StepOK(s)')
        <3>1. op \in Ops
            BY DEF Ops, AttemptSteps
        <3> QED
            BY <1>2, <3>1, DoOK
    <2>2. \A x : x.op \in {"applied", "unlink", "done"} /\ x.a = Arg => Free(x) /\ Due(x, Arg)
        BY DEF Free, LastSteps, RowSteps, Closing, Due
    <2> QED
        BY <2>1, <2>2
<1>7. B \in Seq(Steps) /\ \A x \in In(B) : Free(x) /\ StepOK(x)' /\ Due(x, Arg)
    <2>5. sr \in Steps /\ sc \in Steps
        BY <1>5
    <2> HIDE DEF R, sr, sc
    <2>1. /\ <<sr>> \in Seq(Steps) /\ In(<<sr>>) = {sr}
          /\ <<sc>> \in Seq(Steps) /\ In(<<sc>>) = {sc}
        BY <2>5, ShortPlans
    <2>2. CASE B = <<>>
        BY <2>2, ShortPlans
    <2>3. CASE B = <<sr>> /\ R
        BY <1>5, <2>1, <2>3
    <2>4. CASE B = <<sc>> /\ acc.cont /\ ~R
        BY <1>5, <2>1, <2>4
    <2> QED
        BY <1>3, <2>2, <2>3, <2>4
<1> DEFINE E == <<e1, e2, e3>>
<1>8. E \in Seq(Steps) /\ In(E) = {e1, e2, e3}
    <2> HIDE DEF e1, e2, e3
    <2>1. E \in Seq(Steps) /\ Len(E) = 3 /\ E[1] = e1 /\ E[2] = e2 /\ E[3] = e3
        BY <1>6
    <2> QED
        BY <2>1 DEF In
<1> HIDE DEF A, E, p, sr, sc, e1, e2, e3
<1>9. A \o B \in Seq(Steps) /\ In(A \o B) = In(A) \cup In(B)
    BY <1>4, <1>7, FreePlan
<1>10. /\ A \o B \o E \in Seq(Steps) /\ Ordered(A \o B \o E)
       /\ In(A \o B \o E) = In(A) \cup In(B) \cup In(E)
    BY <1>4, <1>6, <1>7, <1>8, <1>9, FreePlan
<1> DEFINE N == In(A \o B \o E)
<1>11. \A x \in N : x \in Steps /\ StepOK(x)' /\ Free(x) /\ Due(x, Arg)
    <2>1. N \subseteq Steps
        BY <1>10, ElementOfSeq DEF In
    <2> QED
        BY <1>4, <1>6, <1>7, <1>8, <1>10, <2>1
<1> HIDE DEF N
<1>12. Goes(N)
    <2>1. \A x \in N : Follows(Head(todo), x)
        BY <1>2, <1>11 DEF Free
    <2>2. Then(A \o B \o E)
        BY <1>3 DEF E
    <2> QED
        BY <1>2, <1>10, <2>1, <2>2, GoesOn DEF N
<1>13. Frame'
    <2>1. faults' \in 0 .. MaxFaults /\ waived' \subseteq {"idle", "lost"}
        BY <1>2, FaultIs DEF RowsDone, Settle, Types
    <2>2. UNCHANGED <<up, acc, work, turn, born, outside, jn>>
        BY DEF RowsDone
    <2> QED
        BY <1>2, <1>11, <1>12, <2>1, <2>2, FrameIdle
<1>14. N \subseteq {s \in Steps : Due(s, Arg)}
    BY <1>11
<1> QED
    BY <1>12, <1>13, <1>14 DEF Goes

-----------------------------------------------------------------------------
\* What may stand in the place of the step taken.
LEMMA Followed ==
    /\ Head(todo).op \in LastSteps => \A x : Follows(Head(todo), x)
    /\ Head(todo).op \notin ReportSteps \cup Opening \cup LastSteps =>
          \A x : x.op \notin LastSteps => Follows(Head(todo), x)
BY DEF Follows

LEMMA FrameNone ==
    ASSUME Frame, NEW h, At(h), Then(<<>>), Types', UNCHANGED <<up, turn>>, Calm
    PROVE  Frame' /\ Goes({})
<1>1. up /\ todo # <<>> /\ PlanOK
    BY AtStep
<1>2. Goes({})
    BY <1>1, GoNone
<1> QED
    BY <1>1, <1>2, FrameCalm

\* A step that is replaced by at most one of a set.
LEMMA FrameOne ==
    ASSUME Frame, NEW h, At(h), NEW N, Then(<<>>) \/ \E x \in N : Then(<<x>>),
           \A x \in N : x \in Steps /\ Follows(Head(todo), x) /\ StepOK(x)',
           Types', UNCHANGED <<up, turn>>, Calm
    PROVE  Frame' /\ Goes(N)
<1>1. up /\ todo # <<>> /\ PlanOK
    BY AtStep
<1>2. Goes({}) \/ \E x \in N : Goes({x})
    BY <1>1, GoNone, GoOne
<1>3. Goes(N)
    BY <1>2 DEF Goes
<1> QED
    BY <1>1, <1>3, FrameCalm

\* The inbox.
Inboxes == [MsgIds -> {"absent", "open", "seen", "done", "failed"}]

LEMMA InboxTypes ==
    ASSUME inbox \in Inboxes
    PROVE  /\ \A m : \A st \in {"seen", "done", "failed"} : Marked(m, st) \in Inboxes
           /\ \A m : Sent(m) \in Inboxes
BY DEF Inboxes, Marked, Open, Sent

LEMMA SelfMessageType ==
    ASSUME Types, NEW m, SelfMessage(m)
    PROVE  inbox' \in Inboxes /\ waived' \subseteq {"idle", "lost"} /\ faults' \in 0 .. MaxFaults
<1>1. inbox \in Inboxes /\ faults \in 0 .. MaxFaults /\ waived \subseteq {"idle", "lost"}
    BY DEF Types, Inboxes
<1>2. inbox' \in Inboxes
    BY <1>1, InboxTypes DEF SelfMessage
<1>3. faults' \in 0 .. MaxFaults
    BY <1>1, FaultIs DEF SelfMessage
<1>4. waived' \subseteq {"idle", "lost"}
    BY <1>1 DEF SelfMessage
<1> QED
    BY <1>2, <1>3, <1>4

LEMMA SelfFrame ==
    ASSUME Frame, SendToSelf
    PROVE  Frame' /\ Goes({})
<1>1. At("self") /\ Then(<<>>) /\ Types
    BY AtStep DEF SendToSelf
<1>2. /\ UNCHANGED <<up, acc, work, turn, born, alive, jn, ledger, file, told>>
      /\ SelfMessage(<<Word, Arg>>)
    BY DEF SendToSelf
<1>3. inbox' \in Inboxes /\ waived' \subseteq {"idle", "lost"} /\ faults' \in 0 .. MaxFaults
    BY <1>1, <1>2, SelfMessageType
<1>4. Types'
    BY <1>1, <1>2, <1>3 DEF Types, Inboxes
<1> QED
    BY <1>1, <1>2, <1>4, CalmSame, FrameNone

LEMMA AppliedFrame ==
    ASSUME Frame, IntentsApplied
    PROVE  Frame' /\ Goes({})
<1>1. At("applied") /\ Then(<<>>) /\ Types /\ Arg \in Attempts /\ jn \in Journals
    BY AtStep DEF IntentsApplied, AttemptSteps, Types
<1>2. /\ UNCHANGED <<up, acc, work, turn, born, outside, faults, waived>>
      /\ jn' = [jn EXCEPT !.applied = jn.applied \cup {Arg}]
    BY DEF IntentsApplied
<1> DEFINE v == jn.applied \cup {Arg}
<1>3. v \in SUBSET Attempts
    BY <1>1, JournalTypes
<1> HIDE DEF v
<1>4. LET k == [jn EXCEPT !.applied = v] IN k \in Journals /\ Alike(k, jn, {"applied"})
    BY <1>1, <1>3, SetApplied
<1>5. jn' \in Journals /\ Calm
    BY <1>2, <1>4, CalmBut DEF v
<1>6. Types'
    BY <1>1, <1>2, <1>5 DEF Types, outside
<1> QED
    BY <1>1, <1>2, <1>5, <1>6, FrameNone

LEMMA UnlinkFrame ==
    ASSUME Frame, unlink_intent
    PROVE  Frame' /\ Goes({})
<1>1. At("unlink") /\ Then(<<>>) /\ Types /\ Arg \in Attempts
    BY AtStep DEF unlink_intent, AttemptSteps
<1>2. UNCHANGED <<up, acc, work, turn, born, alive, jn, ledger, inbox, told, faults, waived>>
    BY DEF unlink_intent
<1>3. file' \in [Attempts -> Contents]
    BY <1>1, FileEmptied DEF unlink_intent
<1>4. Types'
    BY <1>1, <1>2, <1>3 DEF Types
<1> QED
    BY <1>1, <1>2, <1>4, CalmSame, FrameNone

LEMMA ContextFrame ==
    ASSUME Frame, ContextDone
    PROVE  Frame' /\ Goes({})
<1>1. At("done") /\ Then(<<>>) /\ Types
    BY AtStep DEF ContextDone
<1>2. /\ UNCHANGED <<up, acc, work, turn, born, alive, jn, ledger, file, told, waived>>
      /\ inbox' \in {inbox, Marked(jn.msg[jn.of[Arg]], "done")}
      /\ faults' = faults \/ Fault("done")
    BY DEF ContextDone
<1>3. inbox' \in Inboxes /\ faults' \in 0 .. MaxFaults
    <2>1. inbox \in Inboxes
        BY <1>1 DEF Types, Inboxes
    <2> QED
        BY <1>1, <1>2, <2>1, InboxTypes, FaultIs DEF Types
<1>4. Types'
    BY <1>1, <1>2, <1>3 DEF Types, Inboxes
<1> QED
    BY <1>1, <1>2, <1>4, CalmSame, FrameNone

LEMMA WorkDoneFrame ==
    ASSUME Frame, WorkDone
    PROVE  Frame' /\ Goes({})
<1>1. At("work_done") /\ Then(<<>>) /\ Types
    BY AtStep DEF WorkDone
<1>2. /\ UNCHANGED <<up, acc, turn, born, alive, jn, ledger, file, told, waived>>
      /\ inbox' \in {inbox, Marked(work.msg, "done")} /\ work' = NoWork
      /\ faults' = faults \/ Fault("done")
    BY DEF WorkDone
<1>3. inbox' \in Inboxes /\ faults' \in 0 .. MaxFaults /\ work' \in Works
    <2>1. inbox \in Inboxes
        BY <1>1 DEF Types, Inboxes
    <2>2. NoWork \in Works
        BY DEF NoWork, Works, Marks
    <2> QED
        BY <1>1, <1>2, <2>1, <2>2, InboxTypes, FaultIs DEF Types
<1>4. Types'
    BY <1>1, <1>2, <1>3 DEF Types, Inboxes
<1> QED
    BY <1>1, <1>2, <1>4, CalmSame, FrameNone

LEMMA WorkFailedFrame ==
    ASSUME Frame, WorkFailed
    PROVE  Frame' /\ Goes({})
<1>1. At("work_failed") /\ Then(<<>>) /\ Types
    BY AtStep DEF WorkFailed
<1>2. /\ UNCHANGED <<up, acc, turn, born, alive, jn, ledger, file, told, faults>>
      /\ inbox' = Marked(work.msg, "failed") /\ work' = NoWork
      /\ waived' \in {waived, waived \cup {"idle"}}
    BY DEF WorkFailed
<1>3. inbox' \in Inboxes /\ work' \in Works /\ waived' \subseteq {"idle", "lost"}
    <2>1. inbox \in Inboxes
        BY <1>1 DEF Types, Inboxes
    <2>2. NoWork \in Works
        BY DEF NoWork, Works, Marks
    <2> QED
        BY <1>1, <1>2, <2>1, <2>2, InboxTypes DEF Types
<1>4. Types'
    BY <1>1, <1>2, <1>3 DEF Types, Inboxes
<1> QED
    BY <1>1, <1>2, <1>4, CalmSame, FrameNone

\* A report step.
LEMMA ReportStep ==
    ASSUME NEW a \in ReportIds, NEW w \in Words
    PROVE  LET x == Step("report", a, w) IN
           /\ x \in Steps /\ x.op = "report" /\ x.a = a /\ x.w = w
           /\ \A s : s = x => StepOK(s)'
<1>1. Step("report", a, w) \in Steps
    BY StepFields DEF Ops, ReportSteps, Marks
<1>2. \A s : s.op = "report" /\ s.w = w => StepOK(s)'
    BY DEF StepOK, AttemptSteps, RowSteps
<1> QED
    BY <1>1, <1>2, StepFields

\* One or two steps in the place of one.
LEMMA GoUpToTwo ==
    ASSUME PlanOK, todo # <<>>, NEW p \in Steps, NEW q \in Steps, NEW N, p \in N, q \in N,
           Then(<<>>) \/ Then(<<p>>) \/ Then(<<q>>) \/ Then(<<p, q>>), Precedes(p, q),
           Follows(Head(todo), p), Follows(Head(todo), q)
    PROVE  Goes(N)
<1>1. Goes({}) \/ Goes({p}) \/ Goes({q}) \/ Goes({p, q})
    BY GoNone, GoOne, GoTwo
<1> QED
    BY <1>1 DEF Goes

LEMMA TwoJoined ==
    ASSUME NEW p \in Steps, NEW q \in Steps
    PROVE  <<>> \o <<q>> = <<q>> /\ <<p>> \o <<q>> = <<p, q>>
<1>1. <<p>> \in Seq(Steps) /\ <<q>> \in Seq(Steps) /\ <<p, q>> \in Seq(Steps)
    OBVIOUS
<1>2. <<>> \o <<q>> = <<q>>
    BY <1>1, ConcatEmptySeq
<1>3. <<p>> \o <<q>> = <<p, q>>
    <2> DEFINE s == <<p>> \o <<q>>
               t == <<p, q>>
    <2>1. s \in Seq(Steps) /\ Len(s) = 2 /\ s[1] = p /\ s[2] = q
        BY <1>1, ConcatProperties
    <2>2. t \in Seq(Steps) /\ Len(t) = 2 /\ t[1] = p /\ t[2] = q
        BY <1>1
    <2> HIDE DEF s, t
    <2>3. \A i \in 1 .. Len(s) : i = 1 \/ i = 2
        BY <2>1
    <2>4. \A i \in 1 .. Len(s) : s[i] = t[i]
        BY <2>1, <2>2, <2>3
    <2>5. s = t
        BY <2>1, <2>2, <2>4, SeqEqual
    <2> QED
        BY <2>5 DEF s, t
<1> QED
    BY <1>2, <1>3

LEMMA MissingFrame ==
    ASSUME Frame, handle_missing_report
    PROVE  Frame' /\ Goes({Step("report", Arg, "blocked"), Do("no_report", Arg)})
<1> DEFINE p == Step("report", Arg, "blocked")
           q == Do("no_report", Arg)
           N == {p, q}
<1>1. /\ up /\ todo # <<>> /\ PlanOK /\ Types /\ Arg \in ReportIds /\ Head(todo).op = "missing"
    BY AtStep DEF handle_missing_report
<1>2. p \in Steps /\ p.op = "report" /\ (\A s : s = p => StepOK(s)')
    BY <1>1, ReportStep DEF Words, Final
<1>3. q \in Steps /\ q.op = "no_report" /\ (\A s : s = q => StepOK(s)')
    BY <1>1, DoOK DEF Ops, OtherSteps, AttemptSteps, RowSteps
<1>4. Then(<<q>>) \/ Then(<<p, q>>)
    <2>1. Then(<<q>>) \/ Then(<<>> \o <<q>>) \/ Then(<<p>> \o <<q>>)
        BY DEF handle_missing_report
    <2> HIDE DEF p, q
    <2>2. <<>> \o <<q>> = <<q>> /\ <<p>> \o <<q>> = <<p, q>>
        BY <1>2, <1>3, TwoJoined
    <2> QED
        BY <2>1, <2>2
<1>5. UNCHANGED <<up, acc, work, turn, born, alive, jn, file, told>>
    BY DEF handle_missing_report
<1>6. /\ inbox' \in Inboxes /\ ledger' \in Ledgers /\ faults' \in 0 .. MaxFaults
      /\ waived' \subseteq {"idle", "lost"}
    <2>1. CASE SelfMessage(Nudge) /\ UNCHANGED ledger
        BY <1>1, <2>1, SelfMessageType DEF Types
    <2>2. CASE /\ UNCHANGED inbox
               /\ \E r \in Rcs : task_event(<<"no_report", 0, 0>>, "blocked", r) /\ waived' = Failing(r)
        <3>1. <<"no_report", 0, 0>> \in Causes /\ "blocked" \in Events
            BY CauseTypes DEF Events, Reports, Final
        <3>2. waived' \subseteq {"idle", "lost"} /\ inbox' \in Inboxes
            BY <1>1, <2>2 DEF Failing, Types, Inboxes
        <3> QED
            BY <1>1, <2>2, <3>1, <3>2, TaskEventType
    <2> QED
        BY <2>1, <2>2 DEF handle_missing_report
<1> HIDE DEF p, q
<1>7. Goes(N)
    <2>1. Follows(Head(todo), p) /\ Follows(Head(todo), q)
        BY <1>1, <1>2, <1>3, Followed DEF LastSteps, ReportSteps, Opening
    <2>2. Precedes(p, q)
        BY <1>2, <1>3 DEF Precedes, LastSteps, RowSteps, Closing
    <2> QED
        BY <1>1, <1>2, <1>3, <1>4, <2>1, <2>2, GoUpToTwo
<1>8. \A s \in N : StepOK(s)'
    BY <1>2, <1>3
<1> HIDE DEF N
<1>9. acc' \in Locals
    BY <1>1, <1>5 DEF Types
<1>10. Frame'
    BY <1>1, <1>5, <1>6, <1>7, <1>8, <1>9, FrameLedger DEF Inboxes
<1> QED
    BY <1>7, <1>10 DEF N, p, q

LEMMA NoReportFrame ==
    ASSUME Frame, TaskNoReport
    PROVE  Frame' /\ Goes({})
<1>1. At("no_report") /\ Then(<<>>) /\ Types /\ Arg \in ReportIds /\ jn \in Journals
    BY AtStep DEF TaskNoReport, Types
<1> DEFINE n == jn.missing + 1
           r == Arg
<1>2. /\ UNCHANGED <<up, acc, work, turn, born, outside, faults, waived>>
      /\ jn' = [jn EXCEPT !.missing = n, !.missed = r]
    BY DEF TaskNoReport
<1>3. n \in Nat /\ r \in ReportIds
    BY <1>1, JournalTypes
<1> HIDE DEF n, r
<1>4. jn' \in Journals /\ Alike(jn', jn, {"missing", "missed"})
    BY <1>1, <1>2, <1>3 DEF Journals, Alike, Fields
<1>5. Calm
    BY <1>4, CalmBut
<1>6. Types'
    BY <1>1, <1>2, <1>4 DEF Types, outside
<1> QED
    BY <1>1, <1>2, <1>5, <1>6, FrameNone

LEMMA FailFrame ==
    ASSUME Frame, service_fail
    PROVE  Frame' /\ Goes({Step("report", Arg, "failed")})
<1> DEFINE p == Step("report", Arg, "failed")
           N == {p}
<1>1. /\ At("service_fail") /\ Types /\ Arg \in Attempts /\ Arg \in ReportIds
      /\ Head(todo).op = "service_fail"
    BY AtStep DEF service_fail, AttemptSteps
<1>2. p \in Steps /\ p.op = "report" /\ (\A s : s = p => StepOK(s)')
    BY <1>1, ReportStep DEF Words, Final
<1>3. Then(<<>>) \/ Then(<<p>>)
    BY DEF service_fail
<1>4. UNCHANGED <<up, acc, work, turn, born, alive, jn, file, inbox, told>>
    BY DEF service_fail
<1>5. /\ ledger' \in Ledgers /\ faults' \in 0 .. MaxFaults
      /\ waived' \subseteq {"idle", "lost"}
    <2>1. CASE \E state \in States \ {"IN_PROGRESS"} :
                 task_show(state, "none") /\ waived' = Unseen(state) /\ UNCHANGED ledger
        BY <1>1, <2>1, FaultIs DEF task_show, Unseen, Types
    <2>2. CASE \E r \in Rcs : task_event(<<"fail", Arg, 0>>, "failed", r) /\ waived' = Failing(r)
        <3>1. Arg \in 0 .. MaxAttempts
            BY <1>1, Ids
        <3>2. <<"fail", Arg, 0>> \in Causes /\ "failed" \in Events
            BY <3>1, CauseTypes DEF Events, Reports, Final
        <3>3. waived' \subseteq {"idle", "lost"}
            BY <1>1, <2>2 DEF Failing, Types
        <3> QED
            BY <1>1, <2>2, <3>2, <3>3, TaskEventType
    <2> QED
        BY <2>1, <2>2 DEF service_fail
<1> HIDE DEF p
<1>6. Types'
    BY <1>1, <1>4, <1>5 DEF Types
<1>7. \A x \in N : x \in Steps /\ Follows(Head(todo), x) /\ StepOK(x)'
    BY <1>1, <1>2, Followed DEF LastSteps, ReportSteps, Opening
<1>8. Then(<<>>) \/ \E x \in N : Then(<<x>>)
    BY <1>3
<1> HIDE DEF N
<1>9. Frame' /\ Goes(N)
    BY <1>1, <1>4, <1>6, <1>7, <1>8, CalmSame, FrameOne
<1> QED
    BY <1>9 DEF N, p

\* A plain step about no attempt.
LEMMA PlainSteps ==
    ASSUME NEW op \in LastSteps \cup OtherSteps, op # "resend"
    PROVE  LET x == Do(op, 0) IN
           /\ x \in Steps /\ x.op = op /\ x.a = 0
           /\ \A s : s = x => StepOK(s)'
<1>1. op \in Ops /\ op \notin AttemptSteps /\ 0 \in ReportIds
    BY Ids DEF Ops, LastSteps, OtherSteps, AttemptSteps, RowSteps
<1>2. op \notin {"report", "send", "record", "self", "adopt", "resend", "sent", "unsent"}
    BY DEF LastSteps, OtherSteps
<1> QED
    BY <1>1, <1>2, DoOK

LEMMA WorkTypes == NoWork \in Works
BY DEF NoWork, Works, Marks

LEMMA ChooseFrame ==
    ASSUME Frame, choose_message
    PROVE  Frame' /\ Goes({Do("start", 0), Do("prepare", 0)})
<1> DEFINE p == Do("start", 0)
           q == Do("prepare", 0)
           N == {p, q}
<1>1. At("choose") /\ Types /\ Head(todo).op = "choose"
    BY AtStep DEF choose_message
<1>2. p \in Steps /\ (\A s : s = p => StepOK(s)') /\ q \in Steps /\ (\A s : s = q => StepOK(s)')
    BY PlainSteps DEF LastSteps
<1>3. Then(<<>>) \/ \E x \in N : Then(<<x>>)
    BY DEF choose_message
<1>4. UNCHANGED <<up, acc, turn, born, alive, jn, ledger, file, told, faults, waived>>
    BY DEF choose_message
<1>9. inbox' \in Inboxes
    <2>1. inbox \in Inboxes
        BY <1>1 DEF Types, Inboxes
    <2>2. inbox' = inbox \/ \E m : inbox' = Marked(m, "seen")
        BY DEF choose_message
    <2> QED
        BY <2>1, <2>2, InboxTypes
<1>5. work' \in Works
    <2>1. work \in Works
        BY <1>1 DEF Types
    <2>2. CASE work' = work
        BY <2>1, <2>2
    <2>3. CASE \E m \in MsgIds : work' = [NoWork EXCEPT !.msg = m]
        BY <2>3, WorkTypes DEF Works
    <2> QED
        BY <2>2, <2>3 DEF choose_message
<1> HIDE DEF p, q
<1>6. Types'
    BY <1>1, <1>4, <1>5, <1>9 DEF Types, Inboxes
<1>7. \A x \in N : x \in Steps /\ Follows(Head(todo), x) /\ StepOK(x)'
    BY <1>1, <1>2, Followed DEF LastSteps
<1> HIDE DEF N
<1>8. Frame' /\ Goes(N)
    BY <1>1, <1>3, <1>4, <1>6, <1>7, CalmSame, FrameOne
<1> QED
    BY <1>8 DEF N, p, q

\* Preparations of a message are counted.
LEMMA PrepType ==
    ASSUME jn \in Journals, NEW m, NEW d, m \in MsgIds => d \in Int,
           jn' = [jn EXCEPT !.prep[m] = d]
    PROVE  jn' \in Journals /\ Calm
<1> DEFINE v == [jn.prep EXCEPT ![m] = d]
<1>1. v \in [MsgIds -> Int]
    <2> jn.prep \in [MsgIds -> Int]
        BY JournalTypes
    <2>1. CASE m \in MsgIds
        BY <2>1, Put
    <2>2. CASE m \notin MsgIds
        BY <2>2
    <2> QED
        BY <2>1, <2>2
<1>2. jn' = [jn EXCEPT !.prep = v]
    OBVIOUS
<1> HIDE DEF v
<1>3. LET k == [jn EXCEPT !.prep = v] IN k \in Journals /\ Alike(k, jn, {"prep"})
    BY <1>1, SetPrep
<1> QED
    BY <1>2, <1>3, CalmBut

LEMMA PrepareFrame ==
    ASSUME Frame, prepare_task_work
    PROVE  Frame' /\ Goes({s \in Steps : s.op \in LastSteps \cup {"work_failed"} /\ s.a = 0})
<1> DEFINE N == {s \in Steps : s.op \in LastSteps \cup {"work_failed"} /\ s.a = 0}
           K == {Do("start", 0), Do("work_failed", 0), Do("engine", 0), Step("activate", 0, ledger.state)}
<1>1. At("prepare") /\ Types /\ Head(todo).op = "prepare" /\ jn \in Journals
    BY AtStep DEF prepare_task_work, Types
<1>2. Then(<<>>) \/ \E x \in {Do("start", 0), Do("work_failed", 0), Do("engine", 0)} : Then(<<x>>)
        \/ (ledger.state \in {"ASSIGNED", "IN_PROGRESS"} /\ Then(<<Step("activate", 0, ledger.state)>>))
    BY DEF prepare_task_work
<1>3. \A x \in {Do("start", 0), Do("work_failed", 0), Do("engine", 0)} : x \in N
    <2>1. \A op \in {"start", "work_failed", "engine"} :
              Do(op, 0) \in Steps /\ Do(op, 0).op = op /\ Do(op, 0).a = 0
        BY PlainSteps DEF LastSteps, OtherSteps
    <2> QED
        BY <2>1 DEF LastSteps
<1>4. ledger.state \in {"ASSIGNED", "IN_PROGRESS"} => Step("activate", 0, ledger.state) \in N
    <2>1. 0 \in ReportIds /\ "activate" \in Ops
        BY Ids DEF Ops, LastSteps
    <2> QED
        BY <2>1, StepFields DEF Marks, LastSteps
<1>5. \A x \in N : x \in Steps /\ Follows(Head(todo), x) /\ StepOK(x)'
    <2>1. \A x : x.op \in LastSteps \cup {"work_failed"} => StepOK(x)'
        BY DEF StepOK, LastSteps, AttemptSteps, RowSteps
    <2> QED
        BY <1>1, <2>1, Followed DEF LastSteps
<1>6. Then(<<>>) \/ \E x \in N : Then(<<x>>)
    BY <1>2, <1>3, <1>4
<1>7. UNCHANGED <<up, acc, turn, born, alive, ledger, file, told>>
    BY DEF prepare_task_work
<1>8. work' \in Works
    <2>1. work \in Works
        BY <1>1 DEF Types
    <2>2. CASE work' \in {work, NoWork}
        BY <2>1, <2>2, WorkTypes
    <2>3. CASE work' = [work EXCEPT !.ready = TRUE]
        BY <2>1, <2>3 DEF Works
    <2> QED
        BY <2>2, <2>3 DEF prepare_task_work
<1>9. inbox' \in Inboxes
    <2>1. inbox \in Inboxes
        BY <1>1 DEF Types, Inboxes
    <2> QED
        BY <2>1, InboxTypes DEF prepare_task_work
<1>10. faults' \in 0 .. MaxFaults /\ waived' \subseteq {"idle", "lost"}
    <2>1. faults' \in 0 .. MaxFaults
        BY <1>1, FaultIs DEF prepare_task_work, Types
    <2> QED
        BY <1>1, <2>1 DEF prepare_task_work, Types
<1>11. jn' \in Journals /\ Calm
    <2>1. CASE jn' = jn
        BY <1>1, <2>1, CalmSame
    <2>2. CASE jn' = [jn EXCEPT !.prep[work.msg] = @ + 1]
        <3>1. work.msg \in MsgIds => jn.prep[work.msg] + 1 \in Int
            BY <1>1, JournalTypes
        <3>2. jn' = [jn EXCEPT !.prep[work.msg] = jn.prep[work.msg] + 1]
            BY <2>2
        <3> QED
            BY <1>1, <3>1, <3>2, PrepType
    <2> QED
        BY <2>1, <2>2 DEF prepare_task_work
<1>12. Types'
    BY <1>1, <1>7, <1>8, <1>9, <1>10, <1>11 DEF Types, Inboxes
<1> HIDE DEF N
<1>13. Frame' /\ Goes(N)
    BY <1>1, <1>5, <1>6, <1>7, <1>11, <1>12, FrameOne
<1> QED
    BY <1>13 DEF N

LEMMA ActivateFrame ==
    ASSUME Frame, Activate
    PROVE  Frame' /\ Goes({s \in Steps : s.op \in LastSteps /\ s.a = 0})
<1> DEFINE N == {s \in Steps : s.op \in LastSteps /\ s.a = 0}
<1>1. At("activate") /\ Types /\ Head(todo).op = "activate" /\ jn \in Journals /\ Word \in Marks
    BY AtStep DEF Activate, Types
<1>2. \E op \in {"pickup", "start", "engine"} : Then(<<Do(op, 0)>>)
    BY DEF Activate
<1>3. \A op \in {"pickup", "start", "engine"} : Do(op, 0) \in N
    BY PlainSteps DEF LastSteps
<1>5. \A x \in N : x \in Steps /\ Follows(Head(todo), x) /\ StepOK(x)'
    <2>1. \A x : x.op \in LastSteps => StepOK(x)'
        BY DEF StepOK, LastSteps, AttemptSteps, RowSteps
    <2> QED
        BY <1>1, <2>1, Followed DEF LastSteps
<1>6. Then(<<>>) \/ \E x \in N : Then(<<x>>)
    BY <1>2, <1>3
<1>7. UNCHANGED <<up, acc, turn, born, outside, waived>>
    BY DEF Activate
<1>8. work' \in Works
    <2>1. work \in Works
        BY <1>1 DEF Types
    <2>2. CASE work' = work
        BY <2>1, <2>2
    <2>3. CASE work' = [work EXCEPT !.ready = TRUE, !.task = TRUE, !.state = Word]
        BY <1>1, <2>1, <2>3 DEF Works
    <2> QED
        BY <2>2, <2>3 DEF Activate
<1>9. faults' \in 0 .. MaxFaults
    BY <1>1, FaultIs DEF Activate, Types
<1>11. jn' \in Journals /\ Calm
    <2>1. work.msg \in MsgIds => jn.prep[work.msg] - 1 \in Int
        BY <1>1, JournalTypes
    <2>2. jn' = [jn EXCEPT !.prep[work.msg] = jn.prep[work.msg] - 1]
        BY DEF Activate
    <2> QED
        BY <1>1, <2>1, <2>2, PrepType
<1>12. Types'
    BY <1>1, <1>7, <1>8, <1>9, <1>11 DEF Types, outside
<1> HIDE DEF N
<1>13. Frame' /\ Goes(N)
    BY <1>1, <1>5, <1>6, <1>7, <1>11, <1>12, FrameOne
<1> QED
    BY <1>13 DEF N

LEMMA PickupFrame ==
    ASSUME Frame, Pickup
    PROVE  Frame' /\ Goes({s \in Steps : s.op \in LastSteps /\ s.a = 0})
<1> DEFINE N == {s \in Steps : s.op \in LastSteps /\ s.a = 0}
<1>1. At("pickup") /\ Types /\ Head(todo).op = "pickup"
    BY AtStep DEF Pickup
<1>2. \E op \in {"start", "engine"} : Then(<<Do(op, 0)>>)
    BY DEF Pickup
<1>3. \A op \in {"start", "engine"} : Do(op, 0) \in N
    BY PlainSteps DEF LastSteps
<1>5. \A x \in N : x \in Steps /\ Follows(Head(todo), x) /\ StepOK(x)'
    <2>1. \A x : x.op \in LastSteps => StepOK(x)'
        BY DEF StepOK, LastSteps, AttemptSteps, RowSteps
    <2> QED
        BY <1>1, <2>1, Followed DEF LastSteps
<1>6. Then(<<>>) \/ \E x \in N : Then(<<x>>)
    BY <1>2, <1>3
<1>7. UNCHANGED <<up, acc, turn, born, alive, jn, file, inbox, told>>
    BY DEF Pickup
<1>8. work' \in Works
    <2>1. "IN_PROGRESS" \in Marks
        BY DEF Marks
    <2>2. work \in Works
        BY <1>1 DEF Types
    <2>3. CASE work' = work
        BY <2>2, <2>3
    <2>4. CASE work' = [work EXCEPT !.state = "IN_PROGRESS"]
        BY <2>1, <2>2, <2>4 DEF Works
    <2> QED
        BY <2>3, <2>4 DEF Pickup
<1>9. ledger' \in Ledgers /\ faults' \in 0 .. MaxFaults
    <2>1. <<"start", 0, 0>> \in Causes /\ "start" \in Events
        BY CauseTypes DEF Events
    <2> QED
        BY <1>1, <2>1, TaskEventType DEF Pickup
<1>10. waived' \subseteq {"idle", "lost"}
    BY <1>1 DEF Pickup, Types, IfAssigned
<1>12. Types'
    BY <1>1, <1>7, <1>8, <1>9, <1>10 DEF Types
<1> HIDE DEF N
<1>13. Frame' /\ Goes(N)
    BY <1>1, <1>5, <1>6, <1>7, <1>12, CalmSame, FrameOne
<1> QED
    BY <1>13 DEF N

LEMMA EngineFrame ==
    ASSUME Frame, message_engine_error
    PROVE  Frame' /\ Goes({Do("work_failed", 0)})
<1> DEFINE p == Do("work_failed", 0)
           N == {p}
           m == work.msg
<1>1. At("engine") /\ Types /\ Head(todo).op = "engine" /\ jn \in Journals
    BY AtStep DEF message_engine_error, Types
<1>2. p \in Steps /\ (\A s : s = p => StepOK(s)')
    BY PlainSteps DEF OtherSteps
<1>3. Then(<<>>) \/ Then(<<p>>)
    BY DEF message_engine_error
<1>4. /\ UNCHANGED <<up, acc, work, turn, born, outside, faults, waived>>
      /\ jn' = [jn EXCEPT !.errs[m] = jn.errs[m] + 1]
    BY DEF message_engine_error
<1>5. jn' \in Journals /\ Calm
    <2> DEFINE v == [jn.errs EXCEPT ![m] = jn.errs[m] + 1]
    <2>1. v \in [MsgIds -> Nat]
        <3> jn.errs \in [MsgIds -> Nat]
            BY <1>1, JournalTypes
        <3>1. CASE m \in MsgIds
            BY <3>1, Put
        <3>2. CASE m \notin MsgIds
            BY <3>2
        <3> QED
            BY <3>1, <3>2
    <2>2. jn' = [jn EXCEPT !.errs = v]
        BY <1>4
    <2> HIDE DEF v
    <2>3. LET k == [jn EXCEPT !.errs = v] IN k \in Journals /\ Alike(k, jn, {"errs"})
        BY <1>1, <2>1, SetErrs
    <2> QED
        BY <2>2, <2>3, CalmBut
<1>6. Types'
    BY <1>1, <1>4, <1>5 DEF Types, outside
<1> HIDE DEF p
<1>7. \A x \in N : x \in Steps /\ Follows(Head(todo), x) /\ StepOK(x)'
    BY <1>1, <1>2, Followed DEF LastSteps
<1>8. Then(<<>>) \/ \E x \in N : Then(<<x>>)
    BY <1>3
<1> HIDE DEF N
<1>9. Frame' /\ Goes(N)
    BY <1>1, <1>4, <1>5, <1>6, <1>7, <1>8, FrameOne
<1> QED
    BY <1>9 DEF N, p

\* Nothing is left to do after the last step of a poll.
LEMMA LastIsLast ==
    ASSUME PlanOK, todo # <<>>, Head(todo).op \in LastSteps
    PROVE  Tail(todo) = <<>>
<1>1. Tail(todo) \in Seq(Steps) /\ \A q \in In(Tail(todo)) : Precedes(Head(todo), q)
    BY Rest
<1>2. In(Tail(todo)) = {}
    BY <1>1 DEF Precedes
<1>3. Len(Tail(todo)) = 0
    <2> DEFINE n == Len(Tail(todo))
    <2>1. n \in Nat
        BY <1>1, LenProperties
    <2>3. 1 \in 1 .. n => Tail(todo)[1] \in In(Tail(todo))
        BY DEF In
    <2> HIDE DEF n
    <2>2. n # 0 => 1 \in 1 .. n
        BY <2>1
    <2> QED
        BY <1>2, <2>1, <2>2, <2>3 DEF n
<1> QED
    BY <1>1, <1>3, EmptySeq

LEMMA StartFrame ==
    ASSUME Frame, start_turn
    PROVE  /\ Frame' /\ todo' = <<>> /\ jn' \in Journals
           /\ Alike(jn', jn, {"last", "open", "msg", "task"})
           /\ \A a \in Attempts : a <= jn.last => jn'.task[a] = jn.task[a]
<1> DEFINE a == jn.last + 1
           ms == [jn.msg EXCEPT ![a] = work.msg]
           ts == [jn.task EXCEPT ![a] = work.task]
<1>1. /\ up /\ todo # <<>> /\ PlanOK /\ Types /\ jn \in Journals /\ work \in Works
      /\ Head(todo).op \in LastSteps
    BY AtStep DEF start_turn, Types, LastSteps
<1>2. /\ a <= MaxAttempts /\ jn' = [jn EXCEPT !.last = a, !.open = a, !.msg = ms, !.task = ts]
      /\ turn' = a /\ alive' = alive \cup {a} /\ Then(<<>>)
      /\ UNCHANGED <<up, acc, work, born, ledger, file, inbox, told, faults, waived>>
    BY DEF start_turn
<1>3. jn.last \in 0 .. MaxAttempts /\ a \in 1 .. MaxAttempts /\ a \in Attempts
    BY <1>1, <1>2, JournalTypes, Ids DEF Attempts
<1>4. ms \in [Attempts -> MsgIds \cup {None}]
    <2>1. work.msg \in MsgIds \cup {None}
        BY <1>1 DEF Works
    <2> QED
        BY <1>1, <1>3, <2>1, JournalTypes, Put
<1>5. ts \in [Attempts -> BOOLEAN] /\ ts[a] = work.task /\ \A b \in Attempts : b # a => ts[b] = jn.task[b]
    <2>1. work.task \in BOOLEAN
        BY <1>1 DEF Works
    <2> QED
        BY <1>1, <1>3, <2>1, JournalTypes, Put
<1>6. todo' = <<>>
    <2>1. Tail(todo) = <<>>
        BY <1>1, LastIsLast
    <2> QED
        BY <1>2, <2>1 DEF Then
<1>7. \A b \in Attempts : b <= jn.last => b # a
    BY <1>3
<1>8. a <= a /\ \A x \in 0 .. MaxAttempts : x <= jn.last => x <= a
    BY <1>3
<1> HIDE DEF a, ms, ts
<1>9. /\ jn' \in Journals /\ jn'.last = a /\ jn'.open = a /\ jn'.task = ts
      /\ Alike(jn', jn, {"last", "open", "msg", "task"})
    <2>1. a \in 0 .. MaxAttempts
        BY <1>3
    <2> QED
        BY <1>1, <1>2, <1>4, <1>5, <2>1 DEF Journals, Alike, Fields
<1>10. Types'
    <2>1. a \in 0 .. MaxAttempts /\ alive' \subseteq Attempts
        BY <1>1, <1>2, <1>3 DEF Types
    <2> QED
        BY <1>1, <1>2, <1>9, <2>1 DEF Types
<1>11. PlanOK'
    BY <1>6, ShortPlans DEF PlanOK
<1>12. jn'.of = jn.of /\ jn'.defer = jn.defer /\ jn'.report = jn.report
    BY <1>9 DEF Alike, Fields
<1>13. Begun'
    <2>1. \A b \in Attempts : jn.of[b] \in 0 .. MaxAttempts /\ b \in 0 .. MaxAttempts
        <3>1. jn.of \in [Attempts -> 0 .. MaxAttempts]
            BY <1>1, JournalTypes
        <3>2. \A b \in Attempts : b \in 0 .. MaxAttempts
            BY DEF Attempts
        <3> QED
            BY <3>1, <3>2
    <2>2. \A b \in Attempts : jn.of[b] <= jn.last /\ (jn.defer[b] > 0 => b <= jn.last)
        BY DEF Frame, Begun
    <2> QED
        BY <1>2, <1>8, <1>9, <1>12, <2>1, <2>2 DEF Begun
<1>14. Saying' /\ Turning'
    <2>1. work' = work /\ up' = up /\ turn' = a
        BY <1>2
    <2> QED
        BY <1>1, <1>5, <1>6, <1>9, <1>12, <2>1 DEF Saying, Turning, Frame
<1> QED
    BY <1>5, <1>6, <1>7, <1>9, <1>10, <1>11, <1>13, <1>14 DEF Frame

LEMMA FinishJournal ==
    ASSUME jn \in Journals,
           \/ jn' = [jn EXCEPT !.open = 0]
           \/ jn' = [jn EXCEPT !.open = 0, !.fails[work.msg] = @ + 1]
    PROVE  jn' \in Journals /\ Alike(jn', jn, {"open", "fails"}) /\ jn'.open = 0
<1> DEFINE m == work.msg
           v == [jn.fails EXCEPT ![m] = jn.fails[m] + 1]
<1>1. v \in [MsgIds -> Nat]
    <2> jn.fails \in [MsgIds -> Nat]
        BY JournalTypes
    <2>1. CASE m \in MsgIds
        BY <2>1, Put
    <2>2. CASE m \notin MsgIds
        BY <2>2
    <2> QED
        BY <2>1, <2>2
<1>2. 0 \in 0 .. MaxAttempts
    BY Ids
<1>3. jn' = [jn EXCEPT !.open = 0] \/ jn' = [jn EXCEPT !.open = 0, !.fails = v]
    OBVIOUS
<1> HIDE DEF v
<1>4. CASE jn' = [jn EXCEPT !.open = 0]
    BY <1>2, <1>4 DEF Journals, Alike, Fields
<1>5. CASE jn' = [jn EXCEPT !.open = 0, !.fails = v]
    BY <1>1, <1>2, <1>5 DEF Journals, Alike, Fields
<1> QED
    BY <1>3, <1>4, <1>5

\* What a turn's end may still ask for.
AfterTurn(a) ==
    {Do("missing", a), Do("work_done", 0), Step("work_failed", 0, "turn"), Do("service_fail", a)}

LEMMA FinishFrame ==
    ASSUME Frame, finish_result
    PROVE  Frame' /\ Goes(AfterTurn(Arg)) /\ Alike(jn', jn, {"open", "fails"})
<1> DEFINE p == Do("missing", Arg)
           q == Do("work_done", 0)
           r == Step("work_failed", 0, "turn")
           s == Do("service_fail", Arg)
           N == {p, q, r, s}
<1>1. /\ up /\ todo # <<>> /\ PlanOK /\ Types /\ jn \in Journals /\ Arg \in Attempts
      /\ Arg \in ReportIds /\ Head(todo).op = "finish"
    BY AtStep DEF finish_result, AttemptSteps, Types
<1>2. /\ p \in Steps /\ q \in Steps /\ r \in Steps /\ s \in Steps
      /\ p.op = "missing" /\ q.op = "work_done" /\ r.op = "work_failed" /\ s.op = "service_fail"
      /\ \A x : x = p \/ x = q \/ x = r \/ x = s => StepOK(x)'
    <2>1. p \in Steps /\ p.op = "missing" /\ \A x : x = p => StepOK(x)'
        BY <1>1, DoOK DEF Ops, OtherSteps, AttemptSteps, RowSteps
    <2>2. s \in Steps /\ s.op = "service_fail" /\ \A x : x = s => StepOK(x)'
        BY <1>1, DoOK DEF Ops, AttemptSteps
    <2>3. q \in Steps /\ q.op = "work_done" /\ \A x : x = q => StepOK(x)'
        BY PlainSteps DEF OtherSteps
    <2>4. r \in Steps /\ r.op = "work_failed"
        BY Ids, StepFields DEF Ops, OtherSteps, Marks
    <2>5. \A x : x.op = "work_failed" => StepOK(x)'
        BY DEF StepOK, AttemptSteps, RowSteps
    <2> HIDE DEF p, q, r, s
    <2> QED
        BY <2>1, <2>2, <2>3, <2>4, <2>5
<1>3. \/ Then(<<>>) \/ Then(<<>> \o <<q>>) \/ Then(<<p>> \o <<q>>)
      \/ Then(<<r>> \o <<>>) \/ Then(<<r>> \o <<s>>)
    BY DEF finish_result
<1>4. UNCHANGED <<up, acc, work, turn, born, outside>>
    BY DEF finish_result
<1>5. faults' \in 0 .. MaxFaults /\ waived' \subseteq {"idle", "lost"}
    <2>1. faults' \in 0 .. MaxFaults
        BY <1>1, FaultIs DEF finish_result, task_show, Types
    <2> QED
        BY <1>1, <2>1 DEF finish_result, Unseen, Types
<1>6. jn' \in Journals /\ Alike(jn', jn, {"open", "fails"}) /\ jn'.open = 0
    <2>1. \/ jn' = [jn EXCEPT !.open = 0]
          \/ jn' = [jn EXCEPT !.open = 0, !.fails[work.msg] = @ + 1]
        BY DEF finish_result
    <2> QED
        BY <1>1, <2>1, FinishJournal
<1> HIDE DEF p, q, r, s
<1>7. Goes(N)
    <2>1. \A x \in N : Follows(Head(todo), x)
        BY <1>1, <1>2, Followed DEF LastSteps, ReportSteps, Opening
    <2>2. Precedes(p, q) /\ Precedes(r, s)
        BY <1>2 DEF Precedes, LastSteps, RowSteps, Closing
    <2>3. /\ <<>> \o <<q>> = <<q>> /\ <<p>> \o <<q>> = <<p, q>> /\ <<r>> \o <<s>> = <<r, s>>
          /\ <<r>> \o <<>> = <<r>>
        <3>1. <<r>> \in Seq(Steps)
            BY <1>2
        <3> QED
            BY <1>2, <3>1, TwoJoined, ConcatEmptySeq
    <2>4. p \in N /\ q \in N /\ r \in N /\ s \in N
        OBVIOUS
    <2>5. \/ Then(<<>>) \/ Then(<<p>>) \/ Then(<<q>>) \/ Then(<<p, q>>)
          \/ Then(<<>>) \/ Then(<<r>>) \/ Then(<<s>>) \/ Then(<<r, s>>)
        BY <1>3, <2>3
    <2> HIDE DEF N
    <2>6. CASE Then(<<>>) \/ Then(<<p>>) \/ Then(<<q>>) \/ Then(<<p, q>>)
        BY <1>1, <1>2, <2>1, <2>2, <2>4, <2>6, GoUpToTwo
    <2>7. CASE Then(<<>>) \/ Then(<<r>>) \/ Then(<<s>>) \/ Then(<<r, s>>)
        BY <1>1, <1>2, <2>1, <2>2, <2>4, <2>7, GoUpToTwo
    <2> QED
        BY <2>5, <2>6, <2>7
<1>8. \A x \in N : StepOK(x)'
    BY <1>2
<1>9. Types'
    BY <1>1, <1>4, <1>5, <1>6 DEF Types, outside
<1>10. /\ jn'.last = jn.last /\ jn'.of = jn.of /\ jn'.defer = jn.defer /\ jn'.report = jn.report
    BY <1>6 DEF Alike, Fields
<1> HIDE DEF N
<1>11. Frame'
    BY <1>1, <1>4, <1>6, <1>7, <1>8, <1>9, <1>10, FrameStep DEF Frame, Begun, Saying
<1> QED
    BY <1>6, <1>7, <1>11 DEF N, p, q, r, s, AfterTurn

LEMMA AwaitFrame ==
    ASSUME Frame, AwaitOrphan
    PROVE  Frame' /\ Goes({})
<1>1. At("await") /\ Then(<<>>) /\ Types
    BY AtStep DEF AwaitOrphan
<1>2. /\ UNCHANGED <<up, acc, work, turn, born, outside, jn, waived>>
      /\ faults' = faults \/ Fault("cap")
    BY DEF AwaitOrphan
<1>3. faults' \in 0 .. MaxFaults
    BY <1>1, <1>2, FaultIs DEF Types
<1>4. Types'
    BY <1>1, <1>2, <1>3 DEF Types, outside
<1> QED
    BY <1>1, <1>2, <1>4, CalmSame, FrameNone

LEMMA GoneFrame ==
    ASSUME Frame, OrphanGone
    PROVE  Frame' /\ Goes({}) /\ Alike(jn', jn, {"open"})
<1>1. /\ At("gone") /\ Then(<<>>) /\ Types /\ jn \in Journals /\ up /\ todo # <<>> /\ PlanOK
    BY AtStep DEF OrphanGone, Types
<1>2. /\ UNCHANGED <<up, acc, work, turn, born, outside, faults, waived>>
      /\ jn' = [jn EXCEPT !.open = 0]
    BY DEF OrphanGone
<1>3. jn' \in Journals /\ jn'.open = 0 /\ Alike(jn', jn, {"open"})
    BY <1>1, <1>2, Ids, SetOpen
<1>4. Types'
    BY <1>1, <1>2, <1>3 DEF Types, outside
<1>5. jn'.last = jn.last /\ jn'.of = jn.of /\ jn'.defer = jn.defer /\ jn'.report = jn.report
    BY <1>3 DEF Alike, Fields
<1>6. Goes({})
    BY <1>1, GoNone
<1> QED
    BY <1>1, <1>2, <1>3, <1>4, <1>5, <1>6, FrameStep DEF Frame, Begun, Saying

LEMMA ResolveFrame ==
    ASSUME Frame, ResolveOrphan
    PROVE  Frame' /\ Goes({}) /\ Alike(jn', jn, {"defer", "pending"})
<1> DEFINE d == [jn.defer EXCEPT ![Arg] = 0]
           p == [jn.pending EXCEPT ![Arg] = {}]
<1>1. /\ At("resolve") /\ Then(<<>>) /\ Types /\ jn \in Journals /\ up /\ todo # <<>> /\ PlanOK
      /\ Arg \in Attempts
    BY AtStep DEF ResolveOrphan, AttemptSteps, Types
<1>2. /\ UNCHANGED <<up, acc, work, turn, born, outside, faults, waived>>
      /\ jn' = [jn EXCEPT !.defer = d, !.pending = p]
    BY DEF ResolveOrphan
<1>3. /\ d \in [Attempts -> Nat] /\ p \in [Attempts -> SUBSET Attempts]
      /\ \A a \in Attempts : d[a] > 0 => jn.defer[a] > 0
    BY <1>1, JournalTypes
<1> HIDE DEF d, p
<1>4. jn' \in Journals /\ jn'.defer = d /\ Alike(jn', jn, {"defer", "pending"})
    BY <1>1, <1>2, <1>3 DEF Journals, Alike, Fields
<1>5. Types'
    BY <1>1, <1>2, <1>4 DEF Types, outside
<1>6. jn'.last = jn.last /\ jn'.of = jn.of /\ jn'.open = jn.open /\ jn'.report = jn.report
    BY <1>4 DEF Alike, Fields
<1>7. Goes({})
    BY <1>1, GoNone
<1>8. \A a \in Attempts : jn'.of[a] <= jn.last /\ (jn'.defer[a] > 0 => a <= jn.last)
    BY <1>3, <1>4, <1>6 DEF Frame, Begun
<1> QED
    BY <1>1, <1>2, <1>4, <1>5, <1>6, <1>7, <1>8, FrameStep DEF Frame, Saying

\* Attempts are closed with what their files hold.
LEMMA CloseType ==
    ASSUME Types, NEW S, CloseAttempts(S)
    PROVE  /\ jn' \in Journals /\ Alike(jn', jn, {"closed"})
           /\ \A a \in Attempts : jn'.closed[a] =
                IF a \in S /\ jn.closed[a] = None THEN file[a] ELSE jn.closed[a]
<1> DEFINE v == [a \in Attempts |-> IF a \in S /\ jn.closed[a] = None THEN file[a] ELSE jn.closed[a]]
<1>1. jn \in Journals /\ file \in [Attempts -> Contents]
    BY DEF Types
<1>2. v \in [Attempts -> Contents \cup {None}]
    BY <1>1, JournalTypes
<1>3. \A a \in Attempts : v[a] = IF a \in S /\ jn.closed[a] = None THEN file[a] ELSE jn.closed[a]
    OBVIOUS
<1>4. jn' = [jn EXCEPT !.closed = v]
    BY DEF CloseAttempts
<1> HIDE DEF v
<1>5. LET k == [jn EXCEPT !.closed = v] IN
      k \in Journals /\ k.closed = v /\ Alike(k, jn, {"closed"})
    BY <1>1, <1>2, SetClosed
<1> QED
    BY <1>3, <1>4, <1>5

LEMMA CloseFrame ==
    ASSUME Frame, close_intent_attempt \/ close_unclosed_attempts
    PROVE  Frame' /\ Goes({})
<1> DEFINE S == IF close_intent_attempt THEN {Arg} ELSE Claimed
<1>1. PICK h \in {"close", "close_all"} : At(h) /\ Then(<<>>)
    BY DEF close_intent_attempt, close_unclosed_attempts
<1>2. /\ UNCHANGED <<up, acc, work, turn, born, outside, faults, waived>>
      /\ CloseAttempts(S)
    BY DEF close_intent_attempt, close_unclosed_attempts
<1>3. Types
    BY DEF Frame
<1> HIDE DEF S
<1>4. jn' \in Journals /\ Calm
    BY <1>2, <1>3, CloseType, CalmBut
<1>5. Types'
    BY <1>2, <1>3, <1>4 DEF Types, outside
<1> QED
    BY <1>1, <1>2, <1>4, <1>5, FrameNone

LEMMA OrphansFrame ==
    ASSUME Frame, retry_deferred_orphans
    PROVE  Frame' /\ Goes({s \in Steps : s.op = "adopt"})
<1> DEFINE S == {l \in Attempts : jn.defer[l] > 0}
<1>1. /\ At("orphans") /\ Then(Each("adopt", S)) /\ S \in SUBSET ReportIds
      /\ UNCHANGED <<up, acc, work, turn, born, outside, jn, faults, waived>>
    BY Ids DEF retry_deferred_orphans
<1>2. \A s \in Steps : s.op = "adopt" /\ s.a \in S => StepOK(s)'
    BY <1>1 DEF StepOK, Frame, Begun
<1>3. "adopt" \in Ops /\ "adopt" \notin LastSteps \cup RowSteps
    BY DEF Ops, AttemptSteps, LastSteps, RowSteps
<1>4. Frame' /\ Goes({s \in Steps : s.op = "adopt" /\ s.a \in S /\ s.w = "none"})
    <2>1. "orphans" \notin ReportSteps \cup Opening \cup LastSteps
        BY DEF ReportSteps, Opening, LastSteps
    <2> HIDE DEF S
    <2> QED
        BY <1>1, <1>2, <1>3, <2>1, EachFrame
<1> QED
    BY <1>4 DEF Goes

LEMMA ScanFrame ==
    ASSUME Frame, scan_intents
    PROVE  Frame' /\ Goes({s \in Steps : s.op = "file"})
<1> DEFINE S == {a \in Attempts : file[a] # <<>>}
<1>1. /\ At("scan") /\ Then(Each("file", S)) /\ S \in SUBSET ReportIds
      /\ UNCHANGED <<up, acc, work, turn, born, outside, jn, faults, waived>>
    BY Ids DEF scan_intents
<1>2. \A s \in Steps : s.op = "file" /\ s.a \in S => StepOK(s)'
    BY DEF StepOK
<1>3. "file" \in Ops /\ "file" \notin LastSteps \cup RowSteps
    BY DEF Ops, AttemptSteps, LastSteps, RowSteps
<1>4. Frame' /\ Goes({s \in Steps : s.op = "file" /\ s.a \in S /\ s.w = "none"})
    <2>1. "scan" \notin ReportSteps \cup Opening \cup LastSteps
        BY DEF ReportSteps, Opening, LastSteps
    <2> HIDE DEF S
    <2> QED
        BY <1>1, <1>2, <1>3, <2>1, EachFrame
<1> QED
    BY <1>4 DEF Goes

LEMMA FileFrame ==
    ASSUME Frame, ScanFile
    PROVE  /\ Frame'
           /\ Goes({s \in Steps : /\ s.op \in {"quarantine", "apply", "recheck"} /\ s.a = Arg
                                  /\ s.op = "apply" => /\ s.w = "scan" /\ Arg \in Claimed
                                                       /\ jn.task[jn.of[Arg]]})
<1> DEFINE N == {s \in Steps : /\ s.op \in {"quarantine", "apply", "recheck"} /\ s.a = Arg
                               /\ s.op = "apply" => /\ s.w = "scan" /\ Arg \in Claimed
                                                    /\ jn.task[jn.of[Arg]]}
           p == Step("apply", Arg, "scan")
           q == Do("recheck", Arg)
           r == Do("quarantine", Arg)
           T == Arg \in Claimed /\ jn.task[jn.of[Arg]]
<1>1. /\ up /\ todo # <<>> /\ PlanOK /\ Types /\ Arg \in Attempts /\ Arg \in ReportIds
      /\ Head(todo).op = "file"
    BY AtStep DEF ScanFile, AttemptSteps
<1>2. /\ p \in Steps /\ p.op = "apply" /\ p.a = Arg /\ p.w = "scan"
      /\ q \in Steps /\ q.op = "recheck" /\ q.a = Arg
      /\ r \in Steps /\ r.op = "quarantine" /\ r.a = Arg
    <2>1. /\ "apply" \in Ops /\ "recheck" \in Ops /\ "quarantine" \in Ops
          /\ "scan" \in Marks
        BY DEF Ops, AttemptSteps, Marks
    <2>2. p \in Steps /\ p.op = "apply" /\ p.a = Arg /\ p.w = "scan"
        BY <1>1, <2>1, StepFields
    <2>3. q \in Steps /\ q.op = "recheck" /\ q.a = Arg
        BY <1>1, <2>1, StepFields
    <2>4. r \in Steps /\ r.op = "quarantine" /\ r.a = Arg
        BY <1>1, <2>1, StepFields
    <2> QED
        BY <2>2, <2>3, <2>4
<1>3. \/ Then(<<>>) \/ Then(<<r>>)
      \/ T /\ (Then(<<p>> \o <<>>) \/ Then(<<p>> \o <<q>>))
    <2> DEFINE D == Arg \in deferred_intent_names
               U == Arg \notin deferred_intent_names \cup Claimed
               W == Arg \in Claimed /\ ~jn.task[jn.of[Arg]]
               c == CASE D -> <<>> [] U -> <<r>> [] W -> <<r>>
                      [] OTHER -> <<p>> \o (IF intent_retry_pending(Arg) THEN <<q>> ELSE <<>>)
    <2>1. Then(c)
        BY DEF ScanFile
    <2>2. /\ D => ~U /\ ~W
          /\ U => ~W
          /\ ~D /\ ~U /\ ~W => T
        <3> DEFINE B == jn.task[jn.of[Arg]]
                   M == Arg \in Claimed
        <3>1. D => ~M
            BY DEF deferred_intent_names
        <3>2. (U <=> ~D /\ ~M) /\ (W <=> M /\ ~B) /\ (T <=> M /\ B)
            OBVIOUS
        <3> HIDE DEF B, D, U, W, M, T
        <3> QED
            BY <3>1, <3>2
    <2> HIDE DEF D, U, W, p, q, r
    <2>3. CASE D
        BY <2>1, <2>2, <2>3
    <2>4. CASE U \/ W
        BY <2>1, <2>2, <2>4
    <2>5. CASE ~D /\ ~U /\ ~W
        BY <2>1, <2>2, <2>5
    <2> QED
        BY <2>3, <2>4, <2>5
<1>4. \A x \in N : StepOK(x)' /\ Follows(Head(todo), x)
    <2>1. \A x : x.op \in {"quarantine", "apply", "recheck"} /\ x.a = Arg => StepOK(x)'
        BY <1>1 DEF StepOK
    <2> QED
        BY <1>1, <2>1, Followed DEF LastSteps, ReportSteps, Opening
<1>5. r \in N /\ (T => p \in N /\ q \in N)
    BY <1>2
<1>6. UNCHANGED <<up, acc, work, turn, born, outside, jn, faults, waived>>
    BY DEF ScanFile
<1> HIDE DEF p, q, r, T
<1>7. <<p>> \o <<>> = <<p>> /\ <<p>> \o <<q>> = <<p, q>>
    <2>1. <<p>> \in Seq(Steps)
        BY <1>2
    <2> QED
        BY <1>2, <2>1, TwoJoined, ConcatEmptySeq
<1>8. Precedes(p, q)
    BY <1>2 DEF Precedes, LastSteps, RowSteps, Closing
<1>9. Goes(N)
    <2> HIDE DEF N
    <2>1. CASE Then(<<>>) \/ Then(<<r>>)
        <3>1. Goes({}) \/ Goes({r})
            BY <1>1, <1>2, <1>4, <1>5, <2>1, GoNone, GoOne
        <3> QED
            BY <1>5, <3>1 DEF Goes
    <2>2. CASE T /\ (Then(<<p>>) \/ Then(<<p, q>>))
        BY <1>1, <1>2, <1>4, <1>5, <1>8, <2>2, GoUpToTwo
    <2> QED
        BY <1>3, <1>7, <2>1, <2>2
<1> HIDE DEF N
<1>10. faults' \in 0 .. MaxFaults /\ waived' \subseteq {"idle", "lost"}
    BY <1>1, <1>6 DEF Types
<1>11. Frame'
    BY <1>1, <1>4, <1>6, <1>9, <1>10, FrameIdle
<1> QED
    BY <1>9, <1>11 DEF N

\* The end of a turn or of a retry, or the sweep, finds a report missing.
LEMMA CheckFrame ==
    ASSUME Frame, recheck_missing_report_after_retry \/ sweep_missing_reports
    PROVE  Frame' /\ Goes({s \in Steps : s.op = "missing"})
<1> DEFINE N == {s \in Steps : s.op = "missing"}
<1>1. PICK h \in {"recheck", "sweep"} :
        /\ At(h)
        /\ \E a \in ReportIds : Then(<<>>) \/ Then(<<Do("missing", a)>>)
    <2>1. CASE recheck_missing_report_after_retry
        <3>1. At("recheck") /\ Arg \in ReportIds
            BY <2>1, AtStep DEF recheck_missing_report_after_retry
        <3> QED
            BY <2>1, <3>1 DEF recheck_missing_report_after_retry
    <2>2. CASE sweep_missing_reports
        <3>1. At("sweep") /\ jn.missed \in ReportIds
            BY <2>2, JournalTypes DEF sweep_missing_reports, Frame, Types
        <3> QED
            BY <2>2, <3>1 DEF sweep_missing_reports
    <2> QED
        BY <2>1, <2>2
<1>2. Types /\ Head(todo).op = h
    BY <1>1, AtStep
<1>3. \A a \in ReportIds : Do("missing", a) \in N
    BY StepFields DEF Ops, OtherSteps
<1>4. \A x \in N : x \in Steps /\ Follows(Head(todo), x) /\ StepOK(x)'
    <2>1. \A x : x.op = "missing" => StepOK(x)'
        BY DEF StepOK, AttemptSteps, RowSteps
    <2>2. h \notin ReportSteps \cup Opening \cup LastSteps /\ "missing" \notin LastSteps
        BY DEF ReportSteps, Opening, LastSteps
    <2> QED
        BY <1>2, <2>1, <2>2, Followed
<1>5. Then(<<>>) \/ \E x \in N : Then(<<x>>)
    BY <1>1, <1>3
<1>6. UNCHANGED <<up, acc, work, turn, born, outside, jn>>
    BY DEF recheck_missing_report_after_retry, sweep_missing_reports
<1>7. faults' \in 0 .. MaxFaults /\ waived' \subseteq {"idle", "lost"}
    <2>1. PICK state \in States : task_show(state, "none") /\ waived' \in {waived, Unseen(state)}
        BY DEF recheck_missing_report_after_retry, sweep_missing_reports
    <2>2. faults' \in 0 .. MaxFaults
        BY <1>2, <2>1, FaultIs DEF task_show, Types
    <2> QED
        BY <1>2, <2>1, <2>2 DEF Unseen, Types
<1>8. Types'
    BY <1>2, <1>6, <1>7 DEF Types, outside
<1> HIDE DEF N
<1>9. Frame' /\ Goes(N)
    BY <1>1, <1>4, <1>5, <1>6, <1>8, CalmSame, FrameOne
<1> QED
    BY <1>9 DEF N

LEMMA DlqFrame ==
    ASSUME Frame, scan_task_dlq
    PROVE  Frame' /\ Goes({Step("report", Delivery, "cancelled"), Do("dlq_done", 0)})
<1> DEFINE p == Step("report", Delivery, "cancelled")
           q == Do("dlq_done", 0)
           N == {p, q}
<1>1. /\ up /\ todo # <<>> /\ PlanOK /\ Types /\ Head(todo).op = "dlq"
    BY AtStep DEF scan_task_dlq
<1>2. p \in Steps /\ p.op = "report" /\ (\A s : s = p => StepOK(s)')
    BY Ids, ReportStep DEF Words
<1>3. q \in Steps /\ q.op = "dlq_done" /\ (\A s : s = q => StepOK(s)')
    BY PlainSteps DEF OtherSteps
<1>4. Then(<<>>) \/ Then(<<q>>) \/ Then(<<p, q>>)
    <2>1. Then(<<>>) \/ Then(<<q>>) \/ Then(<<>> \o <<q>>) \/ Then(<<p>> \o <<q>>)
        BY DEF scan_task_dlq
    <2> HIDE DEF p, q
    <2>2. <<>> \o <<q>> = <<q>> /\ <<p>> \o <<q>> = <<p, q>>
        BY <1>2, <1>3, TwoJoined
    <2> QED
        BY <2>1, <2>2
<1>5. UNCHANGED <<up, acc, work, turn, born, alive, jn, file, inbox, told>>
    BY DEF scan_task_dlq
<1>6. ledger' \in Ledgers /\ faults' \in 0 .. MaxFaults
    <2>1. CASE UNCHANGED <<ledger, faults>>
        BY <1>1, <2>1 DEF Types
    <2>2. CASE UNCHANGED ledger /\ \E state \in States : task_show(state, "none")
        BY <1>1, <2>2, FaultIs DEF task_show, Types
    <2>3. CASE \E r \in Rcs : task_event(<<"delivery", 0, 0>>, "cancelled", r)
        <3>1. <<"delivery", 0, 0>> \in Causes /\ "cancelled" \in Events
            BY CauseTypes DEF Events
        <3> QED
            BY <1>1, <2>3, <3>1, TaskEventType
    <2> QED
        BY <2>1, <2>2, <2>3 DEF scan_task_dlq
<1>7. waived' \subseteq {"idle", "lost"}
    BY <1>1 DEF scan_task_dlq, IfAssigned, Types
<1> HIDE DEF p, q
<1>8. Goes(N)
    <2>1. Follows(Head(todo), p) /\ Follows(Head(todo), q)
        BY <1>1, <1>2, <1>3, Followed DEF LastSteps, ReportSteps, Opening
    <2>2. Precedes(p, q)
        BY <1>2, <1>3 DEF Precedes, LastSteps, RowSteps, Closing
    <2> QED
        BY <1>1, <1>2, <1>3, <1>4, <2>1, <2>2, GoUpToTwo
<1>9. \A s \in N : StepOK(s)'
    BY <1>2, <1>3
<1>10. acc' \in Locals /\ inbox' \in Inboxes
    BY <1>1, <1>5 DEF Types, Inboxes
<1> HIDE DEF N
<1>11. Frame'
    BY <1>1, <1>5, <1>6, <1>7, <1>8, <1>9, <1>10, FrameLedger DEF Inboxes
<1> QED
    BY <1>8, <1>11 DEF N, p, q

LEMMA DlqDoneFrame ==
    ASSUME Frame, DlqProcessed
    PROVE  Frame' /\ Goes({})
<1>1. At("dlq_done") /\ Then(<<>>) /\ Types /\ jn \in Journals
    BY AtStep DEF DlqProcessed, Types
<1>2. /\ UNCHANGED <<up, acc, work, turn, born, outside, faults, waived>>
      /\ jn' = [jn EXCEPT !.dlq = TRUE]
    BY DEF DlqProcessed
<1>3. LET k == [jn EXCEPT !.dlq = TRUE] IN k \in Journals /\ Alike(k, jn, {"dlq"})
    BY <1>1, SetDlq
<1>4. jn' \in Journals /\ Calm
    BY <1>2, <1>3, CalmBut
<1>5. Types'
    BY <1>1, <1>2, <1>4 DEF Types, outside
<1> QED
    BY <1>1, <1>2, <1>4, <1>5, FrameNone

\* Steps for what is left of an orphan, and its resolution.
LEMMA OrphanPlan ==
    ASSUME Frame, At("adopt"), NEW S \in SUBSET Attempts, NEW op \in {"close", "quarantine"},
           Then(Each(op, S) \o <<Do("resolve", Arg)>>)
    PROVE  Goes({s \in Steps : s.op \in {"close", "quarantine", "resolve"} /\ s.a \in Attempts})
<1> DEFINE N == {s \in Steps : s.op \in {"close", "quarantine", "resolve"} /\ s.a \in Attempts}
           r == Do("resolve", Arg)
           E == Each(op, S)
<1>1. /\ todo # <<>> /\ PlanOK /\ Arg \in Attempts /\ Arg \in ReportIds /\ Head(todo).op = "adopt"
    BY AtStep DEF AttemptSteps
<1>2. r \in Steps /\ r.op = "resolve" /\ r.a = Arg
    BY <1>1, StepFields DEF Ops, AttemptSteps
<1>3. E \in Seq(Steps) /\ Ordered(E) /\ \A s \in In(E) : s.op = op /\ s.a \in S
    <2>1. /\ S \in SUBSET ReportIds /\ op \in Ops /\ op \notin LastSteps \cup RowSteps
          /\ op \in Opening
        BY Ids DEF Ops, AttemptSteps, LastSteps, RowSteps, Opening
    <2> QED
        BY <2>1, EachPlan, EachStep
<1> HIDE DEF r, E
<1>4. \A x \in In(E) : Precedes(x, r)
    BY <1>2, <1>3 DEF Precedes, LastSteps, RowSteps, Closing
<1>5. /\ E \o <<r>> \in Seq(Steps) /\ Ordered(E \o <<r>>)
      /\ In(E \o <<r>>) = In(E) \cup {r}
    BY <1>2, <1>3, <1>4, Appended
<1>6. In(E \o <<r>>) \subseteq N
    <2>1. In(E) \subseteq Steps
        BY <1>3, ElementOfSeq DEF In
    <2> QED
        BY <1>1, <1>2, <1>3, <1>5, <2>1
<1>7. \A x \in N : Follows(Head(todo), x)
    BY <1>1 DEF Follows, LastSteps, ReportSteps, Opening
<1>8. Goes(In(E \o <<r>>))
    <2>1. Then(E \o <<r>>)
        BY DEF E, r
    <2> QED
        BY <1>1, <1>5, <1>6, <1>7, <2>1, GoesOn
<1> QED
    BY <1>6, <1>8 DEF Goes, N

\* A file is taken to belong to turn l, or its lookup is put off.
LEMMA AdoptedType ==
    ASSUME jn \in Journals, NEW l \in Attempts, NEW a \in Attempts,
           jn' = [jn EXCEPT !.of[a] = l]
    PROVE  /\ jn' \in Journals /\ Alike(jn', jn, {"of"}) /\ jn'.of[a] = l
           /\ \A b \in Attempts : b # a => jn'.of[b] = jn.of[b]
<1> DEFINE v == [jn.of EXCEPT ![a] = l]
<1>1. l \in 0 .. MaxAttempts
    BY DEF Attempts
<1>2. /\ v \in [Attempts -> 0 .. MaxAttempts] /\ v[a] = l
      /\ \A b \in Attempts : b # a => v[b] = jn.of[b]
    BY <1>1, JournalTypes, Put
<1>3. jn' = [jn EXCEPT !.of = v]
    OBVIOUS
<1> HIDE DEF v
<1>4. LET k == [jn EXCEPT !.of = v] IN k \in Journals /\ k.of = v /\ Alike(k, jn, {"of"})
    BY <1>2, SetOf
<1> QED
    BY <1>2, <1>3, <1>4

\* What looking for the attempt of an orphaned turn leaves in the journal.
Adopting ==
    \/ jn'.of = jn.of
    \/ \E a \in Unclaimed :
         /\ jn'.of[a] = Arg /\ \A b \in Attempts : b # a => jn'.of[b] = jn.of[b]
         /\ Do("close", a) \in In(todo')

LEMMA AdoptFrame ==
    ASSUME Frame, adopt_orphan_attempt
    PROVE  /\ Frame' /\ Alike(jn', jn, {"of", "defer", "pending"}) /\ Adopting
           /\ Goes({s \in Steps : s.op \in {"close", "quarantine", "resolve"} /\ s.a \in Attempts})
<1> DEFINE l == Arg
           mine == {a \in Attempts : jn.of[a] = l}
           N == {s \in Steps : s.op \in {"close", "quarantine", "resolve"} /\ s.a \in Attempts}
           n == IF Word = "first" THEN 1 ELSE jn.defer[l] + 1
<1>1. /\ At("adopt") /\ Types /\ jn \in Journals /\ up /\ todo # <<>> /\ PlanOK
      /\ l \in Attempts /\ l \in ReportIds /\ Head(todo).op = "adopt" /\ l <= jn.last
    BY AtStep DEF adopt_orphan_attempt, AttemptSteps, StepOK, Types, Arg
<1>2. UNCHANGED <<up, acc, work, turn, born, outside, waived>> /\ faults' = faults
    BY DEF adopt_orphan_attempt
<1>3. Unclaimed \in SUBSET Attempts /\ mine \in SUBSET Attempts /\ \A k \in Attempts : Matches(k) \subseteq Unclaimed
    BY DEF Unclaimed, PendingFiles, Matches
<1>4. \A s \in N : StepOK(s)'
    BY DEF StepOK, AttemptSteps, RowSteps
<1>5. \A b \in Attempts : jn.of[b] <= jn.last /\ (jn.defer[b] > 0 => b <= jn.last)
    BY DEF Frame, Begun
<1> USE DEF l
<1>6. /\ jn' \in Journals /\ Alike(jn', jn, {"of", "defer", "pending"}) /\ Goes(N)
      /\ \A b \in Attempts : jn'.of[b] <= jn.last /\ (jn'.defer[b] > 0 => b <= jn.last)
      /\ Adopting
    <2>1. CASE mine # {} /\ Then(Each("close", mine) \o <<Do("resolve", l)>>) /\ jn' = jn
        <3> HIDE DEF mine
        <3>1. Goes(N)
            BY <1>1, <1>3, <2>1, OrphanPlan
        <3> QED
            BY <1>1, <1>5, <2>1, <3>1 DEF Alike, Adopting
    <2>2. CASE Then(Each("quarantine", Unclaimed) \o <<Do("resolve", l)>>) /\ jn' = jn
        <3>1. Goes(N)
            BY <1>1, <1>3, <2>2, OrphanPlan
        <3> QED
            BY <1>1, <1>5, <2>2, <3>1 DEF Alike, Adopting
    <2>3. CASE jn' = [jn EXCEPT !.defer[l] = n, !.pending[l] = Unclaimed] /\ Then(<<>>)
        <3>1. n \in Nat
            BY <1>1, JournalTypes
        <3> HIDE DEF n
        <3>2. /\ jn' \in Journals /\ Alike(jn', jn, {"defer", "pending"})
              /\ \A b \in Attempts : b # l => jn'.defer[b] = jn.defer[b]
            <4> DEFINE d == [jn.defer EXCEPT ![l] = n]
                       p == [jn.pending EXCEPT ![l] = Unclaimed]
            <4>1. /\ d \in [Attempts -> Nat] /\ p \in [Attempts -> SUBSET Attempts]
                  /\ \A b \in Attempts : b # l => d[b] = jn.defer[b]
                BY <1>1, <1>3, <3>1, JournalTypes
            <4>2. jn' = [jn EXCEPT !.defer = d, !.pending = p]
                BY <2>3
            <4> HIDE DEF d, p
            <4>3. jn' \in Journals /\ jn'.defer = d /\ Alike(jn', jn, {"defer", "pending"})
                <5>1. jn \in Journals
                    BY <1>1
                <5> QED
                    BY <5>1, <4>1, <4>2 DEF Journals, Alike, Fields
            <4> QED
                BY <4>1, <4>3
        <3>3. jn'.of = jn.of /\ Alike(jn', jn, {"of", "defer", "pending"})
            BY <3>2 DEF Alike, Fields
        <3>4. Goes(N)
            BY <1>1, <2>3, GoNone DEF Goes
        <3> QED
            BY <1>1, <1>5, <3>2, <3>3, <3>4 DEF Adopting
    <2>4. CASE \E a \in Matches(l) : /\ jn' = [jn EXCEPT !.of[a] = l]
                                     /\ Then(<<Do("close", a), Do("resolve", l)>>)
        <3>1. PICK a \in Matches(l) : /\ jn' = [jn EXCEPT !.of[a] = l]
                                      /\ Then(<<Do("close", a), Do("resolve", l)>>)
            BY <2>4
        <3>2. a \in Unclaimed /\ a \in Attempts /\ a \in ReportIds
            BY <1>1, <1>3, Ids
        <3>3. /\ jn' \in Journals /\ Alike(jn', jn, {"of"}) /\ jn'.of[a] = l
              /\ \A b \in Attempts : b # a => jn'.of[b] = jn.of[b]
            BY <1>1, <3>1, <3>2, AdoptedType
        <3>4. jn'.defer = jn.defer /\ Alike(jn', jn, {"of", "defer", "pending"})
            BY <3>3 DEF Alike, Fields
        <3> DEFINE p == Do("close", a)
                   q == Do("resolve", l)
        <3>5. /\ p \in Steps /\ p.op = "close" /\ p.a = a
              /\ q \in Steps /\ q.op = "resolve" /\ q.a = l
            <4>1. "close" \in Ops /\ "resolve" \in Ops
                BY DEF Ops, AttemptSteps
            <4>2. p \in Steps /\ p.op = "close" /\ p.a = a
                BY <3>2, <4>1, StepFields
            <4>3. q \in Steps /\ q.op = "resolve" /\ q.a = l
                BY <1>1, <4>1, StepFields
            <4> QED
                BY <4>2, <4>3
        <3> HIDE DEF p, q
        <3>6. p \in N /\ q \in N /\ Precedes(p, q) /\ Follows(Head(todo), p) /\ Follows(Head(todo), q)
            BY <1>1, <3>2, <3>5
               DEF Precedes, Follows, LastSteps, RowSteps, ReportSteps, Opening, Closing
        <3>7. Then(<<p, q>>)
            BY <3>1 DEF p, q
        <3>8. Goes(N) /\ p \in In(todo')
            <4>1. Goes({p, q})
                BY <1>1, <3>5, <3>6, <3>7, GoTwo
            <4>2. p \in In(todo')
                <5>1. <<p, q>> \in Seq(Steps) /\ Ordered(<<p, q>>) /\ In(<<p, q>>) = {p, q}
                    BY <3>5, <3>6, Pair
                <5>2. \A x \in In(<<p, q>>), y \in In(Tail(todo)) : Precedes(x, y)
                    BY <1>1, <3>6, <5>1, Rest DEF Follows, Precedes
                <5>3. In(todo') = In(<<p, q>>) \cup In(Tail(todo))
                    BY <1>1, <3>7, <5>1, <5>2, Rest, Joined DEF Then
                <5> QED
                    BY <5>1, <5>3
            <4> QED
                BY <3>6, <4>1, <4>2 DEF Goes
        <3>9. Adopting
            BY <3>2, <3>3, <3>8 DEF Adopting, p
        <3>10. \A b \in Attempts : jn'.of[b] <= jn.last
            BY <1>1, <1>5, <3>3
        <3> QED
            BY <1>5, <3>3, <3>4, <3>8, <3>9, <3>10
    <2> QED
        BY <2>1, <2>2, <2>3, <2>4 DEF adopt_orphan_attempt
<1>7. Types'
    BY <1>1, <1>2, <1>6 DEF Types, outside
<1>8. jn'.last = jn.last /\ jn'.open = jn.open /\ jn'.report = jn.report
    BY <1>6 DEF Alike, Fields
<1> HIDE DEF N
<1>9. Frame'
    BY <1>1, <1>2, <1>4, <1>6, <1>7, <1>8, FrameStep DEF Frame, Saying
<1> QED
    BY <1>6, <1>9 DEF N

\* A poll begins.
LEMMA PollFrame ==
    ASSUME Frame, Poll
    PROVE  /\ Frame' /\ todo = <<>>
           /\ In(todo') \subseteq {s \in Steps : s.op \in {"reports", "orphans", "scan", "dlq", "choose"}}
<1> DEFINE p1 == Do("reports", 0)
           p2 == Do("orphans", 0)
           p3 == Do("scan", 0)
           p4 == Do("dlq", 0)
           p5 == Do("choose", 0)
           N == {s \in Steps : s.op \in {"reports", "orphans", "scan", "dlq", "choose"}}
<1>1. /\ p1 \in Steps /\ p1.op = "reports" /\ p2 \in Steps /\ p2.op = "orphans"
      /\ p3 \in Steps /\ p3.op = "scan" /\ p4 \in Steps /\ p4.op = "dlq"
      /\ p5 \in Steps /\ p5.op = "choose"
    <2>1. \A op \in {"reports", "orphans", "scan", "dlq", "choose"} :
              Do(op, 0) \in Steps /\ Do(op, 0).op = op
        BY PlainSteps DEF LastSteps, OtherSteps
    <2> QED
        BY <2>1
<1>2. /\ up /\ todo = <<>> /\ turn = 0 /\ todo' = <<p1, p2, p3, p4, p5>>
      /\ UNCHANGED <<up, acc, work, turn, born, outside, jn, faults, waived>>
    BY DEF Poll
<1> HIDE DEF p1, p2, p3, p4, p5
<1>3. /\ todo' \in Seq(Steps) /\ Len(todo') = 5 /\ todo'[1] = p1 /\ todo'[2] = p2
      /\ todo'[3] = p3 /\ todo'[4] = p4 /\ todo'[5] = p5
    BY <1>1, <1>2
<1>4. \A i \in 1 .. 5 : /\ todo'[i].op \in {"reports", "orphans", "scan", "dlq", "choose"}
                        /\ todo'[i] \in N /\ (i < 5 => todo'[i].op \notin LastSteps)
    <2>1. \A i \in 1 .. 5 : i = 1 \/ i = 2 \/ i = 3 \/ i = 4 \/ i = 5
        OBVIOUS
    <2> QED
        BY <1>1, <1>3, <2>1 DEF LastSteps
<1>5. Ordered(todo')
    <2> SUFFICES ASSUME NEW i \in 1 .. 5, NEW j \in 1 .. 5, i < j
                 PROVE  Precedes(todo'[i], todo'[j])
        BY <1>3 DEF Ordered
    <2>1. i < 5
        OBVIOUS
    <2> QED
        BY <1>4, <2>1 DEF Precedes, RowSteps, Closing
<1>6. In(todo') \subseteq N
    BY <1>3, <1>4 DEF In
<1>7. PlanOK'
    <2>1. \A s \in N : StepOK(s)'
        BY DEF StepOK, AttemptSteps, RowSteps
    <2> HIDE DEF N
    <2> QED
        BY <1>3, <1>5, <1>6, <2>1 DEF PlanOK
<1>8. Types' /\ Begun' /\ Saying' /\ Turning'
    BY <1>2 DEF Frame, Types, Begun, Saying, Turning, outside
<1> QED
    BY <1>2, <1>6, <1>7, <1>8 DEF Frame

LEMMA CollectFrame ==
    ASSUME Frame, NEW result \in {"ok", "infra", "failure"}, collect_turn(result)
    PROVE  /\ Frame' /\ todo = <<>> /\ turn \in Attempts /\ acc' = NoAcc
           /\ jn' \in Journals /\ Alike(jn', jn, {"of"})
           /\ jn'.of[turn] = turn /\ \A b \in Attempts : b # turn => jn'.of[b] = jn.of[b]
           /\ In(todo') \subseteq {Step("apply", turn, "close"), Step("finish", turn, result)}
           /\ jn.task[turn] => Step("apply", turn, "close") \in In(todo')
<1> DEFINE p == Step("apply", turn, "close")
           q == Step("finish", turn, result)
<1>1. /\ up /\ todo = <<>> /\ turn # 0 /\ Types /\ jn \in Journals /\ jn.task[turn] = work.task
      /\ turn \in Attempts /\ turn \in ReportIds /\ turn <= jn.last
    <2>1. turn \in 0 .. MaxAttempts /\ turn # 0 /\ turn <= jn.last
        BY DEF collect_turn, Frame, Types, Begun
    <2> QED
        BY <2>1, Ids DEF collect_turn, Frame, Types, Turning, Attempts
<1>2. p \in Steps /\ p.op = "apply" /\ p.a = turn /\ p.w = "close"
    BY <1>1, StepFields DEF Ops, AttemptSteps, Marks
<1>3. q \in Steps /\ q.op = "finish" /\ q.a = turn
    BY <1>1, StepFields DEF Ops, AttemptSteps, Marks
<1>4. /\ todo' = (IF work.task THEN <<p>> ELSE <<>>) \o <<q>>
      /\ jn' = [jn EXCEPT !.of[turn] = turn] /\ acc' = NoAcc /\ turn' = 0
      /\ UNCHANGED <<up, work, born, outside, waived>>
      /\ faults' = faults \/ Fault(result)
    BY DEF collect_turn
<1>5. /\ jn' \in Journals /\ Alike(jn', jn, {"of"}) /\ jn'.of[turn] = turn
      /\ \A b \in Attempts : b # turn => jn'.of[b] = jn.of[b]
    BY <1>1, <1>4, AdoptedType
<1>6. \A x : x.a = turn /\ x.op \in {"apply", "finish"} => StepOK(x)'
    BY <1>1 DEF StepOK
<1> HIDE DEF p, q
<1>7. /\ todo' \in Seq(Steps) /\ Ordered(todo') /\ In(todo') \subseteq {p, q}
      /\ work.task => p \in In(todo')
    <2>1. CASE work.task
        <3>1. todo' = <<p, q>>
            BY <1>2, <1>3, <1>4, <2>1, TwoJoined
        <3>2. Precedes(p, q)
            BY <1>2, <1>3 DEF Precedes, LastSteps, RowSteps, Closing
        <3> QED
            BY <1>2, <1>3, <3>1, <3>2, Pair
    <2>2. CASE ~work.task
        <3>1. todo' = <<q>>
            BY <1>2, <1>3, <1>4, <2>2, TwoJoined
        <3> QED
            BY <1>3, <2>2, <3>1, ShortPlans
    <2> QED
        BY <2>1, <2>2
<1>8. PlanOK'
    <2>1. \A s \in In(todo') : StepOK(s)'
        BY <1>2, <1>3, <1>6, <1>7
    <2> QED
        BY <1>7, <2>1 DEF PlanOK
<1>9. faults' \in 0 .. MaxFaults
    BY <1>1, <1>4, FaultIs DEF Types
<1>10. Types'
    <2>1. turn' \in 0 .. MaxAttempts
        BY <1>4, Ids
    <2> QED
        BY <1>1, <1>4, <1>5, <1>9, <2>1, LocalsTypes DEF Types, outside
<1>11. jn'.open = jn.open /\ jn'.last = jn.last /\ jn'.defer = jn.defer /\ jn'.report = jn.report
    BY <1>5 DEF Alike, Fields
<1>12. Begun'
    <2>1. turn' <= jn'.last
        BY <1>1, <1>4, <1>11, JournalTypes
    <2>2. \A b \in Attempts : jn.of[b] <= jn.last /\ (jn.defer[b] > 0 => b <= jn.last)
        BY DEF Frame, Begun
    <2>3. jn.open <= jn.last
        BY DEF Frame, Begun
    <2> QED
        BY <1>1, <1>5, <1>11, <2>1, <2>2, <2>3 DEF Begun
<1>13. Saying' /\ Turning'
    BY <1>4, <1>11 DEF Frame, Saying, Turning
<1> QED
    BY <1>1, <1>4, <1>5, <1>7, <1>8, <1>10, <1>12, <1>13 DEF Frame, p, q

LEMMA RestartFrame ==
    ASSUME Frame, Restart
    PROVE  /\ Frame' /\ ~up /\ jn' = jn
           /\ \E c \in In(todo') : c.op = "close_all"
           /\ In(todo') \subseteq {s \in Steps : s.op \in
                {"await", "adopt", "gone", "close_all", "reports", "orphans", "scan", "sweep", "dlq"}}
<1> DEFINE o1 == Do("await", 0)
           o2 == Step("adopt", jn.open, "first")
           o3 == Do("gone", 0)
           A == IF jn.open = 0 THEN <<>> ELSE <<o1, o2, o3>>
           p1 == Do("close_all", 0)
           p2 == Do("reports", 0)
           p3 == Do("orphans", 0)
           p4 == Do("scan", 0)
           p5 == Do("sweep", 0)
           p6 == Do("dlq", 0)
           B == <<p1, p2, p3, p4, p5, p6>>
           N == {s \in Steps : s.op \in
                   {"await", "adopt", "gone", "close_all", "reports", "orphans", "scan", "sweep", "dlq"}}
<1>1. /\ ~up /\ up' = TRUE /\ born' = jn.last /\ todo' = A \o B
      /\ waived' = waived \ {"idle"}
      /\ UNCHANGED <<acc, work, turn, outside, jn, faults>>
    BY DEF Restart
<1>2. Types /\ jn \in Journals /\ turn = 0 /\ jn.open <= jn.last /\ jn.open \in 0 .. MaxAttempts
    <2>1. Types /\ jn \in Journals /\ jn.open <= jn.last /\ turn = 0
        BY <1>1 DEF Frame, Types, Turning, Begun
    <2> QED
        BY <2>1, JournalTypes
<1>3. /\ p1 \in Steps /\ p1.op = "close_all" /\ p2 \in Steps /\ p2.op = "reports"
      /\ p3 \in Steps /\ p3.op = "orphans" /\ p4 \in Steps /\ p4.op = "scan"
      /\ p5 \in Steps /\ p5.op = "sweep" /\ p6 \in Steps /\ p6.op = "dlq"
      /\ o1 \in Steps /\ o1.op = "await" /\ o3 \in Steps /\ o3.op = "gone"
    <2>1. \A op \in {"close_all", "reports", "orphans", "scan", "sweep", "dlq", "await", "gone"} :
              Do(op, 0) \in Steps /\ Do(op, 0).op = op
        BY PlainSteps DEF OtherSteps
    <2> QED
        BY <2>1
<1>4. o2 \in Steps /\ o2.op = "adopt" /\ o2.a = jn.open
    <2>1. jn.open \in ReportIds /\ "adopt" \in Ops /\ "first" \in Marks
        BY <1>2, Ids DEF Ops, AttemptSteps, Marks, ReportIds, Delivery
    <2> QED
        BY <2>1, StepFields
<1>5. jn.open # 0 => \A s : s = o2 => StepOK(s)'
    <2>1. jn.open # 0 => jn.open \in Attempts
        BY <1>2 DEF Attempts
    <2>2. jn' = jn
        BY <1>1
    <2>3. \A s : jn.open # 0 /\ s.op = "adopt" /\ s.a = jn.open => StepOK(s)'
        BY <1>2, <2>1, <2>2 DEF StepOK
    <2> HIDE DEF o2
    <2> QED
        BY <1>4, <2>3
<1> HIDE DEF o1, o2, o3, p1, p2, p3, p4, p5, p6
<1>6. /\ B \in Seq(Steps) /\ Ordered(B) /\ p1 \in In(B)
      /\ \A s \in In(B) : s.op \in {"close_all", "reports", "orphans", "scan", "sweep", "dlq"}
    <2>1. /\ B \in Seq(Steps) /\ Len(B) = 6 /\ B[1] = p1 /\ B[2] = p2 /\ B[3] = p3
          /\ B[4] = p4 /\ B[5] = p5 /\ B[6] = p6
        BY <1>3
    <2> HIDE DEF B
    <2>2. \A i \in 1 .. 6 :
            /\ B[i].op \in {"close_all", "reports", "orphans", "scan", "sweep", "dlq"}
            /\ i > 1 => B[i].op # "close_all"
        <3>1. \A i \in 1 .. 6 : i = 1 \/ i = 2 \/ i = 3 \/ i = 4 \/ i = 5 \/ i = 6
            OBVIOUS
        <3> QED
            BY <1>3, <2>1, <3>1
    <2>3. Ordered(B)
        <3> SUFFICES ASSUME NEW i \in 1 .. 6, NEW j \in 1 .. 6, i < j
                     PROVE  Precedes(B[i], B[j])
            BY <2>1 DEF Ordered
        <3>1. j > 1
            OBVIOUS
        <3> QED
            BY <2>2, <3>1 DEF Precedes, LastSteps, RowSteps, Closing
    <2> QED
        BY <2>1, <2>2, <2>3 DEF In
<1>7. /\ A \in Seq(Steps) /\ Ordered(A)
      /\ \A s \in In(A) : s.op \in {"await", "adopt", "gone"} /\ StepOK(s)'
    <2>1. CASE jn.open = 0
        BY <2>1, ShortPlans
    <2>2. CASE jn.open # 0
        <3>1. /\ A \in Seq(Steps) /\ Len(A) = 3 /\ A[1] = o1 /\ A[2] = o2 /\ A[3] = o3
            BY <1>3, <1>4, <2>2
        <3> HIDE DEF A
        <3>2. \A i \in 1 .. 3 : A[i] = o1 \/ A[i] = o2 \/ A[i] = o3
            <4>1. \A i \in 1 .. 3 : i = 1 \/ i = 2 \/ i = 3
                OBVIOUS
            <4> QED
                BY <3>1, <4>1
        <3>3. Ordered(A)
            <4>1. \A i \in 1 .. 3 : A[i].op \in {"await", "adopt", "gone"}
                BY <1>3, <1>4, <3>2
            <4> QED
                BY <3>1, <4>1 DEF Ordered, Precedes, LastSteps, RowSteps, Closing
        <3>4. \A s : s.op \in {"await", "gone"} => StepOK(s)'
            BY DEF StepOK, AttemptSteps, RowSteps
        <3> QED
            BY <1>3, <1>4, <1>5, <2>2, <3>1, <3>2, <3>3, <3>4 DEF In
    <2> QED
        BY <2>1, <2>2
<1> HIDE DEF A, B
<1>8. todo' \in Seq(Steps) /\ Ordered(todo') /\ In(todo') = In(A) \cup In(B)
    <2>1. \A p \in In(A), q \in In(B) : Precedes(p, q)
        BY <1>6, <1>7 DEF Precedes, LastSteps, RowSteps, Opening
    <2> QED
        BY <1>1, <1>6, <1>7, <2>1, Joined
<1>9. PlanOK' /\ In(todo') \subseteq N
    <2>1. \A s : s.op \in {"close_all", "reports", "orphans", "scan", "sweep", "dlq"} => StepOK(s)'
        BY DEF StepOK, AttemptSteps, RowSteps
    <2>2. \A s \in In(todo') : StepOK(s)'
        BY <1>6, <1>7, <1>8, <2>1
    <2>3. In(todo') \subseteq Steps
        BY <1>8, ElementOfSeq DEF In
    <2> QED
        BY <1>6, <1>7, <1>8, <2>2, <2>3 DEF PlanOK
<1>10. Types'
    <2>1. born' \in 0 .. MaxAttempts /\ up' \in BOOLEAN /\ waived' \subseteq {"idle", "lost"}
        BY <1>1, <1>2, JournalTypes DEF Types
    <2> QED
        BY <1>1, <1>2, <2>1 DEF Types, outside
<1>11. Begun' /\ Saying' /\ Turning'
    BY <1>1, <1>2 DEF Frame, Begun, Saying, Turning
<1> QED
    BY <1>1, <1>3, <1>6, <1>8, <1>9, <1>10, <1>11 DEF Frame

LEMMA CrashFrame ==
    ASSUME Frame, Crash
    PROVE  Frame' /\ todo' = <<>> /\ ~up' /\ UNCHANGED <<outside, jn>>
<1>1. /\ up' = FALSE /\ todo' = <<>> /\ acc' = NoAcc /\ work' = NoWork /\ turn' = 0
      /\ UNCHANGED <<born, outside, jn>>
    BY DEF Crash
<1>2. Types
    BY DEF Frame
<1>3. faults' \in 0 .. MaxFaults /\ waived' \subseteq {"idle", "lost"}
    <2>1. faults' \in 0 .. MaxFaults
        BY <1>2, FaultIs DEF Crash, Types
    <2> QED
        BY <1>2, <2>1 DEF Crash, Types
<1>4. Types'
    <2>1. up' \in BOOLEAN /\ turn' \in 0 .. MaxAttempts /\ acc' \in Locals /\ work' \in Works
        <3>1. 0 \in 0 .. MaxAttempts
            BY Ids
        <3> QED
            BY <1>1, <3>1, LocalsTypes, WorkTypes
    <2> QED
        BY <1>1, <1>2, <1>3, <2>1 DEF Types, outside
<1>5. PlanOK'
    BY <1>1, ShortPlans DEF PlanOK
<1>6. Begun' /\ Saying' /\ Turning'
    <2>1. jn.last \in 0 .. MaxAttempts
        BY <1>2, JournalTypes DEF Types
    <2> QED
        BY <1>1, <2>1 DEF Frame, Begun, Saying, Turning
<1> QED
    BY <1>1, <1>4, <1>5, <1>6 DEF Frame

\* What happens outside the supervisor.
Elsewhere == Workers \/ OwnerCancels \/ DeliveryFails

LEMMA OutsideFrame ==
    ASSUME Frame, Elsewhere
    PROVE  Frame' /\ UNCHANGED <<up, todo, acc, work, turn, born, jn, told>>
<1>1. UNCHANGED <<up, todo, acc, work, turn, born, jn, told, waived>>
    BY DEF Elsewhere, Workers, append_intent, WorkerExits, OwnerCancels, DeliveryFails
<1>2. Types
    BY DEF Frame
<1>3. faults' \in 0 .. MaxFaults
    <2>1. \/ faults' = faults \/ Fault("late") \/ Fault("cancel") \/ Fault("delivery")
        BY DEF Elsewhere, Workers, append_intent, WorkerExits, OwnerCancels, DeliveryFails
    <2> QED
        BY <1>2, <2>1, FaultIs DEF Types
<1>4. alive' \subseteq Attempts
    BY <1>2 DEF Elsewhere, Workers, append_intent, WorkerExits, OwnerCancels, DeliveryFails, Types
<1>5. file' \in [Attempts -> Contents]
    <2>1. \/ file' = file
          \/ \E a \in Attempts, f \in Files : file' = [file EXCEPT ![a] = f]
        BY DEF Elsewhere, Workers, append_intent, WorkerExits, OwnerCancels, DeliveryFails
    <2>2. file \in [Attempts -> Contents] /\ \A f \in Files : f \in Contents
        BY <1>2 DEF Types, Contents
    <2> QED
        BY <2>1, <2>2
<1>6. inbox' \in Inboxes
    BY <1>2 DEF Elsewhere, Workers, append_intent, WorkerExits, OwnerCancels, DeliveryFails, Types, Inboxes
<1>7. ledger' \in Ledgers
    BY <1>2 DEF Elsewhere, Workers, append_intent, WorkerExits, OwnerCancels, DeliveryFails, Types,
                Ledgers, TaskStates, States
<1>8. Types'
    BY <1>1, <1>2, <1>3, <1>4, <1>5, <1>6, <1>7 DEF Types, Inboxes
<1>9. PlanOK' /\ Begun' /\ Saying' /\ Turning'
    BY <1>1 DEF Frame, PlanOK, StepOK, Begun, Saying, Turning
<1> QED
    BY <1>1, <1>8, <1>9 DEF Frame

LEMMA InitFrame ==
    ASSUME Init
    PROVE  Frame
<1>1. 0 \in 0 .. MaxAttempts /\ 0 \in 0 .. MaxFaults /\ 0 \in 0 .. Budget
    BY IntentAssumption
<1>2. NoReport \in Reporting /\ EmptyJournal.report = [r \in ReportIds |-> NoReport]
    BY DEF NoReport, Reporting, EmptyJournal
<1>3. EmptyJournal \in Journals
    <2>1. /\ [a \in Attempts |-> <<>>] \in [Attempts -> Seq(Outcomes)]
          /\ [r \in ReportIds |-> NoReport] \in [ReportIds -> Reporting]
          /\ Startup \in ReportIds
        BY <1>2, Ids
    <2> QED
        BY <1>1, <2>1 DEF EmptyJournal, Journals
<1>4. ledger \in Ledgers
    BY <1>1 DEF Init, Ledgers, TaskStates, States
<1>5. Types
    <2>1. file \in [Attempts -> Contents] /\ told \in [ReportIds -> Seq(Words)]
        BY DEF Init, Contents
    <2> QED
        BY <1>1, <1>3, <1>4, <2>1, LocalsTypes, WorkTypes DEF Init, Types
<1>6. PlanOK
    BY ShortPlans DEF Init, PlanOK
<1>7. Begun /\ Saying /\ Turning
    BY DEF Init, EmptyJournal, Begun, Saying, Turning, NoReport
<1> QED
    BY <1>5, <1>6, <1>7 DEF Frame

LEMMA FrameNext ==
    ASSUME Frame, [Next]_vars
    PROVE  Frame'
<1>1. CASE UNCHANGED vars
    <2>1. UNCHANGED <<up, todo, acc, work, turn, born, alive, jn, ledger, file, inbox, told, faults, waived>>
        BY <1>1 DEF vars
    <2> QED
        BY <2>1 DEF Frame, Types, PlanOK, StepOK, Begun, Saying, Turning
<1>2. CASE Handler
    BY <1>2, DeliverFrame, SendFrame, DeliveredFrame, UnsentFrame, RetryReportsFrame, ResendFrame,
       QuarantineFrame, TaintFrame, RetryFrame, ApplyFrame, RecordedFrame, RefusedFrame,
       ReportRowFrame, BudgetFrame, RecordFrame, RowsDoneFrame, SelfFrame, AppliedFrame,
       UnlinkFrame, ContextFrame, MissingFrame, NoReportFrame, FailFrame, WorkDoneFrame,
       WorkFailedFrame, ChooseFrame, PrepareFrame, ActivateFrame, PickupFrame, EngineFrame,
       StartFrame, FinishFrame, AwaitFrame, GoneFrame, AdoptFrame, ResolveFrame, CloseFrame,
       OrphansFrame, ScanFrame, FileFrame, CheckFrame, DlqFrame, DlqDoneFrame
       DEF Handler
<1>3. CASE Loop
    BY <1>3, PollFrame, CollectFrame DEF Loop
<1>4. CASE Restart \/ Crash \/ Elsewhere
    BY <1>4, RestartFrame, CrashFrame, OutsideFrame
<1> QED
    BY <1>1, <1>2, <1>3, <1>4 DEF Next, Elsewhere

-----------------------------------------------------------------------------
\* Every variable keeps to the values the code gives it, whatever the files, the
\* faults and the interleaving of the handler's steps with crashes and workers
\* (the journal's records, intent.ledger, the ledger's answers).
THEOREM IntentTypes == Spec => []TypeOK
<1>1. Init => Frame
    BY InitFrame
<1>2. Frame /\ [Next]_vars => Frame'
    BY FrameNext
<1>3. Frame => TypeOK
    <2> SUFFICES ASSUME Frame PROVE TypeOK
        OBVIOUS
    <2>1. Types /\ jn \in Journals /\ ledger \in Ledgers
        BY DEF Frame, Types
    <2>2. Contents \subseteq Seq(Rows)
        <3>1. \A f \in Files : f \in Seq(Rows)
            BY IntentAssumption
        <3>2. <<>> \in Seq(Rows)
            OBVIOUS
        <3> QED
            BY <3>1, <3>2 DEF Contents
    <2>3. file \in [Attempts -> Seq(Rows)]
        BY <2>1, <2>2 DEF Types
    <2>4. \A a \in Attempts :
            /\ jn.closed[a] \in {None} \cup Seq(Rows) /\ jn.rec[a] \in Seq(Outcomes)
            /\ jn.retries[a] \in Nat /\ jn.of[a] \in 0 .. MaxAttempts
        BY <2>1, <2>2, JournalTypes
    <2>5. jn.last \in 0 .. MaxAttempts /\ jn.open \in 0 .. MaxAttempts
        BY <2>1, JournalTypes
    <2>6. /\ ledger.state \in {"ASSIGNED", "IN_PROGRESS", "DONE", "FAILED", "BLOCKED", "CANCELLED"}
          /\ ledger.turns \in 0 .. Budget
          /\ ledger.no \subseteq Causes /\ \A y \in ledger.yes : y.cause \in Causes
        BY <2>1 DEF Ledgers, TaskStates, States
    <2>7. told \in [ReportIds -> Seq(Final \cup {"cancelled"})]
        BY <2>1 DEF Types, Words
    <2> QED
        BY <2>1, <2>3, <2>4, <2>5, <2>6, <2>7 DEF TypeOK, Types
<1> QED
    BY <1>1, <1>2, <1>3, PTL DEF Spec

-----------------------------------------------------------------------------
(***************************************************************************)
(* The rows applied are those closed, and the record says what became of   *)
(* them (Applying).                                                        *)
(***************************************************************************)
\* What is left to do, exactly.
LEMMA InThen ==
    ASSUME PlanOK, todo # <<>>
    PROVE  /\ Then(<<>>) => In(todo') = In(Tail(todo))
           /\ \A x : Then(<<x>>) => In(todo') = {x} \cup In(Tail(todo))
           /\ \A x, y : Then(<<x, y>>) => In(todo') = {x, y} \cup In(Tail(todo))
<1> DEFINE t == Tail(todo)
<1>1. t \in Seq(Steps)
    BY Rest
<1> HIDE DEF t
<1>2. ASSUME NEW T, NEW s \in Seq(T), Steps \subseteq T, todo' = s \o t
      PROVE  In(todo') = In(s) \cup In(t)
    <2>1. t \in Seq(T)
        <3>1. \A i \in 1 .. Len(t) : t[i] \in T
            BY <1>1, <1>2, ElementOfSeq
        <3> QED
            BY <1>1, <3>1
    <2> DEFINE u == s \o t
    <2>2. /\ Len(u) = Len(s) + Len(t) /\ Len(s) \in Nat /\ Len(t) \in Nat
          /\ \A i \in 1 .. Len(u) : u[i] = IF i <= Len(s) THEN s[i] ELSE t[i - Len(s)]
        BY <2>1, ConcatProperties, LenProperties
    <2> HIDE DEF u
    <2>3. \A i \in 1 .. Len(s) : i \in 1 .. Len(u) /\ u[i] = s[i]
        BY <2>2
    <2>4. \A i \in 1 .. Len(t) : i + Len(s) \in 1 .. Len(u) /\ u[i + Len(s)] = t[i]
        BY <2>2
    <2>5. \A i \in 1 .. Len(u) : (i \in 1 .. Len(s) /\ u[i] = s[i])
                                   \/ (i - Len(s) \in 1 .. Len(t) /\ u[i] = t[i - Len(s)])
        BY <2>2
    <2>6. In(u) = In(s) \cup In(t)
        <3>1. ASSUME NEW i \in 1 .. Len(u) PROVE u[i] \in In(s) \cup In(t)
            BY <2>5 DEF In
        <3>2. ASSUME NEW i \in 1 .. Len(s) PROVE s[i] \in In(u)
            BY <2>3 DEF In
        <3>3. ASSUME NEW i \in 1 .. Len(t) PROVE t[i] \in In(u)
            BY <2>4 DEF In
        <3> QED
            BY <3>1, <3>2, <3>3 DEF In
    <2> QED
        BY <1>2, <2>6 DEF u
<1>3. Then(<<>>) => In(todo') = In(t)
    <2>1. In(<<>>) = {} /\ <<>> \in Seq(Steps)
        BY ShortPlans
    <2> QED
        BY <1>2, <2>1 DEF Then, t
<1>4. ASSUME NEW x, Then(<<x>>) PROVE In(todo') = {x} \cup In(t)
    <2>1. <<x>> \in Seq(Steps \cup {x}) /\ Len(<<x>>) = 1 /\ <<x>>[1] = x
        OBVIOUS
    <2>2. In(<<x>>) = {x}
        BY <2>1 DEF In
    <2> DEFINE z == <<x>>
               T == Steps \cup {x}
    <2>3. z \in Seq(T) /\ In(z) = {x} /\ todo' = z \o t /\ Steps \subseteq T
        BY <1>4, <2>1, <2>2 DEF Then, t
    <2> HIDE DEF z, T
    <2> QED
        BY <1>2, <2>3
<1>5. ASSUME NEW x, NEW y, Then(<<x, y>>) PROVE In(todo') = {x, y} \cup In(t)
    <2>1. /\ <<x, y>> \in Seq(Steps \cup {x, y}) /\ Len(<<x, y>>) = 2
          /\ <<x, y>>[1] = x /\ <<x, y>>[2] = y
        OBVIOUS
    <2>2. In(<<x, y>>) = {x, y}
        <3> DEFINE z == <<x, y>>
        <3> HIDE DEF z
        <3>1. Len(z) = 2 /\ z[1] = x /\ z[2] = y
            BY <2>1 DEF z
        <3>2. In(z) = {x, y}
            BY <3>1 DEF In
        <3> QED
            BY <3>2 DEF z
    <2> DEFINE z == <<x, y>>
               T == Steps \cup {x, y}
    <2>3. z \in Seq(T) /\ In(z) = {x, y} /\ todo' = z \o t /\ Steps \subseteq T
        BY <1>5, <2>1, <2>2 DEF Then, t
    <2> HIDE DEF z, T
    <2> QED
        BY <1>2, <2>3
<1> QED
    BY <1>3, <1>4, <1>5 DEF t

\* While rows are applied no other rows wait.
LEMMA NoMoreRows ==
    ASSUME PlanOK, todo # <<>>, Head(todo).op \notin ReportSteps
    PROVE  \A s \in In(Tail(todo)) : s.op \notin RowSteps
BY Rest DEF Precedes

\* What was closed stays closed, what was answered stays answered.
Grows ==
    /\ ledger.yes \subseteq ledger'.yes /\ ledger.no \subseteq ledger'.no
    /\ \A a \in Attempts : jn.closed[a] # None => jn'.closed[a] = jn.closed[a]

LEMMA AnsweredStays ==
    ASSUME Grows, NEW a \in Attempts, NEW i, NEW o, jn.closed[a] # None, Answered(a, i, o)
    PROVE  Answered(a, i, o)'
BY DEF Grows, Answered, Took, TurnedDown

LEMMA OwingKept ==
    ASSUME Frame, Owing, up, todo # <<>>, NEW N, Goes(N), ~Closing(Head(todo)),
           jn'.of = jn.of, jn'.task = jn.task, Grows
    PROVE  Owing'
<1>1. PlanOK
    BY DEF Frame
<1>2. \A a \in Attempts : jn'.closed[a] = None => jn.closed[a] = None
    BY DEF Grows
<1>3. Claimed' = Claimed /\ Claimed \subseteq Attempts
    BY DEF Claimed
<1> SUFFICES ASSUME NEW a \in Claimed, jn.task[jn.of[a]], jn'.closed[a] = None
             PROVE  \E s \in In(todo') : Closes(s, a)
    BY <1>3 DEF Owing
<1>4. PICK s \in In(todo) : Closes(s, a)
    BY <1>2, <1>3 DEF Owing
<1>5. s # Head(todo)
    BY <1>4 DEF Closes
<1>6. s \in In(todo')
    BY <1>1, <1>5, Rest DEF Goes
<1> QED
    BY <1>4, <1>6

LEMMA ScannedKept ==
    ASSUME Frame, Scanned, todo # <<>>, NEW N, Goes(N), Grows,
           \A s \in N : s.op = "apply" /\ s.w # "close" => s.a \in Attempts /\ jn.closed[s.a] # None
    PROVE  Scanned'
<1> SUFFICES ASSUME NEW s \in In(todo'), s.op = "apply", s.w # "close"
             PROVE  jn'.closed[s.a] # None
    BY DEF Scanned
<1>1. PlanOK
    BY DEF Frame
<1>2. s \in N \/ s \in In(todo)
    BY <1>1, Rest DEF Goes
<1>3. s.a \in Attempts /\ jn.closed[s.a] # None
    <2>1. s \in In(todo) => StepOK(s)
        BY <1>1 DEF PlanOK
    <2> QED
        BY <1>2, <2>1 DEF Scanned, StepOK, AttemptSteps
<1> QED
    BY <1>3 DEF Grows

LEMMA RowingKept ==
    ASSUME Frame, Rowing, todo # <<>>, NEW N, Goes(N), Grows, acc' = acc, jn'.rec = jn.rec,
           \A s \in N : s.op \notin RowSteps
    PROVE  Rowing'
<1> SUFFICES ASSUME NEW s \in In(todo'), s.op \in RowSteps PROVE RowAt(s)'
    BY DEF Rowing
<1>1. PlanOK
    BY DEF Frame
<1>2. s \in In(todo)
    BY <1>1, Rest DEF Goes
<1>3. RowAt(s) /\ s.a \in Attempts
    BY <1>1, <1>2 DEF Rowing, PlanOK, StepOK, AttemptSteps
<1>4. jn'.closed[s.a] = jn.closed[s.a] /\ jn.closed[s.a] # None
    BY <1>3 DEF RowAt, Grows
<1>5. \A i, o : Answered(s.a, i, o) => Answered(s.a, i, o)'
    BY <1>3, <1>4 DEF Grows, Answered, Took, TurnedDown
<1>6. s.op = "record" => Answered(s.a, acc.i, s.w)'
    BY <1>3, <1>5 DEF RowAt, Answered, Took, TurnedDown
<1> QED
    BY <1>3, <1>4, <1>6 DEF RowAt

LEMMA RecordedKept ==
    ASSUME Frame, Recorded, todo # <<>>, NEW N, Goes(N), Grows, jn'.rec = jn.rec,
           jn'.applied = jn.applied,
           \A s \in N : s.op = "applied" => s.a \in Attempts /\ Complete(s.a)
    PROVE  Recorded'
<1>1. PlanOK
    BY DEF Frame
<1>2. ASSUME NEW a \in Attempts, jn.closed[a] # None PROVE jn'.closed[a] = jn.closed[a]
    BY <1>2 DEF Grows
<1>3. \A a \in Attempts : Complete(a) => Complete(a)'
    BY <1>2 DEF Complete
<1>4. ASSUME NEW a \in Attempts
      PROVE  /\ jn'.rec[a] # <<>> => jn'.closed[a] # None /\ Len(jn'.rec[a]) <= Len(jn'.closed[a])
             /\ \A i \in 1 .. Len(jn'.rec[a]) : Answered(a, i, jn.rec[a][i])'
             /\ a \in jn'.applied => Complete(a)'
    <2>1. jn.rec[a] # <<>> => jn.closed[a] # None /\ Len(jn.rec[a]) <= Len(jn.closed[a])
        BY DEF Recorded
    <2>2. ASSUME NEW i \in 1 .. Len(jn.rec[a]) PROVE Answered(a, i, jn.rec[a][i])'
        <3>1. jn.rec[a] # <<>>
            BY <2>2
        <3>2. Answered(a, i, jn.rec[a][i]) /\ jn.closed[a] # None
            BY <2>1, <3>1 DEF Recorded
        <3> QED
            BY <3>2 DEF Grows, Answered, Took, TurnedDown
    <2>3. a \in jn'.applied => Complete(a)'
        BY <1>3 DEF Recorded
    <2> QED
        BY <1>2, <2>1, <2>2, <2>3
<1>5. ASSUME NEW s \in In(todo'), s.op = "applied" PROVE Complete(s.a)'
    <2>1. s \in N \/ s \in In(todo)
        BY <1>1, Rest DEF Goes
    <2>2. s.a \in Attempts /\ Complete(s.a)
        <3>1. s \in In(todo) => StepOK(s)
            BY <1>1 DEF PlanOK
        <3> QED
            BY <1>5, <2>1, <3>1 DEF Recorded, StepOK, AttemptSteps
    <2> QED
        BY <1>3, <2>2
<1> QED
    BY <1>4, <1>5 DEF Recorded

LEMMA CauseFitsKept ==
    ASSUME Grows, NEW y, CauseFits(y)
    PROVE  CauseFits(y)'
<1>1. y.cause[1] = "row" => jn'.closed[y.cause[2]] = jn.closed[y.cause[2]]
    BY DEF CauseFits, Grows
<1> QED
    BY <1>1 DEF CauseFits

LEMMA AnsweringKept ==
    ASSUME Answering, Grows, ledger'.yes = ledger.yes, ledger'.no = ledger.no
    PROVE  Answering'
<1>1. \A y \in ledger.yes : CauseFits(y)'
    BY CauseFitsKept DEF Answering
<1> QED
    BY <1>1 DEF Answering

\* How one call changes the ledger's record.
Moves(c, ev) ==
    \/ ledger'.yes = ledger.yes /\ ledger'.no = ledger.no /\ ledger'.state = ledger.state
    \/ /\ ~Accepted(c) /\ c \notin ledger.no /\ Allowed(ev)
       /\ ledger'.yes = ledger.yes \cup {[cause |-> c, ev |-> ev]} /\ ledger'.no = ledger.no
       /\ ledger'.state = Becomes(ev)
    \/ /\ ~Accepted(c)
       /\ ledger'.yes = ledger.yes /\ ledger'.no = ledger.no \cup {c} /\ ledger'.state = ledger.state

LEMMA LedgerMoves ==
    ASSUME Types, NEW c \in Causes, NEW ev \in Events, NEW r, task_event(c, ev, r)
    PROVE  /\ Moves(c, ev)
           /\ r = "ok" => \E y \in ledger'.yes : y.cause = c
           /\ r = "refused" => c \in ledger'.no /\ ledger'.yes = ledger.yes
           /\ r = "ok" => Accepted(c) \/ ledger'.yes = ledger.yes \cup {[cause |-> c, ev |-> ev]}
<1> ledger \in Ledgers
    BY DEF Types
<1> DEFINE e == [cause |-> c, ev |-> ev]
<1>1. Accepted(c) <=> \E y \in ledger.yes : y.cause = c
    BY DEF Accepted
<1>2. CASE ledger' = ledger /\ ~(r = "ok" /\ ~Accepted(c)) /\ ~(r = "refused" /\ c \notin ledger.no)
    BY <1>1, <1>2, TaskEvent DEF Moves
<1>3. CASE ~Accepted(c) /\ c \notin ledger.no /\ Allowed(ev) /\ ledger' = After(c, ev) /\ r \in {"ok", "killed"}
    <2>1. /\ ledger'.state = Becomes(ev) /\ ledger'.no = ledger.no
          /\ ledger'.yes = ledger.yes \cup {e}
        BY <1>3, Taken
    <2>2. e \in ledger'.yes /\ e.cause = c
        BY <2>1
    <2> HIDE DEF e
    <2> QED
        BY <1>3, <2>1, <2>2 DEF Moves, e
<1>4. CASE /\ ~Accepted(c) /\ ~Allowed(ev)
           /\ ledger' = [ledger EXCEPT !.no = @ \cup {c}] /\ r \in {"refused", "killed"}
    <2>1. /\ ledger'.state = ledger.state /\ ledger'.yes = ledger.yes
          /\ ledger'.no = ledger.no \cup {c}
        BY <1>4, Denied
    <2> QED
        BY <1>4, <2>1 DEF Moves
<1>5. ~Accepted(c) /\ r = "ok" => ledger' = After(c, ev) /\ c \notin ledger.no /\ Allowed(ev)
    BY TaskEvent
<1>6. r = "refused" /\ c \notin ledger.no => ~Accepted(c) /\ ~Allowed(ev) /\ ledger' = After(c, ev)
    BY TaskEvent
<1>7. r = "refused" /\ c \notin ledger.no => ledger' = [ledger EXCEPT !.no = @ \cup {c}]
    BY <1>6 DEF After
<1> QED
    BY <1>2, <1>3, <1>4, <1>5, <1>6, <1>7, TaskEvent

LEMMA MovesGrow ==
    ASSUME NEW c, NEW ev, Moves(c, ev),
           \A a \in Attempts : jn.closed[a] # None => jn'.closed[a] = jn.closed[a]
    PROVE  Grows
BY DEF Moves, Grows

\* A new event fits its cause.
LEMMA AnsweringMoves ==
    ASSUME Answering, Grows, NEW c, NEW ev, Moves(c, ev),
           \A y : y = [cause |-> c, ev |-> ev] => CauseFits(y)'
    PROVE  Answering'
<1> DEFINE e == [cause |-> c, ev |-> ev]
<1>1. \A y \in ledger.yes : CauseFits(y)' /\ y.cause \notin ledger.no
    BY CauseFitsKept DEF Answering
<1>2. \A y \in ledger.yes : ~Accepted(c) => y.cause # c
    BY DEF Accepted
<1>3. CauseFits(e)' /\ e.cause = c
    OBVIOUS
<1> HIDE DEF e
<1>4. ledger'.yes \subseteq ledger.yes \cup {e}
    BY DEF Moves, e
<1>5. \A y \in ledger'.yes : CauseFits(y)' /\ y.cause \notin ledger'.no
    BY <1>1, <1>2, <1>3, <1>4 DEF Moves, e
<1>6. \A y, z \in ledger'.yes : y.cause = z.cause => y = z
    BY <1>2, <1>3, <1>4 DEF Moves, Answering, e
<1> QED
    BY <1>5, <1>6 DEF Answering

-----------------------------------------------------------------------------
\* What applying rows goes by in the journal.
Still == Alike(jn', jn, Fields \ {"task", "of", "closed", "rec", "applied"})

LEMMA StillSame == jn' = jn => Still
BY DEF Still, Alike

LEMMA StillBut ==
    ASSUME NEW F, Alike(jn', jn, F), F \cap {"task", "of", "closed", "rec", "applied"} = {}
    PROVE  Still
BY DEF Still, Alike, Fields

\* A step that has nothing to do with rows.
LEMMA ApplyingKept ==
    ASSUME Frame, Applying, NEW h, At(h), h \notin {"close", "close_all", "apply"},
           NEW N, Goes(N), \A s \in N : s.op \notin RowSteps \cup {"apply", "applied"},
           Still, acc' = acc, Grows, Answering'
    PROVE  Applying'
<1>1. /\ jn'.task = jn.task /\ jn'.of = jn.of /\ jn'.closed = jn.closed /\ jn'.rec = jn.rec
      /\ jn'.applied = jn.applied
    BY DEF Still, Alike, Fields
<1>2. up /\ todo # <<>> /\ ~Closing(Head(todo))
    BY DEF At, Closing
<1>3. Owing' /\ Scanned'
    BY <1>1, <1>2, OwingKept, ScannedKept DEF Applying
<1>4. Rowing' /\ Recorded'
    BY <1>1, <1>2, RowingKept, RecordedKept DEF Applying
<1> QED
    BY <1>3, <1>4 DEF Applying

LEMMA ApplyingQuiet ==
    ASSUME Frame, Applying, NEW h, At(h), h \notin {"close", "close_all", "apply"},
           NEW N, Goes(N), \A s \in N : s.op \notin RowSteps \cup {"apply", "applied"},
           Still, acc' = acc, ledger' = ledger
    PROVE  Applying'
<1>1. Grows
    BY DEF Still, Alike, Fields, Grows
<1>2. Answering'
    BY <1>1, AnsweringKept DEF Applying
<1> QED
    BY <1>1, <1>2, ApplyingKept

\* One call of bin/task, and a step that has nothing to do with rows.
LEMMA ApplyingAsked ==
    ASSUME Frame, Applying, NEW h, At(h), h \notin {"close", "close_all", "apply"},
           NEW N, Goes(N), \A s \in N : s.op \notin RowSteps \cup {"apply", "applied"},
           Still, acc' = acc, NEW c \in Causes, NEW ev \in Events, NEW r, task_event(c, ev, r),
           \A y : y = [cause |-> c, ev |-> ev] => CauseFits(y)'
    PROVE  Applying'
<1>1. Types
    BY DEF Frame
<1>2. Moves(c, ev)
    BY <1>1, LedgerMoves
<1>3. Grows
    BY <1>2, MovesGrow DEF Still, Alike, Fields
<1>4. Answering'
    BY <1>2, <1>3, AnsweringMoves DEF Applying
<1> QED
    BY <1>3, <1>4, ApplyingKept

\* The steps that leave the journal alone.
LEMMA QuietSteps ==
    ASSUME Frame, Applying,
           \/ Send \/ retry_pending_reports \/ Resend \/ quarantine_intent \/ SendToSelf
           \/ unlink_intent \/ ContextDone \/ WorkDone \/ WorkFailed \/ choose_message
           \/ AwaitOrphan \/ retry_deferred_orphans \/ scan_intents
           \/ recheck_missing_report_after_retry \/ sweep_missing_reports
    PROVE  Applying'
<1> DEFINE Plain(N) == Goes(N) /\ \A s \in N : s.op \notin RowSteps \cup {"apply", "applied"}
           Same == jn' = jn /\ acc' = acc /\ ledger' = ledger
<1>1. ASSUME NEW h, At(h), h \notin {"close", "close_all", "apply"}, NEW N, Plain(N), Same
      PROVE  Applying'
    BY <1>1, StillSame, ApplyingQuiet
<1>2. CASE Send
    <2>1. Plain({Do("sent", Arg), Do("unsent", Arg)})
        BY <1>2, SendFrame, StepFields DEF RowSteps
    <2> QED
        BY <1>1, <1>2, <2>1 DEF Send, SendFails
<1>3. CASE retry_pending_reports
    <2>1. Plain({s \in Steps : s.op = "resend" /\ jn.report[s.a].st = "pending"})
        BY <1>3, RetryReportsFrame DEF RowSteps
    <2> QED
        BY <1>1, <1>3, <2>1 DEF retry_pending_reports, outside
<1>4. CASE Resend
    <2>1. Plain({Step("report", Arg, jn.report[Arg].says)})
        BY <1>4, ResendFrame, StepFields DEF RowSteps
    <2> QED
        BY <1>1, <1>4, <2>1 DEF Resend, outside
<1>5. CASE quarantine_intent
    <2>1. Plain({Do("taint", Arg)})
        BY <1>5, QuarantineFrame, StepFields DEF RowSteps
    <2> QED
        BY <1>1, <1>5, <2>1 DEF quarantine_intent
<1>6. CASE SendToSelf \/ unlink_intent \/ ContextDone
    <2>1. Plain({})
        BY <1>6, SelfFrame, UnlinkFrame, ContextFrame
    <2> QED
        BY <1>1, <1>6, <2>1 DEF SendToSelf, unlink_intent, ContextDone
<1>7. CASE WorkDone \/ WorkFailed \/ AwaitOrphan
    <2>1. Plain({})
        BY <1>7, WorkDoneFrame, WorkFailedFrame, AwaitFrame
    <2> QED
        BY <1>1, <1>7, <2>1 DEF WorkDone, WorkFailed, AwaitOrphan, outside
<1>8. CASE choose_message
    <2>1. Plain({Do("start", 0), Do("prepare", 0)})
        BY <1>8, ChooseFrame, StepFields DEF RowSteps
    <2> QED
        BY <1>1, <1>8, <2>1 DEF choose_message, outside
<1>9. CASE retry_deferred_orphans
    <2>1. Plain({s \in Steps : s.op = "adopt"})
        BY <1>9, OrphansFrame DEF RowSteps
    <2> QED
        BY <1>1, <1>9, <2>1 DEF retry_deferred_orphans, outside
<1>10. CASE scan_intents
    <2>1. Plain({s \in Steps : s.op = "file"})
        BY <1>10, ScanFrame DEF RowSteps
    <2> QED
        BY <1>1, <1>10, <2>1 DEF scan_intents, outside
<1>11. CASE recheck_missing_report_after_retry \/ sweep_missing_reports
    <2>1. Plain({s \in Steps : s.op = "missing"})
        BY <1>11, CheckFrame DEF RowSteps
    <2> QED
        BY <1>1, <1>11, <2>1 DEF recheck_missing_report_after_retry, sweep_missing_reports, outside
<1> QED
    BY <1>2, <1>3, <1>4, <1>5, <1>6, <1>7, <1>8, <1>9, <1>10, <1>11

\* A change to a field that says nothing of rows.
LEMMA StillFields ==
    ASSUME jn \in Journals
    PROVE  /\ \A v : jn' = [jn EXCEPT !.report = v] => Still
           /\ \A v : jn' = [jn EXCEPT !.tainted = v] => Still
           /\ \A v : jn' = [jn EXCEPT !.retries = v] => Still
           /\ \A v : jn' = [jn EXCEPT !.prep = v] => Still
           /\ \A v : jn' = [jn EXCEPT !.errs = v] => Still
           /\ \A v : jn' = [jn EXCEPT !.dlq = v] => Still
           /\ \A v, w : jn' = [jn EXCEPT !.missing = v, !.missed = w] => Still
<1> DEFINE Kept == /\ jn'.task = jn.task /\ jn'.of = jn.of /\ jn'.closed = jn.closed
                   /\ jn'.rec = jn.rec /\ jn'.applied = jn.applied
<1>1. Kept => Still
    BY DEF Still, Alike, Fields
<1>2. \A v : jn' = [jn EXCEPT !.report = v] => Kept
    BY DEF Journals
<1>3. \A v : jn' = [jn EXCEPT !.tainted = v] => Kept
    BY DEF Journals
<1>4. \A v : jn' = [jn EXCEPT !.retries = v] => Kept
    BY DEF Journals
<1>5. \A v : jn' = [jn EXCEPT !.prep = v] => Kept
    BY DEF Journals
<1>6. \A v : jn' = [jn EXCEPT !.errs = v] => Kept
    BY DEF Journals
<1>7. \A v : jn' = [jn EXCEPT !.dlq = v] => Kept
    BY DEF Journals
<1>8. \A v, w : jn' = [jn EXCEPT !.missing = v, !.missed = w] => Kept
    BY DEF Journals
<1> HIDE DEF Kept
<1> QED
    BY <1>1, <1>2, <1>3, <1>4, <1>5, <1>6, <1>7, <1>8, Zenon

LEMMA ReportingSteps ==
    ASSUME Frame, Applying, deliver_task_report \/ ReportDelivered \/ record_report_failure
    PROVE  Applying'
<1>1. jn \in Journals /\ acc' = acc /\ ledger' = ledger
    BY DEF Frame, Types, deliver_task_report, ReportDelivered, record_report_failure, outside
<1>2. jn' = jn \/ \E v : jn' = [jn EXCEPT !.report = v]
    <2>1. CASE deliver_task_report
        <3> DEFINE v == [jn.report EXCEPT ![Arg] =
                        IF @.st = "none" THEN [@ EXCEPT !.st = "pending", !.says = Word] ELSE @]
        <3>1. jn' = jn \/ jn' = [jn EXCEPT !.report = v]
            BY <2>1 DEF deliver_task_report
        <3> HIDE DEF v
        <3> QED
            BY <3>1
    <2>2. CASE ReportDelivered
        <3> DEFINE v == [jn.report EXCEPT ![Arg].st = "delivered"]
        <3>1. jn' = [jn EXCEPT !.report = v]
            BY <2>2 DEF ReportDelivered
        <3> HIDE DEF v
        <3> QED
            BY <3>1
    <2>3. CASE record_report_failure
        <3> DEFINE n == jn.report[Arg].n + 1
                   v == [jn.report EXCEPT ![Arg] =
                            IF n >= ReportLimit THEN [@ EXCEPT !.st = "undeliverable"]
                            ELSE [@ EXCEPT !.n = n]]
        <3>1. jn' = [jn EXCEPT !.report = v]
            BY <2>3 DEF record_report_failure
        <3> HIDE DEF v
        <3> QED
            BY <3>1
    <2> QED
        BY <1>1, <2>1, <2>2, <2>3
<1>3. Still
    BY <1>1, <1>2, StillSame, StillFields, Zenon
<1>4. CASE deliver_task_report
    <2>1. /\ At("report") /\ Goes({Step("send", Arg, Word)})
          /\ \A s \in {Step("send", Arg, Word)} : s.op \notin RowSteps \cup {"apply", "applied"}
        BY <1>4, DeliverFrame, StepFields DEF deliver_task_report, RowSteps
    <2> QED
        BY <1>1, <1>3, <2>1, ApplyingQuiet
<1>5. CASE ReportDelivered \/ record_report_failure
    <2>1. (At("sent") \/ At("unsent")) /\ Goes({})
        BY <1>5, DeliveredFrame, UnsentFrame DEF ReportDelivered, record_report_failure
    <2> QED
        BY <1>1, <1>3, <2>1, ApplyingQuiet
<1> QED
    BY <1>4, <1>5

\* Steps that note something else in the journal and ask for at most one more.
LEMMA NotingSteps ==
    ASSUME Frame, Applying,
           \/ Taint \/ intent_retry \/ TaskNoReport \/ DlqProcessed \/ message_engine_error
    PROVE  Applying'
<1> DEFINE Plain(N) == Goes(N) /\ \A s \in N : s.op \notin RowSteps \cup {"apply", "applied"}
           Same == acc' = acc /\ ledger' = ledger
<1> jn \in Journals
    BY DEF Frame, Types
<1>1. ASSUME NEW h, At(h), h \notin {"close", "close_all", "apply"}, NEW N, Plain(N), Same, Still
      PROVE  Applying'
    BY <1>1, ApplyingQuiet
<1>2. CASE Taint
    <2> DEFINE v == jn.tainted \cup {Arg}
    <2>1. jn' = [jn EXCEPT !.tainted = v] /\ At("taint") /\ Same
        BY <1>2 DEF Taint, outside
    <2> HIDE DEF v
    <2>2. Still
        BY <2>1, StillFields, Zenon
    <2>3. Plain({})
        BY <1>2, TaintFrame
    <2> QED
        BY <1>1, <2>1, <2>2, <2>3
<1>3. CASE intent_retry
    <2> DEFINE v == [jn.retries EXCEPT ![Arg] = @ + 1]
    <2>1. jn' = [jn EXCEPT !.retries = v] /\ At("retry") /\ Same
        BY <1>3 DEF intent_retry, outside
    <2> HIDE DEF v
    <2>2. Still
        BY <2>1, StillFields, Zenon
    <2>3. Plain({Do("quarantine", Arg)})
        BY <1>3, RetryFrame, StepFields DEF RowSteps
    <2> QED
        BY <1>1, <2>1, <2>2, <2>3
<1>4. CASE TaskNoReport
    <2> DEFINE v == jn.missing + 1
    <2>1. jn' = [jn EXCEPT !.missing = v, !.missed = Arg] /\ At("no_report") /\ Same
        BY <1>4 DEF TaskNoReport, outside
    <2> HIDE DEF v
    <2>2. Still
        BY <2>1, StillFields, Zenon
    <2>3. Plain({})
        BY <1>4, NoReportFrame
    <2> QED
        BY <1>1, <2>1, <2>2, <2>3
<1>5. CASE DlqProcessed
    <2>1. jn' = [jn EXCEPT !.dlq = TRUE] /\ At("dlq_done") /\ Same
        BY <1>5 DEF DlqProcessed, outside
    <2>2. Still
        BY <2>1, StillFields, Zenon
    <2>3. Plain({})
        BY <1>5, DlqDoneFrame
    <2> QED
        BY <1>1, <2>1, <2>2, <2>3
<1>6. CASE message_engine_error
    <2> DEFINE v == [jn.errs EXCEPT ![work.msg] = @ + 1]
    <2>1. jn' = [jn EXCEPT !.errs = v] /\ At("engine") /\ Same
        BY <1>6 DEF message_engine_error, outside
    <2> HIDE DEF v
    <2>2. Still
        BY <2>1, StillFields, Zenon
    <2>3. Plain({Do("work_failed", 0)})
        BY <1>6, EngineFrame, StepFields DEF RowSteps
    <2> QED
        BY <1>1, <2>1, <2>2, <2>3
<1> QED
    BY <1>2, <1>3, <1>4, <1>5, <1>6

LEMMA PreparingSteps ==
    ASSUME Frame, Applying, prepare_task_work \/ Activate
    PROVE  Applying'
<1>1. jn \in Journals /\ acc' = acc /\ ledger' = ledger
    BY DEF Frame, Types, prepare_task_work, Activate, outside
<1>2. jn' = jn \/ \E v : jn' = [jn EXCEPT !.prep = v]
    <2> DEFINE v == [jn.prep EXCEPT ![work.msg] = @ + 1]
               w == [jn.prep EXCEPT ![work.msg] = @ - 1]
    <2>1. jn' = jn \/ jn' = [jn EXCEPT !.prep = v] \/ jn' = [jn EXCEPT !.prep = w]
        BY DEF prepare_task_work, Activate
    <2> HIDE DEF v, w
    <2> QED
        BY <2>1
<1>3. Still
    BY <1>1, <1>2, StillSame, StillFields, Zenon
<1>4. CASE prepare_task_work
    <2> DEFINE N == {s \in Steps : s.op \in LastSteps \cup {"work_failed"} /\ s.a = 0}
    <2>1. /\ At("prepare") /\ Goes(N)
          /\ \A s \in N : s.op \notin RowSteps \cup {"apply", "applied"}
        BY <1>4, PrepareFrame DEF prepare_task_work, RowSteps, LastSteps
    <2> HIDE DEF N
    <2> QED
        BY <1>1, <1>3, <2>1, ApplyingQuiet
<1>5. CASE Activate
    <2> DEFINE N == {s \in Steps : s.op \in LastSteps /\ s.a = 0}
    <2>1. /\ At("activate") /\ Goes(N)
          /\ \A s \in N : s.op \notin RowSteps \cup {"apply", "applied"}
        BY <1>5, ActivateFrame DEF Activate, RowSteps, LastSteps
    <2> HIDE DEF N
    <2> QED
        BY <1>1, <1>3, <2>1, ApplyingQuiet
<1> QED
    BY <1>4, <1>5

LEMMA EndingSteps ==
    ASSUME Frame, Applying, finish_result \/ OrphanGone \/ ResolveOrphan
    PROVE  Applying'
<1>1. acc' = acc /\ ledger' = ledger
    BY DEF finish_result, OrphanGone, ResolveOrphan, outside
<1>2. Still
    <2>1. Alike(jn', jn, {"open", "fails"}) \/ Alike(jn', jn, {"open"})
            \/ Alike(jn', jn, {"defer", "pending"})
        BY FinishFrame, GoneFrame, ResolveFrame
    <2> QED
        BY <2>1 DEF Still, Alike, Fields
<1>3. CASE finish_result
    <2>1. /\ At("finish") /\ Goes(AfterTurn(Arg))
          /\ \A s \in AfterTurn(Arg) : s.op \notin RowSteps \cup {"apply", "applied"}
        BY <1>3, FinishFrame, StepFields DEF finish_result, RowSteps, AfterTurn
    <2> QED
        BY <1>1, <1>2, <2>1, ApplyingQuiet
<1>4. CASE OrphanGone \/ ResolveOrphan
    <2>1. (At("gone") \/ At("resolve")) /\ Goes({})
        BY <1>4, GoneFrame, ResolveFrame DEF OrphanGone, ResolveOrphan
    <2> QED
        BY <1>1, <1>2, <2>1, ApplyingQuiet
<1> QED
    BY <1>3, <1>4

\* Calls of bin/task for something else than a row.
LEMMA AskingSteps ==
    ASSUME Frame, Applying,
           handle_missing_report \/ service_fail \/ Pickup \/ scan_task_dlq
    PROVE  Applying'
<1>1. Still /\ acc' = acc
    BY StillSame DEF handle_missing_report, service_fail, Pickup, scan_task_dlq
<1> DEFINE Plain(N) == Goes(N) /\ \A s \in N : s.op \notin RowSteps \cup {"apply", "applied"}
           Asked(c, ev) == ledger' = ledger \/ \E r \in Rcs : task_event(c, ev, r)
<1>2. ASSUME NEW h, At(h), h \notin {"close", "close_all", "apply"}, NEW N, Plain(N),
             NEW c \in Causes, NEW ev \in Events, Asked(c, ev),
             \A y : y = [cause |-> c, ev |-> ev] => CauseFits(y)'
      PROVE  Applying'
    <2>1. CASE ledger' = ledger
        BY <1>1, <1>2, <2>1, ApplyingQuiet
    <2>2. CASE \E r \in Rcs : task_event(c, ev, r)
        BY <1>1, <1>2, <2>2, ApplyingAsked
    <2> QED
        BY <1>2, <2>1, <2>2
<1>3. CASE handle_missing_report
    <2> DEFINE c == <<"no_report", 0, 0>>
    <2>1. c \in Causes /\ "blocked" \in Events
        BY CauseTypes DEF Events, Reports, Final
    <2>2. \A y : y = [cause |-> c, ev |-> "blocked"] => CauseFits(y)'
        BY DEF CauseFits
    <2>3. At("missing") /\ Asked(c, "blocked")
        BY <1>3 DEF handle_missing_report
    <2>4. Plain({Step("report", Arg, "blocked"), Do("no_report", Arg)})
        BY <1>3, MissingFrame, StepFields DEF RowSteps
    <2> HIDE DEF c
    <2> QED
        BY <1>2, <2>1, <2>2, <2>3, <2>4
<1>4. CASE service_fail
    <2> DEFINE c == <<"fail", Arg, 0>>
    <2>1. c \in Causes /\ "failed" \in Events
        <3>1. Arg \in 0 .. MaxAttempts
            BY <1>4, AtStep DEF service_fail, AttemptSteps, Attempts
        <3> QED
            BY <3>1, CauseTypes DEF Events, Reports, Final
    <2>2. \A y : y = [cause |-> c, ev |-> "failed"] => CauseFits(y)'
        BY DEF CauseFits
    <2>3. At("service_fail") /\ Asked(c, "failed")
        BY <1>4 DEF service_fail
    <2>4. Plain({Step("report", Arg, "failed")})
        BY <1>4, FailFrame, StepFields DEF RowSteps
    <2> HIDE DEF c
    <2> QED
        BY <1>2, <2>1, <2>2, <2>3, <2>4
<1>5. CASE Pickup
    <2> DEFINE c == <<"start", 0, 0>>
               N == {s \in Steps : s.op \in LastSteps /\ s.a = 0}
    <2>1. c \in Causes /\ "start" \in Events
        BY CauseTypes DEF Events
    <2>2. \A y : y = [cause |-> c, ev |-> "start"] => CauseFits(y)'
        BY DEF CauseFits
    <2>3. At("pickup") /\ Asked(c, "start")
        BY <1>5 DEF Pickup
    <2>4. Plain(N)
        BY <1>5, PickupFrame DEF RowSteps, LastSteps
    <2> HIDE DEF c, N
    <2> QED
        BY <1>2, <2>1, <2>2, <2>3, <2>4
<1>6. CASE scan_task_dlq
    <2> DEFINE c == <<"delivery", 0, 0>>
    <2>1. c \in Causes /\ "cancelled" \in Events
        BY CauseTypes DEF Events
    <2>2. \A y : y = [cause |-> c, ev |-> "cancelled"] => CauseFits(y)'
        BY DEF CauseFits
    <2>3. At("dlq") /\ Asked(c, "cancelled")
        BY <1>6 DEF scan_task_dlq
    <2>4. Plain({Step("report", Delivery, "cancelled"), Do("dlq_done", 0)})
        BY <1>6, DlqFrame, StepFields DEF RowSteps
    <2> HIDE DEF c
    <2> QED
        BY <1>2, <2>1, <2>2, <2>3, <2>4
<1> QED
    BY <1>3, <1>4, <1>5, <1>6

\* A row that is on record is passed over.
LEMMA RecordedApplying ==
    ASSUME Frame, Applying, RecordedRow
    PROVE  Applying'
<1>1. /\ At("row") /\ acc.i <= Len(acc.rows) /\ acc.i <= Len(jn.rec[Arg])
      /\ UNCHANGED <<up, todo, jn, ledger>>
      /\ acc' = Counted(acc, jn.rec[Arg][acc.i])
    BY DEF RecordedRow, MoreRows, outside
<1>2. todo # <<>> /\ Head(todo).op = "row" /\ Head(todo).a = Arg /\ Arg \in Attempts /\ PlanOK /\ Types
    BY <1>1, AtStep DEF AttemptSteps, RowSteps
<1>3. acc'.rows = acc.rows /\ acc'.i = acc.i + 1 /\ acc.i \in Nat
    BY <1>1, <1>2 DEF Counted, Types, Locals
<1>4. Rowing'
    <2> SUFFICES ASSUME NEW s \in In(todo), s.op \in RowSteps PROVE RowAt(s)'
        BY <1>1 DEF Rowing
    <2>1. s = Head(todo)
        <3>1. \A q \in In(Tail(todo)) : q.op \notin RowSteps
            BY <1>2, NoMoreRows DEF ReportSteps
        <3> QED
            BY <1>2, <3>1, Rest
    <2>2. RowAt(s)
        BY DEF Applying, Rowing
    <2>3. Len(jn.rec[Arg]) \in Nat
        BY <1>2, JournalTypes, LenProperties DEF Types
    <2>4. s.a = Arg /\ s.op = "row" /\ jn' = jn
        BY <1>1, <1>2, <2>1
    <2>5. acc'.i <= Len(jn'.rec[s.a]) + 1
        BY <1>1, <1>3, <2>3, <2>4
    <2> QED
        BY <1>3, <2>2, <2>4, <2>5 DEF RowAt
<1>5. Owing' /\ Scanned' /\ Recorded' /\ Answering'
    BY <1>1 DEF Applying, Owing, Scanned, Recorded, Answering, Claimed, CauseFits, Answered, Took,
                TurnedDown, Complete
<1> QED
    BY <1>4, <1>5 DEF Applying

\* A step of an application that asks for one step more of it, with the same rows
\* in hand, and nothing new in the journal.
LEMMA ApplyingOn ==
    ASSUME Frame, Applying, NEW h \in RowSteps, At(h), NEW N, Goes(N),
           \A s \in N : s.op \notin {"apply", "applied"}, jn' = jn, Grows, Answering', Rowing'
    PROVE  Applying'
<1>1. up /\ todo # <<>> /\ ~Closing(Head(todo))
    BY DEF At, Closing, RowSteps
<1>2. Owing' /\ Scanned'
    BY <1>1, OwingKept, ScannedKept DEF Applying
<1>3. Recorded'
    BY <1>1, RecordedKept DEF Applying
<1> QED
    BY <1>2, <1>3 DEF Applying

\* No rows are left once a row step was replaced by other steps.
LEMMA RowsOver ==
    ASSUME Frame, NEW h \in RowSteps, At(h), NEW N, In(todo') \subseteq N \cup In(Tail(todo)),
           \A s \in N : s.op \in RowSteps => RowAt(s)'
    PROVE  Rowing'
<1>1. PlanOK /\ todo # <<>> /\ Head(todo).op = h
    BY AtStep
<1>2. \A q \in In(Tail(todo)) : q.op \notin RowSteps
    BY <1>1, NoMoreRows DEF ReportSteps, RowSteps
<1> QED
    BY <1>2 DEF Rowing

\* The row at hand.
LEMMA AtRow ==
    ASSUME Frame, Applying, NEW h \in RowSteps, At(h)
    PROVE  /\ Arg \in Attempts /\ jn.closed[Arg] # None /\ acc.rows = jn.closed[Arg]
           /\ h = "row" => acc.i <= Len(jn.rec[Arg]) + 1
           /\ h # "row" => acc.i = Len(jn.rec[Arg]) + 1 /\ acc.i <= Len(acc.rows)
           /\ h = "record" => Answered(Arg, acc.i, Word)
           /\ Len(jn.rec[Arg]) \in Nat /\ acc.i \in Nat \ {0} /\ Len(acc.rows) \in Nat
           /\ jn \in Journals /\ acc \in Locals
<1>1. /\ PlanOK /\ todo # <<>> /\ Head(todo).op = h /\ Head(todo).a = Arg /\ Arg \in Attempts
      /\ Types
    BY AtStep DEF AttemptSteps
<1>2. RowAt(Head(todo))
    BY <1>1, Rest DEF Applying, Rowing
<1>3. Len(jn.rec[Arg]) \in Nat /\ jn \in Journals /\ acc \in Locals /\ acc.i \in Nat \ {0}
    BY <1>1, JournalTypes, LenProperties DEF Types, Locals
<1>4. Len(acc.rows) \in Nat
    <2>1. acc.rows \in Contents
        BY <1>3 DEF Locals
    <2> QED
        BY <2>1, IntentAssumption, LenProperties DEF Contents
<1> QED
    BY <1>1, <1>2, <1>3, <1>4 DEF RowAt, Word

LEMMA RefusedApplying ==
    ASSUME Frame, Applying, RefusedRow
    PROVE  Applying'
<1> DEFINE N == {Step("record", Arg, "rejected"), Do("retry", Arg)}
           x == Step("record", Arg, "rejected")
           y == Do("retry", Arg)
<1>1. /\ At("row") /\ acc.i <= Len(acc.rows) /\ acc.i > Len(jn.rec[Arg])
      /\ acc.rows[acc.i] \notin Reports /\ "row" \in RowSteps
      /\ UNCHANGED <<jn, ledger>>
      /\ (Then(<<x>>) /\ acc' = acc) \/ Then(<<y>>)
    BY DEF RefusedRow, NewRow, MoreRows, Row, outside, RowSteps
<1>2. /\ Arg \in Attempts /\ jn.closed[Arg] # None /\ acc.rows = jn.closed[Arg]
      /\ acc.i = Len(jn.rec[Arg]) + 1
    BY <1>1, AtRow
<1>3. x.op = "record" /\ x.a = Arg /\ x.w = "rejected" /\ y.op = "retry"
    BY StepFields
<1>4. Goes(N)
    BY RefusedFrame
<1>5. \A s \in N : s.op \notin {"apply", "applied"}
    BY <1>3
<1>6. PlanOK /\ todo # <<>>
    BY <1>1, AtStep
<1> HIDE DEF N, x, y
<1>7. CASE Then(<<x>>) /\ acc' = acc
    <2>1. In(todo') = {x} \cup In(Tail(todo))
        BY <1>6, <1>7, InThen
    <2>2. \A s \in {x} : RowAt(s)'
        BY <1>1, <1>2, <1>3, <1>7 DEF RowAt, Answered, TurnedDown, Reports, Final
    <2> QED
        BY <1>1, <2>1, <2>2, RowsOver, <1>4, <1>5, ApplyingOn, AnsweringKept DEF Grows, Applying
<1>8. CASE Then(<<y>>)
    <2>1. In(todo') = {y} \cup In(Tail(todo))
        BY <1>6, <1>8, InThen
    <2>2. \A s \in {y} : s.op \in RowSteps => RowAt(s)'
        BY <1>3 DEF RowSteps
    <2> QED
        BY <1>1, <2>1, <2>2, RowsOver, <1>4, <1>5, ApplyingOn, AnsweringKept DEF Grows, Applying
<1> QED
    BY <1>1, <1>7, <1>8

LEMMA BudgetApplying ==
    ASSUME Frame, Applying, BudgetBlock
    PROVE  Applying'
<1> DEFINE x == Step("report", Arg, "blocked")
           y == Step("record", Arg, "budget")
           z == Do("retry", Arg)
           c == <<"budget", Arg, 0>>
<1>1. At("budget") /\ "budget" \in RowSteps /\ jn' = jn
    BY DEF BudgetBlock, RowSteps
<1>2. PICK r \in Rcs :
        /\ task_event(c, "blocked", r)
        /\ (Then(<<x, y>>) /\ acc' = acc) \/ (Then(<<y>>) /\ acc' = acc) \/ Then(<<z>>)
    BY DEF BudgetBlock
<1>3. /\ Arg \in Attempts /\ jn.closed[Arg] # None /\ acc.rows = jn.closed[Arg]
      /\ acc.i = Len(jn.rec[Arg]) + 1 /\ acc.i <= Len(acc.rows)
    BY <1>1, AtRow
<1>4. /\ x.op = "report" /\ y.op = "record" /\ y.a = Arg /\ y.w = "budget" /\ z.op = "retry"
    BY StepFields
<1>5. PlanOK /\ todo # <<>> /\ Types
    BY <1>1, AtStep
<1>6. c \in Causes /\ "blocked" \in Events
    <2>1. Arg \in 0 .. MaxAttempts
        BY <1>3 DEF Attempts
    <2> QED
        BY <2>1, CauseTypes DEF Events, Reports, Final
<1>7. \A e : e = [cause |-> c, ev |-> "blocked"] => CauseFits(e)'
    BY DEF CauseFits
<1>8. Goes({x, y, z}) /\ \A s \in {x, y, z} : s.op \notin {"apply", "applied"}
    BY <1>4, BudgetFrame
<1> HIDE DEF x, y, z, c
<1>9. Moves(c, "blocked")
    BY <1>2, <1>5, <1>6, LedgerMoves
<1>10. Grows
    BY <1>1, <1>9, MovesGrow
<1>11. Answering'
    BY <1>7, <1>9, <1>10, AnsweringMoves DEF Applying
<1>12. acc' = acc => \A s \in {x, y} : s.op \in RowSteps => RowAt(s)'
    BY <1>1, <1>3, <1>4 DEF RowAt, Answered, RowSteps, Reports, Final
<1>13. Rowing'
    <2>1. ASSUME NEW M \in SUBSET {x, y}, acc' = acc, In(todo') = M \cup In(Tail(todo))
          PROVE  Rowing'
        <3>1. \A s \in M : s.op \in RowSteps => RowAt(s)'
            BY <1>12, <2>1
        <3>2. In(todo') \subseteq M \cup In(Tail(todo))
            BY <2>1
        <3> QED
            BY <1>1, <3>1, <3>2, RowsOver, Zenon
    <2>2. CASE (Then(<<x, y>>) \/ Then(<<y>>)) /\ acc' = acc
        <3>1. \E M \in SUBSET {x, y} : In(todo') = M \cup In(Tail(todo))
            BY <1>5, <2>2, InThen
        <3> QED
            BY <2>1, <2>2, <3>1
    <2>3. CASE Then(<<z>>)
        <3> DEFINE M == {z}
        <3>1. In(todo') \subseteq M \cup In(Tail(todo))
            BY <1>5, <2>3, InThen
        <3>2. \A s \in M : s.op \in RowSteps => RowAt(s)'
            BY <1>4 DEF RowSteps
        <3> HIDE DEF M
        <3> QED
            BY <1>1, <3>1, <3>2, RowsOver, Zenon
    <2> QED
        BY <1>2, <2>2, <2>3
<1> QED
    BY <1>1, <1>8, <1>10, <1>11, <1>13, ApplyingOn

LEMMA ReportRowApplying ==
    ASSUME Frame, Applying, ReportRow
    PROVE  Applying'
<1> DEFINE c == <<"row", Arg, acc.i>>
           x == Step("record", Arg, Row)
           y == Step("record", Arg, "rejected")
           z == Do("budget", Arg)
           t == Do("retry", Arg)
<1>1. /\ At("row") /\ "row" \in RowSteps /\ acc.i <= Len(acc.rows) /\ acc.i > Len(jn.rec[Arg])
      /\ Row \in Reports /\ jn' = jn
    BY DEF ReportRow, NewRow, MoreRows, RowSteps
<1>2. PICK r \in Rcs :
        /\ task_event(c, Row, r) /\ Then(<<AfterReport(r)>>)
        /\ acc' = IF AfterReport(r).op = "retry" THEN NoAcc ELSE acc
    BY DEF ReportRow
<1>3. /\ Arg \in Attempts /\ jn.closed[Arg] # None /\ acc.rows = jn.closed[Arg]
      /\ acc.i = Len(jn.rec[Arg]) + 1 /\ acc.i \in Nat \ {0} /\ Len(acc.rows) \in Nat
    BY <1>1, AtRow
<1>4. /\ x.op = "record" /\ x.a = Arg /\ x.w = Row
      /\ y.op = "record" /\ y.a = Arg /\ y.w = "rejected"
      /\ z.op = "budget" /\ z.a = Arg /\ t.op = "retry"
    BY StepFields
<1>5. PlanOK /\ todo # <<>> /\ Types
    BY <1>1, AtStep
<1>6. c \in Causes /\ Row \in Events
    <2>1. acc.i \in 1 .. MaxRows
        BY <1>1, <1>5, RowTypes
    <2> QED
        <3>1. Arg \in 0 .. MaxAttempts /\ acc.i \in 0 .. MaxRows
            BY <1>3, <2>1 DEF Attempts
        <3> QED
            BY <1>1, <3>1, CauseTypes DEF Events
<1>7. /\ c[1] = "row" /\ c[2] = Arg /\ c[3] = acc.i
      /\ Row = jn.closed[Arg][acc.i]
    BY <1>3 DEF Row
<1>8. \A e : e = [cause |-> c, ev |-> Row] => CauseFits(e)'
    BY <1>1, <1>3, <1>7 DEF CauseFits
<1>9. Goes({x, y, z, t}) /\ \A s \in {x, y, z, t} : s.op \notin {"apply", "applied"}
    BY <1>4, ReportRowFrame
<1>10. AfterReport(r) \in {x, y, z, t} /\ (AfterReport(r) = x => r = "ok" \/ Row = "rejected")
         /\ (AfterReport(r) = y => r = "refused" \/ Row = "rejected")
    BY <1>4 DEF AfterReport
<1>11. Row # "rejected"
    BY <1>1 DEF Reports, Final
<1>12. /\ Moves(c, Row)
       /\ r = "ok" => \E e \in ledger'.yes : e.cause = c
       /\ r = "refused" => c \in ledger'.no
    BY <1>2, <1>5, <1>6, LedgerMoves
<1> HIDE DEF x, y, z, t
<1>13. Grows
    BY <1>1, <1>12, MovesGrow
<1>14. Answering'
    BY <1>8, <1>12, <1>13, AnsweringMoves DEF Applying
<1>15. r = "ok" => [cause |-> c, ev |-> Row] \in ledger'.yes
    <2> SUFFICES ASSUME r = "ok" PROVE [cause |-> c, ev |-> Row] \in ledger'.yes
        OBVIOUS
    <2>1. PICK e \in ledger'.yes : e.cause = c
        BY <1>12
    <2>2. e.ev = Row
        BY <1>1, <1>7, <1>14, <2>1 DEF Answering, CauseFits
    <2>3. e = [cause |-> c, ev |-> Row]
        <3>1. ledger' \in Ledgers
            BY ReportRowFrame DEF Frame, Types
        <3> QED
            BY <2>1, <2>2, <3>1 DEF Ledgers
    <2> QED
        BY <2>1, <2>3
<1>16. acc' = acc \/ AfterReport(r) = t
    <2>1. x.op # "retry" /\ y.op # "retry" /\ z.op # "retry"
        BY <1>4
    <2> QED
        BY <1>2, <1>10, <2>1
<1>17. Rowing'
    <2> DEFINE s == AfterReport(r)
    <2>1. In(todo') \subseteq {s} \cup In(Tail(todo))
        <3> HIDE DEF s
        <3> QED
            BY <1>2, <1>5, InThen DEF s
    <2>2. ASSUME NEW q, q = s, q.op \in RowSteps PROVE RowAt(q)'
        <3>1. acc' = acc /\ q.a = Arg /\ q.op # "row" /\ s # t
            BY <1>4, <1>10, <1>16, <2>2 DEF RowSteps
        <3>2. q.op = "record" => Answered(q.a, acc.i, q.w)'
            <4>1. CASE q = x /\ r = "ok"
                BY <1>1, <1>3, <1>4, <1>7, <1>11, <1>15, <3>1, <4>1 DEF Answered, Took, c
            <4>2. CASE q = y /\ r = "refused"
                BY <1>1, <1>3, <1>4, <1>12, <3>1, <4>2 DEF Answered, TurnedDown, Reports, Final, c
            <4>3. CASE q = z
                BY <1>4, <4>3
            <4> QED
                BY <1>10, <1>11, <2>2, <3>1, <4>1, <4>2, <4>3
        <3>3. acc'.i = Len(jn'.rec[q.a]) + 1 /\ acc'.i <= Len(acc'.rows) /\ acc'.rows = jn'.closed[q.a]
               /\ jn'.closed[q.a] # None
            BY <1>1, <1>3, <3>1
        <3> QED
            BY <3>1, <3>2, <3>3 DEF RowAt, Answered, Took, TurnedDown
    <2> HIDE DEF s
    <2> DEFINE N == {s}
    <2>3. \A q \in N : q.op \in RowSteps => RowAt(q)'
        BY <2>2
    <2>4. In(todo') \subseteq N \cup In(Tail(todo))
        BY <2>1
    <2> HIDE DEF N
    <2> QED
        BY <1>1, <2>3, <2>4, RowsOver, Zenon
<1> QED
    BY <1>1, <1>9, <1>13, <1>14, <1>17, ApplyingOn

LEMMA RecordApplying ==
    ASSUME Frame, Applying, RecordRow
    PROVE  Applying'
<1> DEFINE x == Do("row", Arg)
           n == Len(jn.rec[Arg])
<1>1. /\ At("record") /\ "record" \in RowSteps /\ Then(<<x>>) /\ ledger' = ledger
      /\ jn' = [jn EXCEPT !.rec[Arg] = Append(@, Word)]
      /\ acc' = [Counted(acc, Word) EXCEPT !.handled = @ \/ Word = "budget"]
    BY DEF RecordRow, RowSteps, outside
<1>2. /\ Arg \in Attempts /\ jn.closed[Arg] # None /\ acc.rows = jn.closed[Arg]
      /\ acc.i = n + 1 /\ acc.i <= Len(acc.rows) /\ Answered(Arg, acc.i, Word)
      /\ n \in Nat /\ Len(acc.rows) \in Nat /\ jn \in Journals /\ acc \in Locals
    BY <1>1, AtRow
<1>3. PlanOK /\ todo # <<>> /\ Head(todo).op = "record" /\ Word \in Outcomes
    BY <1>1, AtStep DEF StepOK, Word
<1>4. acc'.rows = acc.rows /\ acc'.i = n + 2
    BY <1>1, <1>2 DEF Counted, Locals
<1>5. /\ Alike(jn', jn, {"rec"}) /\ jn'.rec[Arg] = Append(jn.rec[Arg], Word)
      /\ \A a \in Attempts : a # Arg => jn'.rec[a] = jn.rec[a]
    BY <1>1, <1>2, <1>3, RecType
<1>6. /\ jn'.of = jn.of /\ jn'.task = jn.task /\ jn'.closed = jn.closed /\ jn'.applied = jn.applied
    BY <1>5 DEF Alike, Fields
<1>7. /\ Len(jn'.rec[Arg]) = n + 1 /\ jn'.rec[Arg][n + 1] = Word
      /\ \A i \in 1 .. n : jn'.rec[Arg][i] = jn.rec[Arg][i]
    <2>1. jn.rec[Arg] \in Seq(Outcomes)
        BY <1>2, JournalTypes
    <2> QED
        BY <1>3, <1>5, <2>1, AppendProperties
<1>8. x.op = "row" /\ x.a = Arg
    BY StepFields
<1>9. Goes({x})
    BY RecordFrame
<1>10. In(todo') = {x} \cup In(Tail(todo))
    BY <1>1, <1>3, InThen
<1> HIDE DEF x, n
<1>11. Grows /\ Answering'
    <2>1. Grows
        BY <1>1, <1>6 DEF Grows
    <2> QED
        BY <1>1, <2>1, AnsweringKept DEF Applying
<1>12. Owing' /\ Scanned'
    <2>1. ~Closing(Head(todo)) /\ up
        BY <1>1, <1>3 DEF Closing, At
    <2> QED
        BY <1>3, <1>6, <1>8, <1>9, <1>11, <2>1, OwingKept, ScannedKept DEF Applying
<1>13. Rowing'
    <2>1. \A s \in {x} : RowAt(s)'
        BY <1>2, <1>4, <1>6, <1>7, <1>8 DEF RowAt
    <2> DEFINE M == {x}
    <2>2. (\A s \in M : s.op \in RowSteps => RowAt(s)') /\ In(todo') \subseteq M \cup In(Tail(todo))
        BY <1>10, <2>1
    <2> HIDE DEF M
    <2> QED
        BY <1>1, <2>2, RowsOver, Zenon
<1>14. ~Complete(Arg)
    BY <1>2 DEF Complete, n
<1>15. Recorded'
    <2>1. ASSUME NEW a \in Attempts, a # Arg
          PROVE  /\ jn'.rec[a] # <<>> => jn'.closed[a] # None /\ Len(jn'.rec[a]) <= Len(jn'.closed[a])
                 /\ \A i \in 1 .. Len(jn'.rec[a]) : Answered(a, i, jn.rec[a][i])'
                 /\ a \in jn'.applied => Complete(a)'
        BY <1>1, <1>5, <1>6, <2>1 DEF Applying, Recorded, Answered, Took, TurnedDown, Complete
    <2>2. ASSUME NEW a \in Attempts, a = Arg
          PROVE  /\ jn'.rec[a] # <<>> => jn'.closed[a] # None /\ Len(jn'.rec[a]) <= Len(jn'.closed[a])
                 /\ \A i \in 1 .. Len(jn'.rec[a]) : Answered(a, i, jn.rec[a][i])'
                 /\ a \in jn'.applied => Complete(a)'
        <3>1. jn'.closed[a] # None /\ Len(jn'.rec[a]) <= Len(jn'.closed[a])
            BY <1>2, <1>6, <1>7, <2>2
        <3>2. ASSUME NEW i \in 1 .. Len(jn'.rec[a]) PROVE Answered(a, i, jn.rec[a][i])'
            <4>1. \A o : Answered(a, i, o) => Answered(a, i, o)'
                BY <1>1, <1>6 DEF Answered, Took, TurnedDown
            <4>2. Answered(a, i, jn'.rec[a][i])
                <5>1. CASE i = n + 1
                    BY <1>2, <1>7, <2>2, <5>1
                <5>2. CASE i \in 1 .. n
                    BY <1>7, <2>2, <5>2 DEF Applying, Recorded, n
                <5> QED
                    BY <1>2, <1>7, <2>2, <3>2, <5>1, <5>2
            <4> QED
                BY <4>1, <4>2 DEF Answered, Took, TurnedDown
        <3>3. a \notin jn'.applied
            BY <1>6, <1>14, <2>2 DEF Applying, Recorded
        <3> QED
            BY <3>1, <3>2, <3>3
    <2>3. ASSUME NEW s \in In(todo'), s.op = "applied" PROVE Complete(s.a)'
        <3>1. s \in In(todo) /\ Complete(s.a) /\ s.a \in Attempts
            <4>1. s \in In(todo)
                BY <1>3, <1>8, <1>10, <2>3, Rest
            <4> QED
                BY <1>3, <2>3, <4>1 DEF Applying, Recorded, PlanOK, StepOK, AttemptSteps
        <3>2. s.a # Arg
            BY <1>14, <3>1
        <3> QED
            BY <1>5, <1>6, <3>1, <3>2 DEF Complete
    <2>4. \A a \in Attempts :
            /\ jn'.rec[a] # <<>> => jn'.closed[a] # None /\ Len(jn'.rec[a]) <= Len(jn'.closed[a])
            /\ \A i \in 1 .. Len(jn'.rec[a]) : Answered(a, i, jn.rec[a][i])'
            /\ a \in jn'.applied => Complete(a)'
        BY <2>1, <2>2
    <2> QED
        BY <2>3, <2>4 DEF Recorded
<1> QED
    BY <1>11, <1>12, <1>13, <1>15 DEF Applying

LEMMA RowsDoneApplying ==
    ASSUME Frame, Applying, RowsDone
    PROVE  Applying'
<1> DEFINE N == {s \in Steps : Due(s, Arg)}
<1>1. /\ At("row") /\ "row" \in RowSteps /\ acc.i > Len(acc.rows)
      /\ UNCHANGED <<up, acc, ledger, jn>>
    BY DEF RowsDone, outside, RowSteps
<1>2. Goes(N)
    BY RowsDoneFrame
<1>3. \A s \in N : s.a = Arg /\ s.op \notin RowSteps \cup {"apply"}
    BY DEF Due, RowSteps
<1> HIDE DEF N
<1>4. /\ Arg \in Attempts /\ jn.closed[Arg] # None /\ acc.rows = jn.closed[Arg]
      /\ acc.i <= Len(jn.rec[Arg]) + 1 /\ Len(jn.rec[Arg]) \in Nat
      /\ acc.i \in Nat /\ Len(acc.rows) \in Nat /\ jn \in Journals
    BY <1>1, AtRow
<1>5. Complete(Arg)
    <2>1. jn.rec[Arg] # <<>> => Len(jn.rec[Arg]) <= Len(acc.rows)
        BY <1>4 DEF Applying, Recorded
    <2>2. jn.rec[Arg] = <<>> => Len(jn.rec[Arg]) = 0
        OBVIOUS
    <2>3. Len(jn.rec[Arg]) = Len(acc.rows)
        <3> DEFINE k == Len(jn.rec[Arg])
                   m == Len(acc.rows)
        <3>1. k \in Nat /\ m \in Nat /\ acc.i \in Nat /\ acc.i > m /\ acc.i <= k + 1 /\ (k <= m \/ k = 0)
            BY <1>1, <1>4, <2>1, <2>2
        <3> HIDE DEF k, m
        <3>2. k = m
            BY <3>1
        <3> QED
            BY <3>2 DEF k, m
    <2> QED
        BY <1>4, <2>3 DEF Complete
<1>6. up /\ todo # <<>> /\ ~Closing(Head(todo))
    BY <1>1 DEF At, Closing
<1>7. Grows /\ Answering'
    <2>1. Grows
        BY <1>1 DEF Grows
    <2> QED
        BY <1>1, <2>1, AnsweringKept DEF Applying
<1>8. Owing' /\ Scanned'
    BY <1>1, <1>2, <1>3, <1>6, <1>7, OwingKept, ScannedKept DEF Applying
<1>9. Rowing' /\ Recorded'
    BY <1>1, <1>2, <1>3, <1>4, <1>5, <1>6, <1>7, RowingKept, RecordedKept DEF Applying
<1> QED
    BY <1>7, <1>8, <1>9 DEF Applying

LEMMA AppliedApplying ==
    ASSUME Frame, Applying, IntentsApplied
    PROVE  Applying'
<1> DEFINE v == jn.applied \cup {Arg}
<1>1. /\ At("applied") /\ jn' = [jn EXCEPT !.applied = v]
      /\ UNCHANGED <<up, acc, ledger>>
    BY DEF IntentsApplied, outside
<1>2. Goes({}) /\ jn \in Journals /\ PlanOK /\ todo # <<>>
    BY <1>1, AtStep, AppliedFrame DEF Types
<1>3. Arg \in Attempts /\ Head(todo).a = Arg /\ Head(todo) \in In(todo) /\ Head(todo).op = "applied"
    BY <1>1, <1>2, AtStep, Rest DEF AttemptSteps
<1>4. Complete(Arg)
    BY <1>3 DEF Applying, Recorded
<1>5. jn'.applied = v /\ Alike(jn', jn, {"applied"})
    <2>1. v \in SUBSET Attempts
        BY <1>2, <1>3, JournalTypes
    <2> HIDE DEF v
    <2>2. LET k == [jn EXCEPT !.applied = v] IN k.applied = v /\ Alike(k, jn, {"applied"})
        BY <1>2, <2>1, SetApplied
    <2> QED
        BY <1>1, <2>2
<1>6. jn'.of = jn.of /\ jn'.task = jn.task /\ jn'.closed = jn.closed /\ jn'.rec = jn.rec
    BY <1>5 DEF Alike, Fields
<1>7. up /\ ~Closing(Head(todo))
    BY <1>1 DEF At, Closing
<1>8. Grows /\ Answering'
    <2>1. Grows
        BY <1>1, <1>6 DEF Grows
    <2> QED
        BY <1>1, <2>1, AnsweringKept DEF Applying
<1>9. Owing' /\ Scanned' /\ Rowing'
    BY <1>1, <1>2, <1>6, <1>7, <1>8, OwingKept, ScannedKept, RowingKept DEF Applying
<1>10. \A a \in Attempts :
         /\ jn'.rec[a] # <<>> => jn'.closed[a] # None /\ Len(jn'.rec[a]) <= Len(jn'.closed[a])
         /\ \A i \in 1 .. Len(jn'.rec[a]) : Answered(a, i, jn.rec[a][i])'
         /\ a \in jn'.applied => Complete(a)'
    BY <1>1, <1>4, <1>5, <1>6 DEF Applying, Recorded, Answered, Took, TurnedDown, Complete
<1>11. \A s \in In(todo') : s.op = "applied" => Complete(s.a)'
    <2>1. \A s \in In(todo') : s \in In(todo)
        BY <1>2, Rest DEF Goes
    <2> QED
        BY <1>6, <2>1 DEF Applying, Recorded, Complete
<1>12. Recorded'
    BY <1>10, <1>11 DEF Recorded
<1> QED
    BY <1>8, <1>9, <1>12 DEF Applying

\* A step that closes the attempts it is about pays what was owed.
LEMMA OwingPaid ==
    ASSUME Frame, Owing, up, todo # <<>>, NEW N, Goes(N), jn'.of = jn.of, jn'.task = jn.task,
           \A a \in Claimed : jn'.closed[a] = None =>
                jn.closed[a] = None /\ ~Closes(Head(todo), a)
    PROVE  Owing'
<1>1. PlanOK
    BY DEF Frame
<1>2. Claimed' = Claimed
    BY DEF Claimed
<1> SUFFICES ASSUME NEW a \in Claimed, jn.task[jn.of[a]], jn'.closed[a] = None
             PROVE  \E s \in In(todo') : Closes(s, a)
    BY <1>2 DEF Owing
<1>3. PICK s \in In(todo) : Closes(s, a)
    BY DEF Owing
<1>4. s \in In(todo')
    BY <1>1, <1>3, Rest DEF Goes
<1> QED
    BY <1>3, <1>4

LEMMA ContentsAreNotNone == \A f \in Contents : f # None
BY IntentAssumption DEF Contents

LEMMA FileApplying ==
    ASSUME Frame, Applying, ApplyFile
    PROVE  Applying'
<1> DEFINE q == Do("quarantine", Arg)
           u == Do("unlink", Arg)
           x == Do("row", Arg)
           t == Do("retry", Arg)
           v == [jn.closed EXCEPT ![Arg] = ClosedAs(Arg)]
<1>1. /\ At("apply") /\ UNCHANGED <<up, ledger, file>>
      /\ jn' = [jn EXCEPT !.closed = v]
    BY DEF ApplyFile, outside
<1>2. \/ Then(<<>>) \/ Then(<<q>>) \/ Then(<<u>>) \/ Then(<<t>>)
      \/ /\ file[Arg] # <<>> /\ ~Stale(Arg) /\ Then(<<x>>)
         /\ acc' = [NoAcc EXCEPT !.rows = file[Arg], !.was = ledger.state]
    BY DEF ApplyFile
<1>3. /\ todo # <<>> /\ Arg \in Attempts /\ PlanOK /\ jn \in Journals /\ Types /\ up
      /\ Head(todo).op = "apply" /\ Head(todo).a = Arg /\ Head(todo) \in In(todo)
    BY <1>1, AtStep, Rest DEF AttemptSteps, Types
<1>4. file[Arg] \in Contents /\ file[Arg] # None /\ ClosedAs(Arg) \in Contents \cup {None}
      /\ ClosedAs(Arg) # None
    <2>1. file[Arg] \in Contents /\ jn.closed[Arg] \in Contents \cup {None}
        BY <1>3, JournalTypes DEF Types
    <2>2. Word # "close" => jn.closed[Arg] # None
        BY <1>3 DEF Applying, Scanned, Word
    <2> QED
        BY <2>1, <2>2, ContentsAreNotNone DEF ClosedAs
<1>5. /\ Alike(jn', jn, {"closed"}) /\ jn'.closed[Arg] = ClosedAs(Arg)
      /\ \A a \in Attempts : a # Arg => jn'.closed[a] = jn.closed[a]
    <2>1. /\ v \in [Attempts -> Contents \cup {None}] /\ v[Arg] = ClosedAs(Arg)
          /\ \A a \in Attempts : a # Arg => v[a] = jn.closed[a]
        BY <1>3, <1>4, JournalTypes, Put
    <2> HIDE DEF v
    <2>2. LET k == [jn EXCEPT !.closed = v] IN k.closed = v /\ Alike(k, jn, {"closed"})
        BY <1>3, <2>1, SetClosed
    <2> QED
        BY <1>1, <2>1, <2>2
<1>6. jn'.of = jn.of /\ jn'.task = jn.task /\ jn'.rec = jn.rec /\ jn'.applied = jn.applied
    BY <1>5 DEF Alike, Fields
<1>7. /\ q.op = "quarantine" /\ u.op = "unlink" /\ x.op = "row" /\ x.a = Arg /\ t.op = "retry"
    BY StepFields
<1> DEFINE N == {q, u, x, t}
<1>8. Goes(N)
    BY ApplyFrame
<1>9. \A s \in N : s.op \notin {"apply", "applied"} /\ (s.op \in RowSteps => s = x)
    BY <1>7 DEF RowSteps
<1> HIDE DEF q, u, x, t, v, N
<1>10. Grows
    <2>1. jn.closed[Arg] # None => ClosedAs(Arg) = jn.closed[Arg]
        BY DEF ClosedAs
    <2> QED
        BY <1>1, <1>5, <2>1 DEF Grows
<1>11. Answering'
    BY <1>1, <1>10, AnsweringKept DEF Applying
<1>12. Owing'
    <2>1. ASSUME NEW a \in Claimed, jn'.closed[a] = None
          PROVE  jn.closed[a] = None /\ ~Closes(Head(todo), a)
        <3>1. a # Arg /\ a \in Attempts
            BY <1>4, <1>5, <2>1 DEF Claimed
        <3> QED
            BY <1>3, <1>5, <2>1, <3>1 DEF Closes
    <2> QED
        BY <1>3, <1>6, <1>8, <2>1, OwingPaid DEF Applying
<1>13. Scanned' /\ Recorded'
    BY <1>3, <1>6, <1>8, <1>9, <1>10, ScannedKept, RecordedKept DEF Applying
<1>14. \A s \in In(Tail(todo)) : s.op \notin RowSteps
    BY <1>3, NoMoreRows DEF ReportSteps
<1>15. Rowing'
    <2>1. CASE /\ file[Arg] # <<>> /\ ~Stale(Arg) /\ Then(<<x>>)
               /\ acc' = [NoAcc EXCEPT !.rows = file[Arg], !.was = ledger.state]
        <3>1. ClosedAs(Arg) = file[Arg]
            BY <1>4, <2>1 DEF Stale
        <3>2. acc'.rows = file[Arg] /\ acc'.i = 1
            BY <2>1 DEF NoAcc
        <3>3. Len(jn'.rec[Arg]) \in Nat
            BY <1>3, <1>6, JournalTypes, LenProperties
        <3>4. \A s : s = x => RowAt(s)'
            BY <1>4, <1>5, <1>7, <3>1, <3>2, <3>3 DEF RowAt
        <3> QED
            BY <1>8, <1>9, <1>14, <3>4 DEF Goes, Rowing
    <2>2. CASE Then(<<>>) \/ Then(<<q>>) \/ Then(<<u>>) \/ Then(<<t>>)
        <3>1. In(todo') \subseteq {q, u, t} \cup In(Tail(todo))
            BY <1>3, <2>2, InThen
        <3>2. \A s \in {q, u, t} : s.op \notin RowSteps
            BY <1>7 DEF RowSteps
        <3> QED
            BY <1>14, <3>1, <3>2 DEF Rowing
    <2> QED
        BY <1>2, <2>1, <2>2
<1> QED
    BY <1>11, <1>12, <1>13, <1>15 DEF Applying

LEMMA CloseApplying ==
    ASSUME Frame, Applying, close_intent_attempt \/ close_unclosed_attempts
    PROVE  Applying'
<1> DEFINE S == IF close_intent_attempt THEN {Arg} ELSE Claimed
<1>1. /\ At("close") \/ (At("close_all") /\ ~close_intent_attempt)
      /\ CloseAttempts(S) /\ UNCHANGED <<up, acc, ledger, file>>
    BY DEF close_intent_attempt, close_unclosed_attempts, outside
<1>2. Goes({}) /\ Types /\ todo # <<>> /\ up /\ Head(todo).a = Arg
    BY <1>1, AtStep, CloseFrame
<1>3. /\ Alike(jn', jn, {"closed"})
      /\ \A a \in Attempts : jn'.closed[a] =
            IF a \in S /\ jn.closed[a] = None THEN file[a] ELSE jn.closed[a]
    BY <1>1, <1>2, CloseType
<1>4. jn'.of = jn.of /\ jn'.task = jn.task /\ jn'.rec = jn.rec /\ jn'.applied = jn.applied
    BY <1>3 DEF Alike, Fields
<1>5. Grows
    BY <1>1, <1>3 DEF Grows
<1>6. Answering'
    BY <1>1, <1>5, AnsweringKept DEF Applying
<1>7. Owing'
    <2>1. ASSUME NEW a \in Claimed, jn'.closed[a] = None
          PROVE  jn.closed[a] = None /\ ~Closes(Head(todo), a)
        <3>1. a \in Attempts /\ file[a] # None
            BY <1>2, ContentsAreNotNone DEF Claimed, Types
        <3>2. a \notin S /\ jn.closed[a] = None
            BY <1>3, <2>1, <3>1
        <3> QED
            BY <1>1, <1>2, <2>1, <3>2 DEF Closes, Closing, At
    <2> QED
        BY <1>2, <1>4, <2>1, OwingPaid DEF Applying
<1>8. Scanned' /\ Recorded' /\ Rowing'
    BY <1>1, <1>2, <1>4, <1>5, ScannedKept, RecordedKept, RowingKept DEF Applying
<1> QED
    BY <1>6, <1>7, <1>8 DEF Applying

LEMMA ScanApplying ==
    ASSUME Frame, Applying, ScanFile
    PROVE  Applying'
<1> DEFINE N == {s \in Steps : /\ s.op \in {"quarantine", "apply", "recheck"} /\ s.a = Arg
                               /\ s.op = "apply" =>
                                    /\ s.w = "scan" /\ Arg \in Claimed /\ jn.task[jn.of[Arg]]}
<1>1. At("file") /\ UNCHANGED <<up, acc, ledger, jn>>
    BY DEF ScanFile, outside
<1>2. Goes(N)
    BY FileFrame
<1>3. /\ todo # <<>> /\ up /\ Arg \in Attempts /\ PlanOK /\ Head(todo).op = "file"
      /\ Head(todo).a = Arg
    BY <1>1, AtStep DEF AttemptSteps
<1>4. Arg \in Claimed /\ jn.task[jn.of[Arg]] => jn.closed[Arg] # None
    <2> SUFFICES ASSUME Arg \in Claimed, jn.task[jn.of[Arg]], jn.closed[Arg] = None PROVE FALSE
        OBVIOUS
    <2>1. PICK s \in In(todo) : Closes(s, Arg)
        BY <1>3 DEF Applying, Owing
    <2>2. s # Head(todo)
        BY <1>3, <2>1 DEF Closes, Closing
    <2>3. Precedes(Head(todo), s)
        BY <1>3, <2>2, Rest
    <2> QED
        BY <1>3, <2>1, <2>3 DEF Precedes, Closes, Opening
<1>5. \A s \in N : /\ s.op \notin RowSteps \cup {"applied"}
                   /\ s.op = "apply" => s.a \in Attempts /\ jn.closed[s.a] # None
    BY <1>3, <1>4 DEF RowSteps
<1> HIDE DEF N
<1>6. Grows
    BY <1>1 DEF Grows
<1>7. ~Closing(Head(todo))
    BY <1>3 DEF Closing
<1>8. Owing' /\ Scanned'
    BY <1>1, <1>2, <1>3, <1>5, <1>6, <1>7, OwingKept, ScannedKept DEF Applying
<1>9. Rowing' /\ Recorded' /\ Answering'
    BY <1>1, <1>2, <1>3, <1>5, <1>6, RowingKept, RecordedKept, AnsweringKept DEF Applying
<1> QED
    BY <1>8, <1>9 DEF Applying

LEMMA AdoptApplying ==
    ASSUME Frame, Applying, adopt_orphan_attempt
    PROVE  Applying'
<1> DEFINE N == {s \in Steps : s.op \in {"close", "quarantine", "resolve"} /\ s.a \in Attempts}
<1>1. At("adopt") /\ UNCHANGED <<up, acc, ledger>>
    BY DEF adopt_orphan_attempt, outside
<1>2. Goes(N) /\ Alike(jn', jn, {"of", "defer", "pending"}) /\ Adopting
    BY AdoptFrame
<1>3. /\ todo # <<>> /\ up /\ PlanOK /\ Head(todo).op = "adopt"
    BY <1>1, AtStep
<1>4. \A s \in N : s.op \notin RowSteps \cup {"apply", "applied"}
    BY DEF RowSteps
<1> HIDE DEF N
<1>5. jn'.task = jn.task /\ jn'.closed = jn.closed /\ jn'.rec = jn.rec /\ jn'.applied = jn.applied
    BY <1>2 DEF Alike, Fields
<1>6. Grows
    BY <1>1, <1>5 DEF Grows
<1>7. Owing'
    <2> SUFFICES ASSUME NEW a \in Attempts, jn'.of[a] # 0, jn.task[jn'.of[a]], jn.closed[a] = None
                 PROVE  \E s \in In(todo') : Closes(s, a)
        BY <1>5 DEF Owing, Claimed
    <2>1. CASE Do("close", a) \in In(todo')
        BY <2>1, StepFields DEF Closes, Closing
    <2>2. CASE Do("close", a) \notin In(todo')
        <3>1. jn'.of[a] = jn.of[a]
            BY <1>2, <2>2 DEF Adopting
        <3>2. PICK s \in In(todo) : Closes(s, a)
            BY <1>1, <1>3, <3>1 DEF Applying, Owing, Claimed
        <3>3. s # Head(todo)
            BY <1>3, <3>2 DEF Closes, Closing
        <3>4. s \in In(todo')
            BY <1>2, <1>3, <3>3, Rest DEF Goes
        <3> QED
            BY <3>2, <3>4
    <2> QED
        BY <2>1, <2>2
<1>8. Scanned'
    BY <1>2, <1>3, <1>4, <1>6, ScannedKept DEF Applying
<1>9. Rowing' /\ Recorded' /\ Answering'
    BY <1>1, <1>2, <1>3, <1>4, <1>5, <1>6, RowingKept, RecordedKept, AnsweringKept DEF Applying
<1> QED
    BY <1>7, <1>8, <1>9 DEF Applying

\* A new list of steps, none of which is about rows.
LEMMA ApplyingAnew ==
    ASSUME Applying, \A s \in In(todo') : s.op \notin RowSteps \cup {"applied"},
           \A s \in In(todo') : s.op = "apply" => s.w = "close",
           ledger'.yes = ledger.yes, ledger'.no = ledger.no,
           jn'.closed = jn.closed, jn'.rec = jn.rec, jn'.applied = jn.applied, Owing'
    PROVE  Applying'
<1>1. Grows
    BY DEF Grows
<1>2. Answering'
    BY <1>1, AnsweringKept DEF Applying
<1>3. Scanned' /\ Rowing'
    BY DEF Scanned, Rowing
<1>4. Recorded'
    BY DEF Applying, Recorded, Answered, Took, TurnedDown, Complete
<1> QED
    BY <1>2, <1>3, <1>4 DEF Applying

LEMMA StartApplying ==
    ASSUME Frame, Applying, start_turn
    PROVE  Applying'
<1>1. /\ todo' = <<>> /\ Alike(jn', jn, {"last", "open", "msg", "task"})
      /\ \A a \in Attempts : a <= jn.last => jn'.task[a] = jn.task[a]
    BY StartFrame
<1>2. At("start") /\ Then(<<>>) /\ UNCHANGED <<up, ledger>>
    BY DEF start_turn
<1>3. up /\ todo # <<>> /\ PlanOK /\ Head(todo).op = "start"
    BY <1>2, AtStep
<1>4. In(todo') = {} /\ In(Tail(todo)) = {}
    BY <1>1, <1>2, <1>3, ShortPlans, InThen
<1>5. /\ jn'.of = jn.of /\ jn'.closed = jn.closed /\ jn'.rec = jn.rec /\ jn'.applied = jn.applied
    BY <1>1 DEF Alike, Fields
<1>6. Owing'
    <2> SUFFICES ASSUME NEW a \in Attempts, jn.of[a] # 0, jn'.task[jn.of[a]], jn.closed[a] = None
                 PROVE  FALSE
        BY <1>5 DEF Owing, Claimed
    <2>1. jn.of[a] \in Attempts /\ jn.of[a] <= jn.last
        <3>1. jn.of[a] \in 0 .. MaxAttempts /\ MaxAttempts \in Nat
            BY JournalTypes, Ids DEF Frame, Types
        <3> QED
            BY <3>1 DEF Frame, Begun, Attempts
    <2>2. jn.task[jn.of[a]]
        BY <1>1, <2>1
    <2>3. PICK s \in In(todo) : Closes(s, a)
        BY <1>3, <2>2 DEF Applying, Owing, Claimed
    <2>4. s = Head(todo)
        BY <1>3, <1>4, Rest
    <2> QED
        BY <1>3, <2>3, <2>4 DEF Closes, Closing
<1> QED
    BY <1>2, <1>4, <1>5, <1>6, ApplyingAnew

LEMMA CollectApplying ==
    ASSUME Frame, Applying, NEW result \in {"ok", "infra", "failure"}, collect_turn(result)
    PROVE  Applying'
<1> DEFINE x == Step("apply", turn, "close")
           f == Step("finish", turn, result)
<1>1. /\ todo = <<>> /\ turn \in Attempts /\ Alike(jn', jn, {"of"}) /\ jn'.of[turn] = turn
      /\ \A b \in Attempts : b # turn => jn'.of[b] = jn.of[b]
      /\ In(todo') \subseteq {x, f}
      /\ jn.task[turn] => x \in In(todo')
    BY CollectFrame
<1>2. up /\ UNCHANGED <<up, ledger>>
    BY DEF collect_turn, outside
<1>3. x.op = "apply" /\ x.a = turn /\ x.w = "close" /\ f.op = "finish"
    BY StepFields
<1> HIDE DEF x, f
<1>4. /\ jn'.task = jn.task /\ jn'.closed = jn.closed /\ jn'.rec = jn.rec /\ jn'.applied = jn.applied
    BY <1>1 DEF Alike, Fields
<1>5. Owing'
    <2> SUFFICES ASSUME NEW a \in Attempts, jn'.of[a] # 0, jn.task[jn'.of[a]], jn.closed[a] = None
                 PROVE  \E s \in In(todo') : Closes(s, a)
        BY <1>4 DEF Owing, Claimed
    <2>1. CASE a = turn
        <3>1. x \in In(todo') /\ Closes(x, a)
            BY <1>1, <1>3, <2>1 DEF Closes, Closing
        <3> QED
            BY <3>1
    <2>2. CASE a # turn
        <3>1. jn.of[a] # 0 /\ jn.task[jn.of[a]]
            BY <1>1, <2>2
        <3>2. In(todo) = {}
            BY <1>1, ShortPlans
        <3> QED
            BY <1>2, <3>1, <3>2 DEF Applying, Owing, Claimed
    <2> QED
        BY <2>1, <2>2
<1>6. \A s \in In(todo') : s.op \notin RowSteps \cup {"applied"} /\ (s.op = "apply" => s.w = "close")
    BY <1>1, <1>3 DEF RowSteps
<1> QED
    BY <1>2, <1>4, <1>5, <1>6, ApplyingAnew

LEMMA AnewApplying ==
    ASSUME Frame, Applying, Poll \/ Restart \/ Crash
    PROVE  Applying'
<1>1. CASE Poll
    <2>1. /\ todo = <<>> /\ UNCHANGED <<up, ledger, jn>>
          /\ In(todo') \subseteq {s \in Steps : s.op \in {"reports", "orphans", "scan", "dlq", "choose"}}
        BY <1>1, PollFrame DEF Poll, outside
    <2>2. In(todo) = {}
        BY <2>1, ShortPlans
    <2>3. Owing'
        BY <2>1, <2>2 DEF Applying, Owing, Claimed
    <2>4. \A s \in In(todo') : s.op \notin RowSteps \cup {"applied", "apply"}
        BY <2>1 DEF RowSteps
    <2> QED
        BY <2>1, <2>3, <2>4, ApplyingAnew
<1>2. CASE Restart
    <2>1. /\ UNCHANGED <<ledger, jn>>
          /\ \E c \in In(todo') : c.op = "close_all"
          /\ In(todo') \subseteq {s \in Steps : s.op \in
                {"await", "adopt", "gone", "close_all", "reports", "orphans", "scan", "sweep", "dlq"}}
        BY <1>2, RestartFrame DEF Restart, outside
    <2>2. Owing'
        BY <2>1 DEF Owing, Closes, Closing
    <2>3. \A s \in In(todo') : s.op \notin RowSteps \cup {"applied", "apply"}
        BY <2>1 DEF RowSteps
    <2> QED
        BY <2>1, <2>2, <2>3, ApplyingAnew
<1>3. CASE Crash
    <2>1. /\ UNCHANGED <<ledger, jn>> /\ ~up' /\ todo' = <<>>
        BY <1>3, CrashFrame DEF outside
    <2>2. Owing' /\ In(todo') = {}
        BY <2>1, ShortPlans DEF Owing
    <2> QED
        BY <2>1, <2>2, ApplyingAnew
<1> QED
    BY <1>1, <1>2, <1>3

\* Nothing of what applying rows goes by is touched.
LEMMA ApplyingAlone ==
    ASSUME Applying, UNCHANGED <<up, todo, acc, jn>>, ledger'.yes = ledger.yes, ledger'.no = ledger.no
    PROVE  Applying'
BY DEF Applying, Owing, Scanned, Rowing, RowAt, Recorded, Answering, Claimed, CauseFits, Answered,
       Took, TurnedDown, Complete

LEMMA InitApplying ==
    ASSUME Init
    PROVE  Applying
<1>1. /\ up = FALSE /\ In(todo) = {} /\ ledger.yes = {} /\ ledger.no = {}
      /\ \A a \in Attempts : jn.rec[a] = <<>>
      /\ jn.applied = {}
    BY ShortPlans DEF Init, EmptyJournal
<1> QED
    BY <1>1 DEF Applying, Owing, Scanned, Rowing, Recorded, Answering

LEMMA ApplyingNext ==
    ASSUME Frame, Applying, [Next]_vars
    PROVE  Applying'
<1>1. CASE UNCHANGED vars
    BY <1>1, ApplyingAlone DEF vars
<1>2. CASE Handler
    BY <1>2, QuietSteps, ReportingSteps, NotingSteps, PreparingSteps, EndingSteps, AskingSteps,
       FileApplying, RecordedApplying, RefusedApplying, ReportRowApplying, BudgetApplying,
       RecordApplying, RowsDoneApplying, AppliedApplying, StartApplying, AdoptApplying,
       CloseApplying, ScanApplying
       DEF Handler
<1>3. CASE Loop
    BY <1>3, AnewApplying, CollectApplying DEF Loop
<1>4. CASE Restart \/ Crash
    BY <1>4, AnewApplying
<1>5. CASE Elsewhere
    <2>1. ledger'.yes = ledger.yes /\ ledger'.no = ledger.no
        <3>1. ledger \in Ledgers
            BY DEF Frame, Types
        <3> QED
            BY <1>5, <3>1 DEF Elsewhere, Workers, append_intent, WorkerExits, OwnerCancels,
                              DeliveryFails, Ledgers
    <2> QED
        BY <1>5, <2>1, OutsideFrame, ApplyingAlone
<1> QED
    BY <1>1, <1>2, <1>3, <1>4, <1>5 DEF Next, Elsewhere

-----------------------------------------------------------------------------
\* The ledger holds, for row i of an attempt, the row that stood at place i when
\* the attempt was closed: whatever a leftover worker writes later, and however
\* often a crash has the file read again, no other row is applied (the digest of
\* intents.closed, _close_intent_attempt before every scan).
THEOREM RowsStayAsClosed == Spec => []RowsAsClosed
<1>1. Init => Frame /\ Applying
    BY InitFrame, InitApplying
<1>2. Frame /\ Applying /\ [Next]_vars => Frame' /\ Applying'
    BY FrameNext, ApplyingNext
<1>3. Applying => RowsAsClosed
    BY DEF Applying, Answering, CauseFits, RowsAsClosed
<1> QED
    BY <1>1, <1>2, <1>3, PTL DEF Spec

\* What intent.ledger says of a row is what the ledger did with it, across kills,
\* retries and repeated applications, and an applied file was answered to the
\* last row.
THEOREM JournalStaysTrue == Spec => []JournalAgrees
<1>1. Init => Frame /\ Applying
    BY InitFrame, InitApplying
<1>2. Frame /\ Applying /\ [Next]_vars => Frame' /\ Applying'
    BY FrameNext, ApplyingNext
<1>3. Frame /\ Applying => JournalAgrees
    <2> SUFFICES ASSUME Frame, Applying, NEW a \in Attempts
                 PROVE  /\ \A i \in DOMAIN jn.rec[a] :
                             /\ jn.rec[a][i] \in Reports => Accepted(<<"row", a, i>>)
                             /\ jn.rec[a][i] = "rejected" => ~Accepted(<<"row", a, i>>)
                        /\ a \in jn.applied => Len(jn.rec[a]) = Len(jn.closed[a])
        BY DEF JournalAgrees
    <2>1. jn.rec[a] \in Seq(Outcomes)
        BY JournalTypes DEF Frame, Types
    <2>2. ASSUME NEW i \in DOMAIN jn.rec[a]
          PROVE  /\ jn.rec[a][i] \in Reports => Accepted(<<"row", a, i>>)
                 /\ jn.rec[a][i] = "rejected" => ~Accepted(<<"row", a, i>>)
        <3> DEFINE c == <<"row", a, i>>
                   o == jn.rec[a][i]
        <3>1. Answered(a, i, o)
            <4>1. i \in 1 .. Len(jn.rec[a])
                BY <2>1
            <4> QED
                BY <4>1 DEF Applying, Recorded
        <3>2. o \in Reports => Accepted(c)
            <4>1. [cause |-> c, ev |-> o].cause = c
                OBVIOUS
            <4> HIDE DEF c, o
            <4> QED
                BY <3>1, <4>1 DEF Answered, Took, Accepted, c
        <3>3. o = "rejected" => ~Accepted(c)
            <4> SUFFICES ASSUME o = "rejected", NEW y \in ledger.yes, y.cause = c PROVE FALSE
                BY DEF Accepted
            <4>1. c \notin ledger.no
                BY DEF Applying, Answering
            <4>2. CauseFits(y) /\ c[1] = "row" /\ c[2] = a /\ c[3] = i
                BY DEF Applying, Answering
            <4>3. jn.closed[a][i] \in Reports
                BY <4>2 DEF CauseFits
            <4> QED
                BY <3>1, <4>1, <4>3 DEF Answered, TurnedDown
        <3> QED
            BY <3>2, <3>3
    <2>3. a \in jn.applied => Len(jn.rec[a]) = Len(jn.closed[a])
        BY DEF Applying, Recorded, Complete
    <2> QED
        BY <2>2, <2>3
<1> QED
    BY <1>1, <1>2, <1>3, PTL DEF Spec

-----------------------------------------------------------------------------
(***************************************************************************)
(* One outcome, what is told of it (Outcome), and the message that follows *)
(* an attempt (Following).                                                 *)
(***************************************************************************)
\* The steps both are about.
Telltale == RowSteps \cup ReportSteps \cup {"resend", "self"}

\* The journal says the same of rows and reports.
Unsaid ==
    /\ jn'.report = jn.report /\ jn'.rec = jn.rec
    /\ \A a \in Attempts : jn.closed[a] # None => jn'.closed[a] = jn.closed[a]

\* No receipt and no continuation is sent.
Unposted ==
    \A k \in {"c", "r"}, a \in Attempts :
        inbox'[<<k, a>>] # "absent" => inbox[<<k, a>>] # "absent"

\* A step that has nothing to do with either.
Aside ==
    /\ \A s \in In(todo') : s.op \in Telltale => s \in In(todo)
    /\ acc' = acc \/ \A s \in In(todo') : s.op \notin RowSteps
    /\ told' = told /\ ledger.yes \subseteq ledger'.yes /\ Unsaid /\ Unposted

LEMMA BackedStays ==
    ASSUME ledger.yes \subseteq ledger'.yes, NEW r, NEW w, Backed(r, w)
    PROVE  Backed(r, w)'
BY DEF Backed, ReportOf

LEMMA TellingAside ==
    ASSUME Telling, Aside
    PROVE  Telling'
<1>1. /\ told' = told /\ jn'.report = jn.report
      /\ \A r, w : Backed(r, w) => Backed(r, w)'
    BY BackedStays DEF Aside, Unsaid
<1>2. /\ \A r \in ReportIds : \A k \in 1 .. Len(told'[r]) : Backed(r, told[r][k])'
      /\ \A r \in ReportIds : jn'.report[r].st # "none" => Backed(r, jn.report[r].says)'
    <2>1. ASSUME NEW r \in ReportIds, NEW k \in 1 .. Len(told[r]) PROVE Backed(r, told[r][k])'
        <3>1. Backed(r, told[r][k])
            BY DEF Telling
        <3> QED
            BY <1>1, <3>1 DEF Backed, ReportOf, Aside
    <2>2. ASSUME NEW r \in ReportIds, jn.report[r].st # "none" PROVE Backed(r, jn.report[r].says)'
        <3>1. Backed(r, jn.report[r].says)
            BY <2>2 DEF Telling
        <3> QED
            BY <1>1, <3>1 DEF Backed, ReportOf, Aside
    <2> QED
        BY <1>1, <2>1, <2>2
<1>3. ASSUME NEW s \in In(todo')
      PROVE  /\ s.op \in {"report", "send"} => Backed(s.a, s.w)'
             /\ s.op \in {"send", "sent", "unsent", "resend"} => jn'.report[s.a].st # "none"
             /\ s.op \in RowSteps /\ acc'.final # "none" => Backed(s.a, acc.final)'
    <2>1. CASE s \notin In(todo)
        BY <2>1 DEF Aside, Telltale, ReportSteps
    <2>2. CASE s \in In(todo)
        <3>1. /\ s.op \in {"report", "send"} => Backed(s.a, s.w)'
              /\ s.op \in {"send", "sent", "unsent", "resend"} => jn'.report[s.a].st # "none"
            BY <1>1, <2>2 DEF Telling
        <3>2. ASSUME s.op \in RowSteps, acc'.final # "none" PROVE Backed(s.a, acc.final)'
            <4>1. acc' = acc
                BY <3>2 DEF Aside
            <4>2. Backed(s.a, acc.final)
                BY <2>2, <3>2, <4>1 DEF Telling
            <4> QED
                BY <4>1, <4>2 DEF Backed, ReportOf, Aside
        <3> QED
            BY <3>1, <3>2
    <2> QED
        BY <2>1, <2>2
<1> QED
    BY <1>2, <1>3 DEF Telling

\* A step that has nothing to do with rows and the messages that follow them.
Unmoved ==
    /\ \A s \in In(todo') : s.op \in RowSteps \cup {"self"} => s \in In(todo)
    /\ acc' = acc \/ \A s \in In(todo') : s.op \notin RowSteps
    /\ jn'.rec = jn.rec /\ Unposted
    /\ \A a \in Attempts : jn.closed[a] # None => jn'.closed[a] = jn.closed[a]

LEMMA AsideIsUnmoved == Aside => Unmoved
BY DEF Aside, Unmoved, Unsaid, Telltale

\* What is on record stays there.
LEMMA ContinuesStays ==
    ASSUME Unmoved, NEW a \in Attempts
    PROVE  /\ Continues(a) => Continues(a)'
           /\ \A o : OnRecord(a, o) => OnRecord(a, o)'
BY DEF Unmoved, Continues, Complete, OnRecord

LEMMA FollowingAside ==
    ASSUME Frame, Following, Unmoved
    PROVE  Following'
<1>1. \A a \in Attempts : /\ Continues(a) => Continues(a)'
                          /\ \A o : OnRecord(a, o) => OnRecord(a, o)'
    BY ContinuesStays
<1>2. \A s \in In(todo) : s.op \in RowSteps \cup {"self"} => s.a \in Attempts
    BY DEF Frame, PlanOK, StepOK, AttemptSteps
<1>3. ASSUME NEW s \in In(todo'), s.op \in RowSteps PROVE Counts(s)'
    <2>1. s \in In(todo) /\ acc' = acc /\ jn'.rec = jn.rec
        BY <1>3 DEF Unmoved
    <2>2. Counts(s)
        BY <1>3, <2>1 DEF Following
    <2> QED
        BY <2>1, <2>2 DEF Counts, OnRecord
<1>4. ASSUME NEW s \in In(todo'), s.op = "self"
      PROVE  IF s.w = "c" THEN Continues(s.a)' ELSE OnRecord(s.a, "rejected")'
    <2>1. s \in In(todo)
        BY <1>4 DEF Unmoved
    <2> QED
        BY <1>1, <1>2, <1>4, <2>1 DEF Following
<1>5. ASSUME NEW a \in Attempts
      PROVE  /\ inbox'[<<"c", a>>] # "absent" => Continues(a)'
             /\ inbox'[<<"r", a>>] # "absent" => OnRecord(a, "rejected")'
    BY <1>1 DEF Following, Unmoved, Unposted
<1> QED
    BY <1>3, <1>4, <1>5 DEF Following

LEMMA AsideStep ==
    ASSUME Frame, NEW h, At(h), NEW N, Goes(N), \A s \in N : s.op \notin Telltale,
           acc' = acc, told' = told, ledger.yes \subseteq ledger'.yes, Unsaid, Unposted
    PROVE  Aside
<1>1. \A s \in In(Tail(todo)) : s \in In(todo)
    BY AtStep, Rest
<1> QED
    BY <1>1 DEF Aside, Goes

LEMMA UnsaidAlike ==
    ASSUME NEW F, Alike(jn', jn, F), F \cap {"report", "rec", "closed"} = {}
    PROVE  Unsaid
BY DEF Unsaid, Alike, Fields

LEMMA UnsaidSame == jn' = jn => Unsaid
BY DEF Unsaid

LEMMA UnsaidFields ==
    ASSUME jn \in Journals
    PROVE  /\ \A v : jn' = [jn EXCEPT !.tainted = v] => Unsaid
           /\ \A v : jn' = [jn EXCEPT !.retries = v] => Unsaid
           /\ \A v : jn' = [jn EXCEPT !.applied = v] => Unsaid
           /\ \A v : jn' = [jn EXCEPT !.prep = v] => Unsaid
           /\ \A v : jn' = [jn EXCEPT !.errs = v] => Unsaid
           /\ \A v : jn' = [jn EXCEPT !.dlq = v] => Unsaid
           /\ \A v, w : jn' = [jn EXCEPT !.missing = v, !.missed = w] => Unsaid
<1> DEFINE Kept == jn'.report = jn.report /\ jn'.rec = jn.rec /\ jn'.closed = jn.closed
<1>1. Kept => Unsaid
    BY DEF Unsaid
<1>2. \A v : jn' = [jn EXCEPT !.tainted = v] => Kept
    BY DEF Journals
<1>3. \A v : jn' = [jn EXCEPT !.retries = v] => Kept
    BY DEF Journals
<1>4. \A v : jn' = [jn EXCEPT !.applied = v] => Kept
    BY DEF Journals
<1>5. \A v : jn' = [jn EXCEPT !.prep = v] => Kept
    BY DEF Journals
<1>6. \A v : jn' = [jn EXCEPT !.errs = v] => Kept
    BY DEF Journals
<1>7. \A v : jn' = [jn EXCEPT !.dlq = v] => Kept
    BY DEF Journals
<1>8. \A v, w : jn' = [jn EXCEPT !.missing = v, !.missed = w] => Kept
    BY DEF Journals
<1> HIDE DEF Kept
<1> QED
    BY <1>1, <1>2, <1>3, <1>4, <1>5, <1>6, <1>7, <1>8, Zenon

LEMMA UnpostedEnds ==
    ASSUME Types, inbox' = inbox \/ \E m, st : inbox' = Marked(m, st)
    PROVE  Unposted
<1>1. inbox \in Inboxes
    BY DEF Types, Inboxes
<1>2. \A k \in {"c", "r"}, a \in Attempts : <<k, a>> \in MsgIds
    BY DEF MsgIds
<1>3. ASSUME NEW m, NEW st, inbox' = Marked(m, st), NEW x \in MsgIds, inbox'[x] # "absent"
      PROVE  inbox[x] # "absent"
    BY <1>1, <1>3 DEF Marked, Open, Inboxes
<1> QED
    BY <1>2, <1>3 DEF Unposted

\* Such steps, with the journal as it was.
LEMMA AsidePlain ==
    ASSUME Frame,
           \/ quarantine_intent \/ unlink_intent \/ ContextDone \/ WorkDone \/ WorkFailed
           \/ choose_message \/ Pickup \/ AwaitOrphan \/ retry_deferred_orphans \/ scan_intents
           \/ ScanFile \/ recheck_missing_report_after_retry \/ sweep_missing_reports
    PROVE  Aside
<1> DEFINE Plain(N) == Goes(N) /\ \A s \in N : s.op \notin Telltale
           Same == acc' = acc /\ told' = told /\ jn' = jn /\ ledger.yes \subseteq ledger'.yes /\ Unposted
<1>1. ASSUME NEW h, At(h), NEW N, Plain(N), Same PROVE Aside
    BY <1>1, UnsaidSame, AsideStep
<1>2. ASSUME inbox' = inbox \/ \E m, st : inbox' = Marked(m, st) PROVE Unposted
    BY <1>2, UnpostedEnds DEF Frame
<1>3. CASE quarantine_intent
    <2>1. Plain({Do("taint", Arg)})
        BY <1>3, QuarantineFrame, StepFields DEF Telltale, RowSteps, ReportSteps
    <2> QED
        BY <1>1, <1>2, <1>3, <2>1 DEF quarantine_intent
<1>4. CASE unlink_intent \/ ContextDone
    <2>1. Plain({})
        BY <1>4, UnlinkFrame, ContextFrame
    <2> QED
        BY <1>1, <1>2, <1>4, <2>1 DEF unlink_intent, ContextDone
<1>5. CASE WorkDone \/ WorkFailed \/ AwaitOrphan
    <2>1. Plain({})
        BY <1>5, WorkDoneFrame, WorkFailedFrame, AwaitFrame
    <2> QED
        BY <1>1, <1>2, <1>5, <2>1 DEF WorkDone, WorkFailed, AwaitOrphan, outside
<1>6. CASE choose_message
    <2>1. Plain({Do("start", 0), Do("prepare", 0)})
        BY <1>6, ChooseFrame, StepFields DEF Telltale, RowSteps, ReportSteps
    <2> QED
        BY <1>1, <1>2, <1>6, <2>1 DEF choose_message, outside
<1>7. CASE Pickup
    <2> DEFINE N == {s \in Steps : s.op \in LastSteps /\ s.a = 0}
    <2>1. Plain(N)
        BY <1>7, PickupFrame DEF Telltale, RowSteps, ReportSteps, LastSteps
    <2>2. ledger.yes \subseteq ledger'.yes
        <3> DEFINE c == <<"start", 0, 0>>
        <3>1. PICK r \in Rcs : task_event(c, "start", r)
            BY <1>7 DEF Pickup
        <3>2. c \in Causes /\ "start" \in Events /\ Types
            BY CauseTypes DEF Events, Frame
        <3> HIDE DEF c
        <3> QED
            BY <3>1, <3>2, LedgerMoves DEF Moves
    <2> HIDE DEF N
    <2> QED
        BY <1>1, <1>2, <1>7, <2>1, <2>2 DEF Pickup
<1>8. CASE retry_deferred_orphans
    <2>1. Plain({s \in Steps : s.op = "adopt"})
        BY <1>8, OrphansFrame DEF Telltale, RowSteps, ReportSteps
    <2> QED
        BY <1>1, <1>2, <1>8, <2>1 DEF retry_deferred_orphans, outside
<1>9. CASE scan_intents
    <2>1. Plain({s \in Steps : s.op = "file"})
        BY <1>9, ScanFrame DEF Telltale, RowSteps, ReportSteps
    <2> QED
        BY <1>1, <1>2, <1>9, <2>1 DEF scan_intents, outside
<1>10. CASE ScanFile
    <2> DEFINE N == {s \in Steps : /\ s.op \in {"quarantine", "apply", "recheck"} /\ s.a = Arg
                                   /\ s.op = "apply" =>
                                        /\ s.w = "scan" /\ Arg \in Claimed /\ jn.task[jn.of[Arg]]}
    <2>1. Plain(N)
        BY <1>10, FileFrame DEF Telltale, RowSteps, ReportSteps
    <2> HIDE DEF N
    <2> QED
        BY <1>1, <1>2, <1>10, <2>1 DEF ScanFile, outside
<1>11. CASE recheck_missing_report_after_retry \/ sweep_missing_reports
    <2>1. Plain({s \in Steps : s.op = "missing"})
        BY <1>11, CheckFrame DEF Telltale, RowSteps, ReportSteps
    <2> QED
        BY <1>1, <1>2, <1>11, <2>1 DEF recheck_missing_report_after_retry, sweep_missing_reports, outside
<1> QED
    BY <1>3, <1>4, <1>5, <1>6, <1>7, <1>8, <1>9, <1>10, <1>11

\* Such steps that note something in the journal.
LEMMA AsideNoting ==
    ASSUME Frame,
           \/ Taint \/ intent_retry \/ IntentsApplied \/ TaskNoReport \/ DlqProcessed
           \/ message_engine_error
    PROVE  Aside
<1> DEFINE Plain(N) == Goes(N) /\ \A s \in N : s.op \notin Telltale
           Same == acc' = acc /\ told' = told /\ ledger' = ledger /\ inbox' = inbox
<1> jn \in Journals
    BY DEF Frame, Types
<1>1. ASSUME NEW h, At(h), NEW N, Plain(N), Same, Unsaid PROVE Aside
    BY <1>1, AsideStep DEF Unposted
<1>2. CASE Taint
    <2> DEFINE v == jn.tainted \cup {Arg}
    <2>1. jn' = [jn EXCEPT !.tainted = v] /\ At("taint") /\ Same
        BY <1>2 DEF Taint, outside
    <2> HIDE DEF v
    <2>2. Unsaid
        BY <2>1, UnsaidFields, Zenon
    <2>3. Plain({})
        BY <1>2, TaintFrame
    <2> QED
        BY <1>1, <2>1, <2>2, <2>3
<1>3. CASE intent_retry
    <2> DEFINE v == [jn.retries EXCEPT ![Arg] = @ + 1]
    <2>1. jn' = [jn EXCEPT !.retries = v] /\ At("retry") /\ Same
        BY <1>3 DEF intent_retry, outside
    <2> HIDE DEF v
    <2>2. Unsaid
        BY <2>1, UnsaidFields, Zenon
    <2>3. Plain({Do("quarantine", Arg)})
        BY <1>3, RetryFrame, StepFields DEF Telltale, RowSteps, ReportSteps
    <2> QED
        BY <1>1, <2>1, <2>2, <2>3
<1>4. CASE IntentsApplied
    <2> DEFINE v == jn.applied \cup {Arg}
    <2>1. jn' = [jn EXCEPT !.applied = v] /\ At("applied") /\ Same
        BY <1>4 DEF IntentsApplied, outside
    <2> HIDE DEF v
    <2>2. Unsaid
        BY <2>1, UnsaidFields, Zenon
    <2>3. Plain({})
        BY <1>4, AppliedFrame
    <2> QED
        BY <1>1, <2>1, <2>2, <2>3
<1>5. CASE TaskNoReport
    <2> DEFINE v == jn.missing + 1
    <2>1. jn' = [jn EXCEPT !.missing = v, !.missed = Arg] /\ At("no_report") /\ Same
        BY <1>5 DEF TaskNoReport, outside
    <2> HIDE DEF v
    <2>2. Unsaid
        BY <2>1, UnsaidFields, Zenon
    <2>3. Plain({})
        BY <1>5, NoReportFrame
    <2> QED
        BY <1>1, <2>1, <2>2, <2>3
<1>6. CASE DlqProcessed
    <2>1. jn' = [jn EXCEPT !.dlq = TRUE] /\ At("dlq_done") /\ Same
        BY <1>6 DEF DlqProcessed, outside
    <2>2. Unsaid
        BY <2>1, UnsaidFields, Zenon
    <2>3. Plain({})
        BY <1>6, DlqDoneFrame
    <2> QED
        BY <1>1, <2>1, <2>2, <2>3
<1>7. CASE message_engine_error
    <2> DEFINE v == [jn.errs EXCEPT ![work.msg] = @ + 1]
    <2>1. jn' = [jn EXCEPT !.errs = v] /\ At("engine") /\ Same
        BY <1>7 DEF message_engine_error, outside
    <2> HIDE DEF v
    <2>2. Unsaid
        BY <2>1, UnsaidFields, Zenon
    <2>3. Plain({Do("work_failed", 0)})
        BY <1>7, EngineFrame, StepFields DEF Telltale, RowSteps, ReportSteps
    <2> QED
        BY <1>1, <2>1, <2>2, <2>3
<1> QED
    BY <1>2, <1>3, <1>4, <1>5, <1>6, <1>7

LEMMA AsideChanging ==
    ASSUME Frame,
           \/ prepare_task_work \/ Activate \/ finish_result \/ OrphanGone \/ ResolveOrphan
           \/ adopt_orphan_attempt \/ close_intent_attempt \/ close_unclosed_attempts
    PROVE  Aside
<1> DEFINE Plain(N) == Goes(N) /\ \A s \in N : s.op \notin Telltale
           Same == acc' = acc /\ told' = told /\ ledger' = ledger
<1> Types /\ jn \in Journals
    BY DEF Frame, Types
<1>1. Unposted
    <2>1. inbox' = inbox \/ \E m, st : inbox' = Marked(m, st)
        BY DEF prepare_task_work, Activate, finish_result, OrphanGone, ResolveOrphan,
               adopt_orphan_attempt, close_intent_attempt, close_unclosed_attempts, outside
    <2> QED
        BY <2>1, UnpostedEnds
<1>2. ASSUME NEW h, At(h), NEW N, Plain(N), Same, Unsaid PROVE Aside
    BY <1>1, <1>2, AsideStep
<1>3. CASE prepare_task_work \/ Activate
    <2> DEFINE N == {s \in Steps : s.op \in LastSteps \cup {"work_failed"} /\ s.a = 0}
               M == {s \in Steps : s.op \in LastSteps /\ s.a = 0}
    <2>1. (prepare_task_work => Plain(N)) /\ (Activate => Plain(M))
        BY PrepareFrame, ActivateFrame DEF Telltale, RowSteps, ReportSteps, LastSteps
    <2>2. jn' = jn \/ \E v : jn' = [jn EXCEPT !.prep = v]
        <3> DEFINE v == [jn.prep EXCEPT ![work.msg] = @ + 1]
                   w == [jn.prep EXCEPT ![work.msg] = @ - 1]
        <3>1. jn' = jn \/ jn' = [jn EXCEPT !.prep = v] \/ jn' = [jn EXCEPT !.prep = w]
            BY <1>3 DEF prepare_task_work, Activate
        <3> HIDE DEF v, w
        <3> QED
            BY <3>1
    <2>3. Unsaid
        BY <2>2, UnsaidSame, UnsaidFields, Zenon
    <2>4. Same /\ ((prepare_task_work /\ At("prepare")) \/ (Activate /\ At("activate")))
        BY <1>3 DEF prepare_task_work, Activate, outside
    <2> HIDE DEF N, M
    <2> QED
        BY <1>2, <2>1, <2>3, <2>4
<1>4. CASE finish_result
    <2>1. Plain(AfterTurn(Arg)) /\ Unsaid
        <3>1. Goes(AfterTurn(Arg)) /\ Alike(jn', jn, {"open", "fails"})
            BY <1>4, FinishFrame
        <3>2. \A s \in AfterTurn(Arg) : s.op \notin Telltale
            BY StepFields DEF AfterTurn, Telltale, RowSteps, ReportSteps
        <3> QED
            BY <3>1, <3>2, UnsaidAlike
    <2> QED
        BY <1>2, <1>4, <2>1 DEF finish_result, outside
<1>5. CASE OrphanGone \/ ResolveOrphan
    <2>1. Plain({}) /\ Unsaid
        BY <1>5, GoneFrame, ResolveFrame, UnsaidAlike
    <2> QED
        BY <1>2, <1>5, <2>1 DEF OrphanGone, ResolveOrphan, outside
<1>6. CASE adopt_orphan_attempt
    <2> DEFINE N == {s \in Steps : s.op \in {"close", "quarantine", "resolve"} /\ s.a \in Attempts}
    <2>1. Plain(N)
        BY <1>6, AdoptFrame DEF Telltale, RowSteps, ReportSteps
    <2>2. Unsaid
        BY <1>6, AdoptFrame, UnsaidAlike
    <2> HIDE DEF N
    <2> QED
        BY <1>2, <1>6, <2>1, <2>2 DEF adopt_orphan_attempt, outside
<1>7. CASE close_intent_attempt \/ close_unclosed_attempts
    <2>1. Plain({})
        BY <1>7, CloseFrame
    <2>2. \E S : CloseAttempts(S)
        BY <1>7 DEF close_intent_attempt, close_unclosed_attempts
    <2>3. PICK S : CloseAttempts(S)
        BY <2>2
    <2>4. /\ Alike(jn', jn, {"closed"})
          /\ \A a \in Attempts : jn'.closed[a] =
                IF a \in S /\ jn.closed[a] = None THEN file[a] ELSE jn.closed[a]
        BY <2>3, CloseType
    <2>5. Unsaid
        BY <2>4 DEF Unsaid, Alike, Fields
    <2> QED
        BY <1>2, <1>7, <2>1, <2>5 DEF close_intent_attempt, close_unclosed_attempts, outside
<1> QED
    BY <1>3, <1>4, <1>5, <1>6, <1>7

\* The beginnings and ends of a handler, and what happens outside.
LEMMA AsideAnew ==
    ASSUME Frame, start_turn \/ Loop \/ Restart \/ Crash \/ Elsewhere
    PROVE  Aside
<1>1. ASSUME \A s \in In(todo') : s.op \notin Telltale, told' = told, ledger' = ledger,
             inbox' = inbox, Unsaid
      PROVE  Aside
    BY <1>1 DEF Aside, Unposted, Telltale
<1>2. CASE start_turn
    <2>1. todo' = <<>> /\ Alike(jn', jn, {"last", "open", "msg", "task"})
        BY <1>2, StartFrame
    <2>2. In(todo') = {} /\ Unsaid
        BY <2>1, ShortPlans, UnsaidAlike
    <2> QED
        BY <1>1, <1>2, <2>2 DEF start_turn
<1>3. CASE Poll
    <2>1. In(todo') \subseteq {s \in Steps : s.op \in {"reports", "orphans", "scan", "dlq", "choose"}}
        BY <1>3, PollFrame
    <2>2. \A s \in In(todo') : s.op \notin Telltale
        BY <2>1 DEF Telltale, RowSteps, ReportSteps
    <2> QED
        BY <1>1, <1>3, <2>2, UnsaidSame DEF Poll, outside
<1>4. CASE \E result \in {"ok", "infra", "failure"} : collect_turn(result)
    <2>1. PICK result \in {"ok", "infra", "failure"} : collect_turn(result)
        BY <1>4
    <2>2. /\ Alike(jn', jn, {"of"})
          /\ In(todo') \subseteq {Step("apply", turn, "close"), Step("finish", turn, result)}
        BY <2>1, CollectFrame
    <2>3. \A s \in In(todo') : s.op \notin Telltale
        BY <2>2, StepFields DEF Telltale, RowSteps, ReportSteps
    <2>4. Unsaid
        BY <2>2, UnsaidAlike
    <2> QED
        BY <1>1, <2>1, <2>3, <2>4 DEF collect_turn, outside
<1>5. CASE Restart
    <2>1. In(todo') \subseteq {s \in Steps : s.op \in
                {"await", "adopt", "gone", "close_all", "reports", "orphans", "scan", "sweep", "dlq"}}
        BY <1>5, RestartFrame
    <2>2. \A s \in In(todo') : s.op \notin Telltale
        BY <2>1 DEF Telltale, RowSteps, ReportSteps
    <2> QED
        BY <1>1, <1>5, <2>2, UnsaidSame DEF Restart, outside
<1>6. CASE Crash
    <2>1. todo' = <<>> /\ UNCHANGED <<outside, jn>>
        BY <1>6, CrashFrame
    <2>2. In(todo') = {}
        BY <2>1, ShortPlans
    <2> QED
        BY <1>1, <2>1, <2>2, UnsaidSame DEF outside
<1>7. CASE Elsewhere
    <2>1. UNCHANGED <<todo, acc, jn, told>>
        BY <1>7, OutsideFrame
    <2>2. ledger'.yes = ledger.yes
        <3>1. ledger \in Ledgers
            BY DEF Frame, Types
        <3> QED
            BY <1>7, <3>1 DEF Elsewhere, Workers, append_intent, WorkerExits, OwnerCancels,
                              DeliveryFails, Ledgers
    <2>3. Unposted
        <3>1. inbox' = inbox \/ inbox' = [inbox EXCEPT ![Assignment] = "failed"]
            BY <1>7 DEF Elsewhere, Workers, append_intent, WorkerExits, OwnerCancels, DeliveryFails
        <3>2. inbox \in Inboxes /\ \A k \in {"c", "r"}, a \in Attempts :
                                        <<k, a>> \in MsgIds /\ <<k, a>> # Assignment
            BY DEF Frame, Types, Inboxes, MsgIds, Assignment
        <3> QED
            BY <3>1, <3>2 DEF Unposted, Inboxes
    <2> QED
        BY <2>1, <2>2, <2>3, UnsaidSame DEF Aside
<1> QED
    BY <1>2, <1>3, <1>4, <1>5, <1>6, <1>7 DEF Loop

\* An event goes into the ledger: the first outcome is the only one.
LEMMA OneOutcomeMoves ==
    ASSUME OneOutcome, NEW c, NEW ev \in Events, Moves(c, ev)
    PROVE  OneOutcome'
<1> DEFINE e == [cause |-> c, ev |-> ev]
<1>1. CASE ledger'.yes = ledger.yes /\ ledger'.state = ledger.state
    BY <1>1 DEF OneOutcome
<1>2. CASE /\ ledger'.yes = ledger.yes \cup {e} /\ ledger'.state = Becomes(ev) /\ Allowed(ev)
    <2>1. ledger.state \in {"ASSIGNED", "IN_PROGRESS"}
        BY <1>2 DEF Allowed
    <2>2. \A y \in ledger.yes : y.ev \notin Words
        BY <2>1 DEF OneOutcome
    <2>3. ev \in Words => Becomes(ev) \notin {"ASSIGNED", "IN_PROGRESS"}
        BY DEF Words, Final, Becomes
    <2>4. e.ev = ev
        OBVIOUS
    <2> HIDE DEF e
    <2> QED
        BY <1>2, <2>2, <2>3, <2>4 DEF OneOutcome
<1> QED
    BY <1>1, <1>2 DEF Moves

LEMMA OneOutcomeNext ==
    ASSUME Frame, OneOutcome, [Next]_vars
    PROVE  OneOutcome'
<1> Types /\ ledger \in Ledgers
    BY DEF Frame, Types
<1>1. ASSUME ledger'.yes = ledger.yes,
             ledger'.state = ledger.state \/ ledger'.state = "CANCELLED"
      PROVE  OneOutcome'
    BY <1>1 DEF OneOutcome
<1>2. ASSUME NEW c \in Causes, NEW ev \in Events, NEW r, task_event(c, ev, r) PROVE OneOutcome'
    BY <1>2, LedgerMoves, OneOutcomeMoves
<1>3. CASE handle_missing_report \/ service_fail \/ Pickup \/ scan_task_dlq
    <2> DEFINE c1 == <<"no_report", 0, 0>>
               c2 == <<"fail", Arg, 0>>
               c3 == <<"start", 0, 0>>
               c4 == <<"delivery", 0, 0>>
    <2>1. service_fail => Arg \in 0 .. MaxAttempts
        BY AtStep DEF service_fail, AttemptSteps, Attempts
    <2>2. /\ {c1, c3, c4} \subseteq Causes /\ (service_fail => c2 \in Causes)
          /\ {"blocked", "failed", "start", "cancelled"} \subseteq Events
        BY <2>1, CauseTypes DEF Events, Reports, Final
    <2>3. \/ ledger' = ledger
          \/ \E r \in Rcs : task_event(c1, "blocked", r)
          \/ service_fail /\ \E r \in Rcs : task_event(c2, "failed", r)
          \/ \E r \in Rcs : task_event(c3, "start", r)
          \/ \E r \in Rcs : task_event(c4, "cancelled", r)
        BY <1>3 DEF handle_missing_report, service_fail, Pickup, scan_task_dlq
    <2> HIDE DEF c1, c2, c3, c4
    <2> QED
        BY <1>1, <1>2, <2>2, <2>3
<1>4. CASE ReportRow
    <2> DEFINE c == <<"row", Arg, acc.i>>
    <2>1. PICK r \in Rcs : task_event(c, Row, r)
        BY <1>4 DEF ReportRow
    <2>2. At("row") /\ acc.i <= Len(acc.rows) /\ Row \in Reports
        BY <1>4 DEF ReportRow, NewRow, MoreRows
    <2>3. acc.i \in 1 .. MaxRows /\ Arg \in Attempts /\ MaxRows \in Nat
        BY <2>2, AtStep, RowTypes, IntentAssumption DEF AttemptSteps, RowSteps
    <2>4. Arg \in 0 .. MaxAttempts /\ acc.i \in 0 .. MaxRows
        BY <2>3 DEF Attempts
    <2>5. c \in Causes /\ Row \in Events
        BY <2>2, <2>4, CauseTypes DEF Events
    <2> HIDE DEF c
    <2> QED
        BY <1>2, <2>1, <2>5
<1>5. CASE BudgetBlock
    <2> DEFINE c == <<"budget", Arg, 0>>
    <2>1. PICK r \in Rcs : task_event(c, "blocked", r)
        BY <1>5 DEF BudgetBlock
    <2>2. Arg \in 0 .. MaxAttempts
        BY <1>5, AtStep DEF BudgetBlock, AttemptSteps, RowSteps, Attempts
    <2>3. c \in Causes /\ "blocked" \in Events
        BY <2>2, CauseTypes DEF Events, Reports, Final
    <2> HIDE DEF c
    <2> QED
        BY <1>2, <2>1, <2>3
<1>6. CASE OwnerCancels
    BY <1>1, <1>6 DEF OwnerCancels, Ledgers
<1>7. ASSUME ledger' = ledger PROVE OneOutcome'
    BY <1>1, <1>7
<1>8. CASE Handler /\ ~(\/ handle_missing_report \/ service_fail \/ Pickup \/ scan_task_dlq
                        \/ ReportRow \/ BudgetBlock)
    <2>1. ledger' = ledger
        BY <1>8 DEF Handler, deliver_task_report, Send, SendFails, ReportDelivered, record_report_failure,
            retry_pending_reports, Resend, quarantine_intent, Taint, intent_retry, ApplyFile,
            RecordedRow, RefusedRow, RecordRow, RowsDone, SendToSelf, IntentsApplied, unlink_intent,
            ContextDone, TaskNoReport, WorkDone, WorkFailed, choose_message, prepare_task_work,
            Activate, message_engine_error, start_turn, finish_result, AwaitOrphan, OrphanGone,
            adopt_orphan_attempt, ResolveOrphan, close_intent_attempt, close_unclosed_attempts,
            retry_deferred_orphans, scan_intents, ScanFile, recheck_missing_report_after_retry,
            sweep_missing_reports, DlqProcessed, outside
    <2> QED
        BY <1>7, <2>1
<1>9. CASE Loop \/ Restart \/ Crash \/ Workers \/ DeliveryFails \/ UNCHANGED vars
    <2>1. ledger' = ledger
        BY <1>9 DEF Loop, Poll, collect_turn, Restart, Crash, Workers, append_intent, WorkerExits,
                    DeliveryFails, vars, outside
    <2> QED
        BY <1>7, <2>1
<1> QED
    BY <1>3, <1>4, <1>5, <1>6, <1>8, <1>9 DEF Next

-----------------------------------------------------------------------------
\* What a step that is left says of the outcome.
Tells(s) ==
    /\ s.op \in {"report", "send"} => Backed(s.a, s.w)
    /\ s.op \in {"send", "sent", "unsent", "resend"} => jn.report[s.a].st # "none"
    /\ s.op \in RowSteps /\ acc.final # "none" => Backed(s.a, acc.final)

LEMMA HeadTells ==
    ASSUME Frame, Telling, NEW h, At(h)
    PROVE  /\ h \in {"report", "send"} => Backed(Arg, Word)
           /\ h \in {"send", "sent", "unsent", "resend"} => jn.report[Arg].st # "none"
           /\ h \in RowSteps /\ acc.final # "none" => Backed(Arg, acc.final)
           /\ jn.report[Arg].st # "none" => Backed(Arg, jn.report[Arg].says)
<1>1. /\ Head(todo) \in In(todo) /\ Head(todo).op = h /\ Head(todo).a = Arg
      /\ Head(todo).w = Word /\ Arg \in ReportIds
    BY AtStep, Rest DEF Word
<1> QED
    BY <1>1 DEF Telling

LEMMA RestTells ==
    ASSUME Frame, Telling, NEW h, At(h), ledger.yes \subseteq ledger'.yes,
           \A r \in ReportIds : jn.report[r].st # "none" => jn'.report[r].st # "none",
           acc' = acc \/ h \notin ReportSteps
    PROVE  \A s \in In(Tail(todo)) : Tells(s)'
<1> SUFFICES ASSUME NEW s \in In(Tail(todo)) PROVE Tells(s)'
    OBVIOUS
<1>1. /\ s \in In(todo) /\ s \in Steps /\ s.a \in ReportIds
      /\ h \notin ReportSteps => s.op \notin RowSteps
    <2>1. PlanOK /\ todo # <<>> /\ Head(todo).op = h
        BY AtStep
    <2>2. s \in In(todo)
        BY <2>1, Rest
    <2>3. s \in Steps
        BY <2>1, <2>2, ElementOfSeq DEF In, PlanOK
    <2> QED
        BY <2>1, <2>2, <2>3, NoMoreRows DEF Steps
<1>2. Tells(s)
    BY <1>1 DEF Telling, Tells
<1>3. s.op \in RowSteps => acc' = acc
    BY <1>1
<1>4. \A w : Backed(s.a, w) => Backed(s.a, w)'
    BY BackedStays
<1> QED
    BY <1>1, <1>2, <1>3, <1>4 DEF Tells, Backed, ReportOf

\* A step that tells nobody, but whose successors may.
LEMMA TellingStep ==
    ASSUME Frame, Telling, NEW h, At(h), h \notin ReportSteps, NEW N,
           In(todo') \subseteq N \cup In(Tail(todo)), \A s \in N : Tells(s)',
           told' = told, jn'.report = jn.report, ledger.yes \subseteq ledger'.yes
    PROVE  Telling'
<1>1. \A s \in In(todo') : Tells(s)'
    BY RestTells
<1>2. ASSUME NEW r \in ReportIds, NEW k \in 1 .. Len(told[r]) PROVE Backed(r, told[r][k])'
    <2>1. Backed(r, told[r][k])
        BY DEF Telling
    <2> QED
        BY <2>1 DEF Backed, ReportOf
<1>3. ASSUME NEW r \in ReportIds, jn.report[r].st # "none" PROVE Backed(r, jn.report[r].says)'
    <2>1. Backed(r, jn.report[r].says)
        BY <1>3 DEF Telling
    <2> QED
        BY <2>1 DEF Backed, ReportOf
<1> QED
    BY <1>1, <1>2, <1>3 DEF Telling, Tells

\* A step of a report.
LEMMA TellingReport ==
    ASSUME Frame, Telling, NEW h, At(h), NEW N, Goes(N), \A s \in N : Tells(s)',
           acc' = acc, ledger' = ledger,
           \A r \in ReportIds : \A k \in 1 .. Len(told'[r]) : Backed(r, told'[r][k]),
           \A r \in ReportIds : jn.report[r].st # "none" => jn'.report[r].st # "none",
           \A r \in ReportIds : jn'.report[r].st # "none" => Backed(r, jn'.report[r].says)
    PROVE  Telling'
<1>1. \A s \in In(todo') : Tells(s)'
    BY RestTells DEF Goes
<1>2. \A r, w : Backed(r, w) => Backed(r, w)'
    BY BackedStays
<1>3. ASSUME NEW r \in ReportIds, NEW k \in 1 .. Len(told'[r]) PROVE Backed(r, told[r][k])'
    <2>1. Backed(r, told'[r][k])
        OBVIOUS
    <2> QED
        BY <2>1 DEF Backed, ReportOf
<1>4. ASSUME NEW r \in ReportIds, jn'.report[r].st # "none" PROVE Backed(r, jn.report[r].says)'
    <2>1. Backed(r, jn'.report[r].says)
        BY <1>4
    <2> QED
        BY <2>1 DEF Backed, ReportOf
<1> QED
    BY <1>1, <1>3, <1>4 DEF Telling, Tells

LEMMA SendTelling ==
    ASSUME Frame, Telling, Send
    PROVE  Telling'
<1>1. At("send") /\ UNCHANGED <<acc, ledger, jn>> /\ told' \in {told, Told(Arg, Word)}
    BY DEF Send, SendFails
<1>2. Goes({Do("sent", Arg), Do("unsent", Arg)})
    BY SendFrame
<1>3. /\ Backed(Arg, Word) /\ jn.report[Arg].st # "none" /\ Arg \in ReportIds
      /\ told \in [ReportIds -> Seq(Words)] /\ Word \in Words
    BY <1>1, HeadTells, AtStep DEF Frame, Types, Backed
<1> DEFINE N == {Do("sent", Arg), Do("unsent", Arg)}
<1>4. \A s \in N : Tells(s)'
    BY <1>1, <1>3, StepFields DEF Tells, RowSteps
<1> HIDE DEF N
<1>5. ASSUME NEW r \in ReportIds, NEW k \in 1 .. Len(told'[r]) PROVE Backed(r, told'[r][k])
    <2>1. CASE told' = told
        BY <2>1 DEF Telling
    <2>2. CASE told' = [told EXCEPT ![Arg] = Append(told[Arg], Word)] /\ r # Arg
        <3>1. told'[r] = told[r]
            BY <1>3, <2>2
        <3> QED
            BY <3>1 DEF Telling
    <2>3. CASE told' = [told EXCEPT ![Arg] = Append(told[Arg], Word)] /\ r = Arg
        <3>1. told'[r] = Append(told[r], Word) /\ told[r] \in Seq(Words)
            BY <1>3, <2>3
        <3>2. Len(told[r]) \in Nat /\ Len(told'[r]) = Len(told[r]) + 1
              /\ told'[r][Len(told[r]) + 1] = Word
              /\ \A i \in 1 .. Len(told[r]) : told'[r][i] = told[r][i]
            BY <1>3, <3>1, AppendProperties, LenProperties
        <3> DEFINE n == Len(told[r])
        <3>3. k = n + 1 \/ k \in 1 .. n
            <4>1. n \in Nat /\ k \in 1 .. n + 1
                BY <3>2
            <4> HIDE DEF n
            <4> QED
                BY <4>1
        <3> QED
            BY <1>3, <2>3, <3>2, <3>3 DEF Telling
    <2> QED
        BY <1>1, <2>1, <2>2, <2>3 DEF Told
<1> QED
    BY <1>1, <1>2, <1>4, <1>5, TellingReport DEF Telling, N

LEMMA DeliverTelling ==
    ASSUME Frame, Telling, deliver_task_report
    PROVE  Telling'
<1> DEFINE x == Step("send", Arg, Word)
           e == [jn.report[Arg] EXCEPT !.st = "pending", !.says = Word]
<1>1. /\ At("report") /\ UNCHANGED <<acc, ledger, told>>
      /\ \/ jn.report[Arg].st = "delivered" /\ Then(<<>>) /\ jn' = jn
         \/ jn.report[Arg].st = "none" /\ Then(<<x>>) /\ jn' = [jn EXCEPT !.report[Arg] = e]
         \/ jn.report[Arg].st # "none" /\ Then(<<x>>) /\ jn' = [jn EXCEPT !.report[Arg] = jn.report[Arg]]
    BY DEF deliver_task_report, outside
<1>2. /\ Backed(Arg, Word) /\ Arg \in ReportIds /\ jn \in Journals /\ Word \in Words
      /\ PlanOK /\ todo # <<>> /\ jn.report[Arg] \in Reporting
    BY <1>1, HeadTells, AtStep, ReportEntries DEF Frame, Types, Backed
<1>3. e \in Reporting /\ e.st = "pending" /\ e.says = Word
    BY <1>2 DEF Reporting
<1>4. x.op = "send" /\ x.a = Arg /\ x.w = Word
    BY StepFields
<1> HIDE DEF x, e
<1>5. /\ \A r \in ReportIds : r # Arg => jn'.report[r] = jn.report[r]
      /\ jn'.report[Arg] \in {jn.report[Arg], e}
      /\ jn'.report[Arg].st # "none"
    BY <1>1, <1>2, <1>3, ReportType
<1>6. \A r \in ReportIds : jn'.report[r].st # "none" => Backed(r, jn'.report[r].says)
    BY <1>1, <1>2, <1>3, <1>5 DEF Telling
<1>7. \A s : s = x => Tells(s)'
    <2>1. \A s : s = x => Backed(s.a, s.w)
        BY <1>2, <1>4
    <2>2. \A s : s = x => Backed(s.a, s.w)'
        BY <1>1, <2>1 DEF Backed, ReportOf
    <2> QED
        BY <1>4, <1>5, <2>2 DEF Tells, RowSteps
<1>8. Goes({x})
    BY DeliverFrame DEF x
<1> QED
    BY <1>1, <1>5, <1>6, <1>7, <1>8, TellingReport DEF Telling

LEMMA DeliveredTelling ==
    ASSUME Frame, Telling, ReportDelivered \/ record_report_failure
    PROVE  Telling'
<1> DEFINE d == [jn.report[Arg] EXCEPT !.st = "delivered"]
           n == jn.report[Arg].n + 1
           f == IF n >= ReportLimit THEN [jn.report[Arg] EXCEPT !.st = "undeliverable"]
                ELSE [jn.report[Arg] EXCEPT !.n = n]
<1>1. /\ UNCHANGED <<acc, ledger, told>>
      /\ \/ At("sent") /\ jn' = [jn EXCEPT !.report[Arg] = d]
         \/ At("unsent") /\ jn' = [jn EXCEPT !.report[Arg] = f]
    BY DEF ReportDelivered, record_report_failure, outside
<1>2. /\ jn.report[Arg].st # "none" /\ Backed(Arg, jn.report[Arg].says) /\ Arg \in ReportIds
      /\ jn \in Journals /\ jn.report[Arg] \in Reporting
    BY <1>1, HeadTells, AtStep, ReportEntries DEF Frame, Types
<1>3. /\ d \in Reporting /\ d.st # "none" /\ d.says = jn.report[Arg].says
      /\ f \in Reporting /\ f.st # "none" /\ f.says = jn.report[Arg].says
    BY <1>2 DEF Reporting
<1> HIDE DEF d, f
<1>4. /\ \A r \in ReportIds : r # Arg => jn'.report[r] = jn.report[r]
      /\ jn'.report[Arg].st # "none" /\ jn'.report[Arg].says = jn.report[Arg].says
    BY <1>1, <1>2, <1>3, ReportType
<1>5. \A r \in ReportIds : jn'.report[r].st # "none" => Backed(r, jn'.report[r].says)
    BY <1>2, <1>4 DEF Telling
<1>6. Goes({})
    BY DeliveredFrame, UnsentFrame
<1> QED
    BY <1>1, <1>4, <1>5, <1>6, TellingReport DEF Telling

LEMMA ResendTelling ==
    ASSUME Frame, Telling, retry_pending_reports \/ Resend \/ SendToSelf
    PROVE  Telling'
<1>1. UNCHANGED <<acc, told, jn, ledger>>
    BY DEF retry_pending_reports, Resend, SendToSelf, outside
<1>2. CASE retry_pending_reports
    <2> DEFINE N == {s \in Steps : s.op = "resend" /\ jn.report[s.a].st = "pending"}
    <2>1. At("reports") /\ In(todo') \subseteq N \cup In(Tail(todo))
        BY <1>2, RetryReportsFrame DEF Goes, retry_pending_reports
    <2>2. \A s \in N : Tells(s)'
        BY <1>1 DEF Tells, RowSteps
    <2> HIDE DEF N
    <2> QED
        BY <1>1, <2>1, <2>2, TellingStep DEF ReportSteps
<1>3. CASE Resend
    <2> DEFINE x == Step("report", Arg, jn.report[Arg].says)
               N == {x}
    <2>1. At("resend") /\ In(todo') \subseteq N \cup In(Tail(todo))
        BY <1>3, ResendFrame DEF Goes, Resend
    <2>2. x.op = "report" /\ x.a = Arg /\ x.w = jn.report[Arg].says
        BY StepFields
    <2>3. Backed(Arg, jn.report[Arg].says)
        BY <2>1, HeadTells
    <2>4. \A s \in N : Tells(s)'
        <3>1. \A s \in N : Backed(s.a, s.w)
            BY <2>2, <2>3
        <3>2. \A s \in N : Backed(s.a, s.w)'
            BY <1>1, <3>1 DEF Backed, ReportOf
        <3> QED
            BY <2>2, <3>2 DEF Tells, RowSteps
    <2> HIDE DEF N
    <2> QED
        BY <1>1, <2>1, <2>4, TellingStep DEF ReportSteps
<1>4. CASE SendToSelf
    <2> DEFINE N == {}
    <2>1. At("self") /\ In(todo') \subseteq N \cup In(Tail(todo))
        BY <1>4, SelfFrame DEF Goes, SendToSelf
    <2>2. \A s \in N : Tells(s)'
        OBVIOUS
    <2> HIDE DEF N
    <2> QED
        BY <1>1, <2>1, <2>2, TellingStep DEF ReportSteps
<1> QED
    BY <1>2, <1>3, <1>4

\* A call that was answered yes backs the report of what was asked.
LEMMA AskedBacked ==
    ASSUME Types, NEW c \in Causes, NEW ev \in Words \cap Events, NEW r, task_event(c, ev, r),
           \A y \in ledger'.yes : y.cause = c => y.ev = ev,
           NEW q, \A y : y.cause = c => ReportOf(y, q)
    PROVE  /\ ledger.yes \subseteq ledger'.yes
           /\ \A s : r = "ok" /\ s.op = "report" /\ s.a = q /\ s.w = ev => Tells(s)'
<1>1. ledger.yes \subseteq ledger'.yes
    BY LedgerMoves DEF Moves
<1>2. ASSUME NEW s, r = "ok", s.op = "report", s.a = q, s.w = ev PROVE Tells(s)'
    <2>1. \E y \in ledger'.yes : y.cause = c /\ y.ev = ev
        BY <1>2, LedgerMoves
    <2>2. Backed(s.a, s.w)'
        BY <1>2, <2>1 DEF Backed, ReportOf
    <2> QED
        BY <1>2, <2>2 DEF Tells, RowSteps
<1> QED
    BY <1>1, <1>2

\* The events of one cause are the same.
LEMMA CauseEvents ==
    ASSUME Applying'
    PROVE  \A y \in ledger'.yes :
             /\ y.cause[1] \in {"budget", "no_report"} => y.ev = "blocked"
             /\ y.cause[1] = "fail" => y.ev = "failed"
             /\ y.cause[1] = "delivery" => y.ev = "cancelled"
BY DEF Applying, Answering, CauseFits

LEMMA AskingTelling ==
    ASSUME Frame, Applying', Telling, handle_missing_report \/ service_fail \/ scan_task_dlq
    PROVE  Telling'
<1>1. UNCHANGED <<acc, told, jn>> /\ told' = told /\ jn'.report = jn.report
    BY DEF handle_missing_report, service_fail, scan_task_dlq
<1>2. CASE handle_missing_report
    <2> DEFINE p == Step("report", Arg, "blocked")
               z == Do("no_report", Arg)
               c == <<"no_report", 0, 0>>
               M == {z}
    <2>1. At("missing") /\ PlanOK /\ todo # <<>> /\ Arg \in ReportIds
        BY <1>2, AtStep DEF handle_missing_report
    <2>2. p \in Steps /\ p.op = "report" /\ p.a = Arg /\ p.w = "blocked"
        BY <2>1, ReportStep DEF Words, Final
    <2>3. z \in Steps /\ z.op = "no_report"
        BY <2>1, DoOK DEF Ops, OtherSteps, AttemptSteps, RowSteps
    <2>4. \A s \in M : Tells(s)'
        BY <2>3 DEF Tells, RowSteps
    <2>5. \/ ledger' = ledger /\ Then(<<z>>)
          \/ \E r \in Rcs : task_event(c, "blocked", r)
                              /\ (Then(<<z>>) \/ (r = "ok" /\ Then(<<p, z>>)))
        <3> HIDE DEF p, z, c
        <3>1. <<>> \o <<z>> = <<z>> /\ <<p>> \o <<z>> = <<p, z>>
            BY <2>2, <2>3, TwoJoined
        <3> QED
            BY <1>2, <3>1 DEF handle_missing_report, p, z, c
    <2>6. c \in Causes /\ "blocked" \in Words \cap Events
        BY CauseTypes DEF Words, Events, Reports, Final
    <2>7. \A y : y.cause = c => ReportOf(y, Arg)
        BY DEF ReportOf
    <2>8. \A y \in ledger'.yes : y.cause = c => y.ev = "blocked"
        BY CauseEvents
    <2> HIDE DEF p, z, c, M
    <2>9. CASE ledger' = ledger /\ Then(<<z>>)
        <3>1. In(todo') \subseteq M \cup In(Tail(todo)) /\ ledger.yes \subseteq ledger'.yes
            BY <2>1, <2>9, InThen DEF M
        <3> QED
            BY <1>1, <2>1, <2>4, <3>1, TellingStep DEF ReportSteps
    <2>10. ASSUME NEW r, task_event(c, "blocked", r), Then(<<z>>) \/ (r = "ok" /\ Then(<<p, z>>))
           PROVE  Telling'
        <3> DEFINE N == IF r = "ok" THEN {p} \cup M ELSE M
        <3>1. In(todo') \subseteq N \cup In(Tail(todo))
            BY <2>1, <2>10, InThen DEF M
        <3>2. /\ ledger.yes \subseteq ledger'.yes
              /\ \A s : r = "ok" /\ s.op = "report" /\ s.a = Arg /\ s.w = "blocked" => Tells(s)'
            BY <1>1, <2>1, <2>6, <2>7, <2>8, <2>10, AskedBacked DEF Frame
        <3>3. \A s \in N : Tells(s)'
            BY <2>2, <2>4, <3>2
        <3> HIDE DEF N
        <3> QED
            BY <1>1, <2>1, <3>1, <3>2, <3>3, TellingStep DEF ReportSteps
    <2> QED
        BY <2>5, <2>9, <2>10
<1>3. CASE service_fail
    <2> DEFINE p == Step("report", Arg, "failed")
               c == <<"fail", Arg, 0>>
    <2>1. At("service_fail") /\ PlanOK /\ todo # <<>> /\ Arg \in ReportIds /\ Arg \in 0 .. MaxAttempts
        BY <1>3, AtStep DEF service_fail, AttemptSteps, Attempts
    <2>2. p.op = "report" /\ p.a = Arg /\ p.w = "failed"
        BY StepFields
    <2>3. \/ ledger' = ledger /\ Then(<<>>)
          \/ \E r \in Rcs : task_event(c, "failed", r)
                              /\ (Then(<<>>) \/ (r = "ok" /\ Then(<<p>>)))
        BY <1>3 DEF service_fail
    <2>4. c \in Causes /\ "failed" \in Words \cap Events
        BY <2>1, CauseTypes DEF Words, Events, Reports, Final
    <2>5. \A y : y.cause = c => ReportOf(y, Arg)
        BY DEF ReportOf
    <2>6. \A y \in ledger'.yes : y.cause = c => y.ev = "failed"
        BY CauseEvents
    <2> DEFINE M == {}
    <2>7. \A s \in M : Tells(s)'
        OBVIOUS
    <2> HIDE DEF p, c, M
    <2>8. CASE ledger' = ledger /\ Then(<<>>)
        <3>1. In(todo') \subseteq M \cup In(Tail(todo)) /\ ledger.yes \subseteq ledger'.yes
            BY <2>1, <2>8, InThen
        <3> QED
            BY <1>1, <2>1, <2>7, <3>1, TellingStep DEF ReportSteps
    <2>9. ASSUME NEW r, task_event(c, "failed", r), Then(<<>>) \/ (r = "ok" /\ Then(<<p>>))
          PROVE  Telling'
        <3> DEFINE N == IF r = "ok" THEN {p} \cup M ELSE M
        <3>1. In(todo') \subseteq N \cup In(Tail(todo))
            BY <2>1, <2>9, InThen
        <3>2. /\ ledger.yes \subseteq ledger'.yes
              /\ \A s : r = "ok" /\ s.op = "report" /\ s.a = Arg /\ s.w = "failed" => Tells(s)'
            BY <1>1, <2>1, <2>4, <2>5, <2>6, <2>9, AskedBacked DEF Frame
        <3>3. \A s \in N : Tells(s)'
            BY <2>2, <2>7, <3>2
        <3> HIDE DEF N
        <3> QED
            BY <1>1, <2>1, <3>1, <3>2, <3>3, TellingStep DEF ReportSteps
    <2> QED
        BY <2>3, <2>8, <2>9
<1>4. CASE scan_task_dlq
    <2> DEFINE p == Step("report", Delivery, "cancelled")
               z == Do("dlq_done", 0)
               c == <<"delivery", 0, 0>>
               M == {z}
    <2>1. At("dlq") /\ PlanOK /\ todo # <<>> /\ 0 \in ReportIds /\ Delivery \in ReportIds
        BY <1>4, AtStep, Ids DEF scan_task_dlq
    <2>2. p \in Steps /\ p.op = "report" /\ p.a = Delivery /\ p.w = "cancelled"
        BY <2>1, ReportStep DEF Words
    <2>3. z \in Steps /\ z.op = "dlq_done"
        BY <2>1, DoOK DEF Ops, OtherSteps, AttemptSteps, RowSteps
    <2>4. \A s \in M : Tells(s)'
        BY <2>3 DEF Tells, RowSteps
    <2>5. \/ ledger' = ledger /\ (Then(<<>>) \/ Then(<<z>>))
          \/ \E r \in Rcs : task_event(c, "cancelled", r)
                              /\ (Then(<<z>>) \/ (r = "ok" /\ Then(<<p, z>>)))
        <3> HIDE DEF p, z, c
        <3>1. <<>> \o <<z>> = <<z>> /\ <<p>> \o <<z>> = <<p, z>>
            BY <2>2, <2>3, TwoJoined
        <3> QED
            BY <1>4, <3>1 DEF scan_task_dlq, p, z, c
    <2>6. c \in Causes /\ "cancelled" \in Words \cap Events
        BY CauseTypes DEF Words, Events
    <2>7. \A y : y.cause = c => ReportOf(y, Delivery)
        BY DEF ReportOf
    <2>8. \A y \in ledger'.yes : y.cause = c => y.ev = "cancelled"
        BY CauseEvents
    <2> HIDE DEF p, z, c, M
    <2>9. CASE ledger' = ledger /\ (Then(<<>>) \/ Then(<<z>>))
        <3>1. In(todo') \subseteq M \cup In(Tail(todo)) /\ ledger.yes \subseteq ledger'.yes
            BY <2>1, <2>9, InThen DEF M
        <3> QED
            BY <1>1, <2>1, <2>4, <3>1, TellingStep DEF ReportSteps
    <2>10. ASSUME NEW r, task_event(c, "cancelled", r), Then(<<z>>) \/ (r = "ok" /\ Then(<<p, z>>))
           PROVE  Telling'
        <3> DEFINE N == IF r = "ok" THEN {p} \cup M ELSE M
        <3>1. In(todo') \subseteq N \cup In(Tail(todo))
            BY <2>1, <2>10, InThen DEF M
        <3>2. /\ ledger.yes \subseteq ledger'.yes
              /\ \A s : r = "ok" /\ s.op = "report" /\ s.a = Delivery /\ s.w = "cancelled" => Tells(s)'
            BY <1>1, <2>1, <2>6, <2>7, <2>8, <2>10, AskedBacked DEF Frame
        <3>3. \A s \in N : Tells(s)'
            BY <2>2, <2>4, <3>2
        <3> HIDE DEF N
        <3> QED
            BY <1>1, <2>1, <3>1, <3>2, <3>3, TellingStep DEF ReportSteps
    <2> QED
        BY <2>5, <2>9, <2>10
<1> QED
    BY <1>2, <1>3, <1>4

\* A step of an application: the final report in hand stays backed.
LEMMA RowTelling ==
    ASSUME Frame, Telling, NEW h \in RowSteps, At(h), NEW N, In(todo') \subseteq N \cup In(Tail(todo)),
           \A s \in N : \/ s.op \in RowSteps /\ s.a = Arg
                        \/ s.op \notin Telltale \ {"self"}
                        \/ s.op = "report" /\ Tells(s)',
           acc'.final \in {"none", acc.final} \/ Backed(Arg, acc'.final),
           told' = told, jn'.report = jn.report, ledger.yes \subseteq ledger'.yes
    PROVE  Telling'
<1>1. \A w : Backed(Arg, w) => \A a : a = Arg => Backed(a, w)'
    BY BackedStays
<1>2. acc'.final = "none" \/ Backed(Arg, acc'.final)
    BY HeadTells
<1>3. ASSUME NEW s \in N PROVE Tells(s)'
    <2>1. CASE s.op \in RowSteps /\ s.a = Arg
        <3>1. acc'.final = "none" \/ \A w : w = acc'.final => Backed(s.a, w)'
            BY <1>1, <1>2, <2>1
        <3>2. acc'.final = "none" \/ Backed(s.a, acc.final)'
            BY <3>1 DEF Backed, ReportOf
        <3> QED
            BY <2>1, <3>2 DEF Tells, RowSteps
    <2>2. CASE s.op \notin Telltale \ {"self"}
        BY <2>2 DEF Tells, Telltale, ReportSteps, RowSteps
    <2> QED
        BY <2>1, <2>2
<1>4. h \notin ReportSteps
    BY DEF RowSteps, ReportSteps
<1> QED
    BY <1>3, <1>4, TellingStep

LEMMA FileTelling ==
    ASSUME Frame, Telling, ApplyFile
    PROVE  Telling'
<1> DEFINE N == {Do("quarantine", Arg), Do("unlink", Arg), Do("row", Arg), Do("retry", Arg)}
           v == [jn.closed EXCEPT ![Arg] = ClosedAs(Arg)]
<1>1. At("apply") /\ told' = told /\ ledger' = ledger /\ acc'.final = "none"
    <2> DEFINE f == file[Arg]
               w == ledger.state
    <2>1. acc' = NoAcc \/ acc' = [NoAcc EXCEPT !.rows = f, !.was = w]
        BY DEF ApplyFile
    <2> HIDE DEF f, w
    <2>2. acc' = NoAcc => acc'.final = "none"
        BY DEF NoAcc
    <2>3. acc' = [NoAcc EXCEPT !.rows = f, !.was = w] => acc'.final = "none"
        BY DEF NoAcc
    <2>4. acc'.final = "none"
        BY <2>1, <2>2, <2>3
    <2> QED
        BY <2>4 DEF ApplyFile, outside
<1>2. jn' = [jn EXCEPT !.closed = v] /\ jn \in Journals
    BY DEF ApplyFile, Frame, Types
<1> HIDE DEF v
<1>3. jn'.report = jn.report
    BY <1>2 DEF Journals
<1>4. Goes(N)
    BY ApplyFrame
<1>5. \A s \in N : s.op \notin {"report", "send", "sent", "unsent", "resend"}
    BY StepFields
<1> HIDE DEF N
<1>6. \A s \in N : Tells(s)'
    BY <1>1, <1>5 DEF Tells
<1> QED
    BY <1>1, <1>3, <1>4, <1>6, TellingStep DEF Goes, ReportSteps

LEMMA RowTellings ==
    ASSUME Frame, Applying, Telling, RecordedRow \/ RefusedRow \/ ReportRow
    PROVE  Telling'
<1>1. At("row") /\ "row" \in RowSteps /\ UNCHANGED <<told, jn>> /\ jn'.report = jn.report
    BY DEF RecordedRow, RefusedRow, ReportRow, NewRow, MoreRows, outside, RowSteps
<1>2. /\ PlanOK /\ todo # <<>> /\ Head(todo).op = "row" /\ Head(todo).a = Arg
      /\ acc \in Locals /\ Types
    BY <1>1, AtStep DEF Types
<1>3. CASE RecordedRow
    <2> DEFINE o == jn.rec[Arg][acc.i]
               N == {Head(todo)}
    <2>1. /\ acc.i <= Len(jn.rec[Arg]) /\ acc' = Counted(acc, o)
          /\ UNCHANGED <<todo, ledger>>
        BY <1>3 DEF RecordedRow, MoreRows, outside
    <2>2. Arg \in Attempts /\ acc.i \in Nat \ {0} /\ Len(jn.rec[Arg]) \in Nat
        BY <1>1, AtRow
    <2>3. Answered(Arg, acc.i, o)
        BY <2>1, <2>2 DEF Applying, Recorded
    <2>4. acc'.final \in {"none", acc.final} \/ Backed(Arg, acc'.final)
        <3> HIDE DEF o
        <3>1. acc'.final = IF o \in Final THEN o ELSE acc.final
            BY <1>2, <2>1 DEF Counted, Locals
        <3>2. CASE o \in Final
            <4> DEFINE y == [cause |-> <<"row", Arg, acc.i>>, ev |-> o]
            <4>1. y \in ledger.yes
                BY <2>3, <3>2 DEF Answered, Took, Reports
            <4>2. y.ev = o /\ ReportOf(y, Arg)
                BY DEF ReportOf
            <4> HIDE DEF y
            <4> QED
                BY <3>1, <3>2, <4>1, <4>2 DEF Backed, Words
        <3> QED
            BY <3>1, <3>2
    <2>5. In(todo') \subseteq N \cup In(Tail(todo))
        BY <1>2, <2>1, Rest
    <2>6. \A s \in N : s.op \in RowSteps /\ s.a = Arg
        BY <1>1, <1>2
    <2> HIDE DEF N
    <2> QED
        BY <1>1, <2>1, <2>4, <2>5, <2>6, RowTelling
<1>4. CASE RefusedRow
    <2> DEFINE N == {Step("record", Arg, "rejected"), Do("retry", Arg)}
    <2>1. acc' \in {acc, NoAcc} /\ ledger' = ledger
        BY <1>4 DEF RefusedRow, outside
    <2>2. Goes(N)
        BY <1>4, RefusedFrame
    <2>3. \A s \in N : (s.op \in RowSteps /\ s.a = Arg) \/ s.op \notin Telltale
        BY StepFields DEF Telltale, RowSteps, ReportSteps
    <2> HIDE DEF N
    <2>4. acc'.final \in {"none", acc.final}
        BY <2>1 DEF NoAcc
    <2> QED
        BY <1>1, <2>1, <2>2, <2>3, <2>4, RowTelling DEF Goes
<1>5. CASE ReportRow
    <2> DEFINE N == {Step("record", Arg, Row), Step("record", Arg, "rejected"),
                     Do("budget", Arg), Do("retry", Arg)}
               c == <<"row", Arg, acc.i>>
    <2>1. PICK r \in Rcs : task_event(c, Row, r)
        BY <1>5 DEF ReportRow
    <2>2. acc' \in {acc, NoAcc} /\ acc.i <= Len(acc.rows) /\ Row \in Reports
        BY <1>5 DEF ReportRow, NewRow, MoreRows
    <2>3. Goes(N)
        BY <1>5, ReportRowFrame
    <2>4. \A s \in N : (s.op \in RowSteps /\ s.a = Arg) \/ s.op \notin Telltale
        BY StepFields DEF Telltale, RowSteps, ReportSteps
    <2>5. ledger.yes \subseteq ledger'.yes
        <3>1. acc.i \in 1 .. MaxRows /\ Arg \in Attempts
            BY <1>1, <1>2, <2>2, RowTypes, AtRow
        <3>2. Arg \in 0 .. MaxAttempts /\ acc.i \in 0 .. MaxRows
            BY <3>1 DEF Attempts
        <3>3. c \in Causes /\ Row \in Events
            BY <2>2, <3>2, CauseTypes DEF Events
        <3> HIDE DEF c
        <3> QED
            BY <1>2, <2>1, <3>3, LedgerMoves DEF Moves
    <2> HIDE DEF N
    <2>6. acc'.final \in {"none", acc.final}
        BY <2>2 DEF NoAcc
    <2> QED
        BY <1>1, <2>3, <2>4, <2>5, <2>6, RowTelling DEF Goes
<1> QED
    BY <1>3, <1>4, <1>5

LEMMA BudgetTelling ==
    ASSUME Frame, Applying', Telling, BudgetBlock
    PROVE  Telling'
<1> DEFINE x == Step("report", Arg, "blocked")
           y == Step("record", Arg, "budget")
           z == Do("retry", Arg)
           c == <<"budget", Arg, 0>>
<1>1. /\ At("budget") /\ "budget" \in RowSteps /\ "budget" \notin ReportSteps
      /\ told' = told /\ jn'.report = jn.report
    BY DEF BudgetBlock, RowSteps, ReportSteps
<1>2. PICK r \in Rcs :
        /\ task_event(c, "blocked", r)
        /\ (r = "ok" /\ Then(<<x, y>>)) \/ Then(<<y>>) \/ Then(<<z>>)
        /\ acc' \in {acc, NoAcc}
    BY DEF BudgetBlock
<1>3. PlanOK /\ todo # <<>> /\ Types /\ Arg \in Attempts /\ Head(todo).op = "budget"
    BY <1>1, AtStep DEF AttemptSteps
<1>4. c \in Causes /\ "blocked" \in Words \cap Events
    <2>1. Arg \in 0 .. MaxAttempts
        BY <1>3 DEF Attempts
    <2> QED
        BY <2>1, CauseTypes DEF Words, Events, Reports, Final
<1>5. /\ x.op = "report" /\ x.a = Arg /\ x.w = "blocked"
      /\ y.op = "record" /\ y.a = Arg /\ z.op = "retry"
    BY StepFields
<1>6. \A e : e.cause = c => ReportOf(e, Arg)
    BY DEF ReportOf
<1>7. \A e \in ledger'.yes : e.cause = c => e.ev = "blocked"
    BY CauseEvents
<1> HIDE DEF x, y, z, c
<1>8. /\ ledger.yes \subseteq ledger'.yes
      /\ \A s : r = "ok" /\ s.op = "report" /\ s.a = Arg /\ s.w = "blocked" => Tells(s)'
    BY <1>2, <1>3, <1>4, <1>6, <1>7, AskedBacked
<1> DEFINE N == IF r = "ok" THEN {x, y, z} ELSE {y, z}
<1>9. In(todo') \subseteq N \cup In(Tail(todo))
    BY <1>2, <1>3, InThen
<1>10. \A s \in N : \/ s.op \in RowSteps /\ s.a = Arg
                    \/ s.op \notin Telltale \ {"self"}
                    \/ s.op = "report" /\ Tells(s)'
    <2>1. y.op \in RowSteps /\ z.op \notin Telltale
        BY <1>5 DEF Telltale, RowSteps, ReportSteps
    <2> QED
        BY <1>5, <1>8, <2>1
<1>11. acc'.final \in {"none", acc.final}
    BY <1>2 DEF NoAcc
<1> HIDE DEF N
<1> QED
    BY <1>1, <1>8, <1>9, <1>10, <1>11, RowTelling

LEMMA RecordTelling ==
    ASSUME Frame, Applying, Telling, RecordRow
    PROVE  Telling'
<1> DEFINE x == Do("row", Arg)
           v == [jn.rec EXCEPT ![Arg] = Append(@, Word)]
           N == {x}
<1>1. /\ At("record") /\ "record" \in RowSteps /\ told' = told /\ ledger' = ledger /\ Then(<<x>>)
      /\ jn' = [jn EXCEPT !.rec = v]
      /\ acc' = [Counted(acc, Word) EXCEPT !.handled = @ \/ Word = "budget"]
    BY DEF RecordRow, outside, RowSteps
<1>2. PlanOK /\ todo # <<>> /\ acc \in Locals /\ jn \in Journals /\ Answered(Arg, acc.i, Word)
    BY <1>1, AtStep, AtRow
<1> HIDE DEF v
<1>3. jn'.report = jn.report
    BY <1>1, <1>2 DEF Journals
<1>4. acc'.final \in {"none", acc.final} \/ Backed(Arg, acc'.final)
    <2>1. acc'.final = IF Word \in Final THEN Word ELSE acc.final
        BY <1>1, <1>2 DEF Counted, Locals
    <2>2. CASE Word \in Final
        <3> DEFINE y == [cause |-> <<"row", Arg, acc.i>>, ev |-> Word]
        <3>1. y \in ledger.yes
            BY <1>2, <2>2 DEF Answered, Took, Reports
        <3>2. y.ev = Word /\ ReportOf(y, Arg)
            BY DEF ReportOf
        <3> HIDE DEF y
        <3> QED
            BY <2>1, <2>2, <3>1, <3>2 DEF Backed, Words
    <2> QED
        BY <2>1, <2>2
<1>5. \A s \in N : s.op \in RowSteps /\ s.a = Arg
    BY StepFields DEF RowSteps
<1>6. In(todo') \subseteq N \cup In(Tail(todo))
    BY <1>1, <1>2, InThen
<1> HIDE DEF N
<1> QED
    BY <1>1, <1>3, <1>4, <1>5, <1>6, RowTelling

LEMMA RowsDoneTelling ==
    ASSUME Frame, Telling, RowsDone
    PROVE  Telling'
<1> DEFINE N == {s \in Steps : Due(s, Arg)}
<1>1. /\ At("row") /\ "row" \in RowSteps
      /\ UNCHANGED <<acc, ledger, jn, told>> /\ told' = told /\ jn'.report = jn.report
    BY DEF RowsDone, outside, RowSteps
<1>2. Goes(N)
    BY RowsDoneFrame
<1>3. ASSUME NEW s \in N
      PROVE  s.op \notin Telltale \ {"self"} \/ (s.op = "report" /\ Tells(s)')
    <2>1. Due(s, Arg)
        BY <1>3
    <2>2. CASE s.op = "report"
        <3>1. Backed(s.a, s.w)
            BY <1>1, <2>1, <2>2, HeadTells DEF Due
        <3>2. Backed(s.a, s.w)'
            BY <1>1, <3>1 DEF Backed, ReportOf
        <3> QED
            BY <2>2, <3>2 DEF Tells, RowSteps
    <2>3. CASE s.op \in {"self", "applied", "unlink", "done"}
        BY <2>3 DEF Telltale, RowSteps, ReportSteps
    <2> QED
        BY <2>1, <2>2, <2>3 DEF Due
<1> HIDE DEF N
<1> QED
    BY <1>1, <1>2, <1>3, RowTelling DEF Goes

LEMMA TellingNext ==
    ASSUME Frame, Applying, Applying', Telling, [Next]_vars
    PROVE  Telling'
<1>1. CASE UNCHANGED vars
    BY <1>1 DEF vars, Telling, Backed, ReportOf
<1>2. CASE Handler
    BY <1>2, DeliverTelling, SendTelling, DeliveredTelling, ResendTelling, AskingTelling, FileTelling,
       RowTellings, BudgetTelling, RecordTelling, RowsDoneTelling, AsidePlain, AsideNoting,
       AsideChanging, AsideAnew, TellingAside
       DEF Handler
<1>3. CASE Loop \/ Restart \/ Crash \/ Elsewhere
    BY <1>3, AsideAnew, TellingAside
<1> QED
    BY <1>1, <1>2, <1>3 DEF Next, Elsewhere

LEMMA InitOutcome ==
    ASSUME Init
    PROVE  Outcome
<1>1. /\ In(todo) = {} /\ ledger.yes = {}
      /\ \A r \in ReportIds : told[r] = <<>> /\ jn.report[r].st = "none"
    BY ShortPlans DEF Init, EmptyJournal, NoReport
<1>2. \A r \in ReportIds : \A k \in 1 .. Len(told[r]) : FALSE
    BY <1>1
<1> QED
    BY <1>1, <1>2 DEF Outcome, OneOutcome, Telling

\* The requester hears one outcome, one the ledger took, however often reports are
\* resent and files applied again; under two report ids it can only hear the block
\* for a missing report (deliver_task_report, _retry_pending_reports).
THEOREM TheTruthIsTold == Spec => []ToldIsTrue
<1>1. Init => Frame /\ Applying /\ Outcome
    BY InitFrame, InitApplying, InitOutcome
<1>2. Frame /\ Applying /\ Outcome /\ [Next]_vars => Frame' /\ Applying' /\ Outcome'
    BY FrameNext, ApplyingNext, OneOutcomeNext, TellingNext DEF Outcome
<1>3. Frame /\ Applying /\ Outcome => ToldIsTrue
    <2> SUFFICES ASSUME Frame, Applying, Outcome, NEW r \in ReportIds, NEW q \in ReportIds,
                        told[r] # <<>>, told[q] # <<>>
                 PROVE  \E y \in ledger.yes :
                            /\ \A k \in DOMAIN told[r] : told[r][k] = y.ev
                            /\ \A k \in DOMAIN told[q] : told[q][k] = y.ev
                            /\ r = q \/ y.cause[1] = "no_report"
        BY DEF ToldIsTrue
    <2>1. \A p \in ReportIds : told[p] \in Seq(Words) /\ DOMAIN told[p] = 1 .. Len(told[p])
                                 /\ (told[p] # <<>> => 1 \in 1 .. Len(told[p]))
        <3> SUFFICES ASSUME NEW p \in ReportIds
                     PROVE  told[p] \in Seq(Words) /\ DOMAIN told[p] = 1 .. Len(told[p])
                              /\ (told[p] # <<>> => 1 \in 1 .. Len(told[p]))
            OBVIOUS
        <3>1. told[p] \in Seq(Words)
            BY DEF Frame, Types
        <3> QED
            BY <3>1
    <2>2. \A p \in ReportIds : \A k \in 1 .. Len(told[p]) : Backed(p, told[p][k])
        BY DEF Outcome, Telling
    <2>3. \A y, z \in ledger.yes : y.ev \in Words /\ z.ev \in Words => y = z
        BY DEF Outcome, OneOutcome
    <2>4. PICK y \in ledger.yes : y.ev \in Words /\ ReportOf(y, r)
        BY <2>1, <2>2 DEF Backed
    <2>5. PICK z \in ledger.yes : z.ev \in Words /\ ReportOf(z, q)
        BY <2>1, <2>2 DEF Backed
    <2>6. z = y
        BY <2>3, <2>4, <2>5
    <2>7. \A p \in {r, q} : \A k \in DOMAIN told[p] : told[p][k] = y.ev
        BY <2>1, <2>2, <2>3, <2>4 DEF Backed
    <2>8. r = q \/ y.cause[1] = "no_report"
        <3>1. y.cause[1] \in {"row", "start", "budget", "fail", "no_report", "delivery"}
            <4>1. y.cause \in Causes
                BY <2>4 DEF Frame, Types, Ledgers
            <4> QED
                BY <4>1 DEF Causes
        <3>2. y.cause[1] # "start"
            <4>1. CauseFits(y)
                BY <2>4 DEF Applying, Answering
            <4> QED
                BY <2>4, <4>1 DEF CauseFits, Words, Final
        <3> QED
            BY <2>4, <2>5, <2>6, <3>1, <3>2 DEF ReportOf
    <2> QED
        BY <2>4, <2>7, <2>8
<1> QED
    BY <1>1, <1>2, <1>3, PTL DEF Spec

-----------------------------------------------------------------------------
\* A step whose successors are about no rows and no message to the agent itself.
LEMMA UnmovedStep ==
    ASSUME Frame, NEW h, At(h), NEW N, Goes(N), \A s \in N : s.op \notin RowSteps \cup {"self"},
           acc' = acc, jn'.rec = jn.rec, jn'.closed = jn.closed, Unposted
    PROVE  Unmoved
<1>1. \A s \in In(Tail(todo)) : s \in In(todo)
    BY AtStep, Rest
<1> QED
    BY <1>1 DEF Unmoved, Goes

LEMMA UnmovedReports ==
    ASSUME Frame,
           \/ deliver_task_report \/ Send \/ ReportDelivered \/ record_report_failure
           \/ retry_pending_reports \/ Resend
    PROVE  Unmoved
<1> jn \in Journals
    BY DEF Frame, Types
<1>1. UNCHANGED <<acc, inbox>> /\ \E h : At(h)
    BY DEF deliver_task_report, Send, SendFails, ReportDelivered, record_report_failure, retry_pending_reports,
           Resend, outside
<1>2. jn'.rec = jn.rec /\ jn'.closed = jn.closed
    <2>1. jn' = jn \/ \E v : jn' = [jn EXCEPT !.report = v]
        <3>1. CASE deliver_task_report
            <4> DEFINE v == [jn.report EXCEPT ![Arg] =
                               IF @.st = "none" THEN [@ EXCEPT !.st = "pending", !.says = Word] ELSE @]
            <4>1. jn' = jn \/ jn' = [jn EXCEPT !.report = v]
                BY <3>1 DEF deliver_task_report
            <4> HIDE DEF v
            <4> QED
                BY <4>1
        <3>2. CASE ReportDelivered
            <4> DEFINE v == [jn.report EXCEPT ![Arg].st = "delivered"]
            <4>1. jn' = [jn EXCEPT !.report = v]
                BY <3>2 DEF ReportDelivered
            <4> HIDE DEF v
            <4> QED
                BY <4>1
        <3>3. CASE record_report_failure
            <4> DEFINE n == jn.report[Arg].n + 1
                       v == [jn.report EXCEPT ![Arg] =
                               IF n >= ReportLimit THEN [@ EXCEPT !.st = "undeliverable"]
                               ELSE [@ EXCEPT !.n = n]]
            <4>1. jn' = [jn EXCEPT !.report = v]
                BY <3>3 DEF record_report_failure
            <4> HIDE DEF v
            <4> QED
                BY <4>1
        <3>4. CASE Send \/ retry_pending_reports \/ Resend
            BY <3>4 DEF Send, SendFails, retry_pending_reports, Resend
        <3> QED
            BY <3>1, <3>2, <3>3, <3>4
    <2>2. \A v : jn' = [jn EXCEPT !.report = v] => jn'.rec = jn.rec /\ jn'.closed = jn.closed
        BY DEF Journals
    <2> QED
        BY <2>1, <2>2, Zenon
<1> DEFINE Plain(N) == Goes(N) /\ \A s \in N : s.op \notin RowSteps \cup {"self"}
<1>3. \E N : Plain(N)
    <2>1. CASE deliver_task_report
        <3>1. Plain({Step("send", Arg, Word)})
            BY <2>1, DeliverFrame, StepFields DEF RowSteps
        <3> HIDE DEF Plain
        <3> QED
            BY <3>1
    <2>2. CASE Send
        <3>1. Plain({Do("sent", Arg), Do("unsent", Arg)})
            BY <2>2, SendFrame, StepFields DEF RowSteps
        <3> HIDE DEF Plain
        <3> QED
            BY <3>1
    <2>3. CASE ReportDelivered \/ record_report_failure
        <3>1. Plain({})
            BY <2>3, DeliveredFrame, UnsentFrame
        <3> HIDE DEF Plain
        <3> QED
            BY <3>1
    <2>4. CASE retry_pending_reports
        <3>1. Plain({s \in Steps : s.op = "resend" /\ jn.report[s.a].st = "pending"})
            BY <2>4, RetryReportsFrame DEF RowSteps
        <3> HIDE DEF Plain
        <3> QED
            BY <3>1
    <2>5. CASE Resend
        <3>1. Plain({Step("report", Arg, jn.report[Arg].says)})
            BY <2>5, ResendFrame, StepFields DEF RowSteps
        <3> HIDE DEF Plain
        <3> QED
            BY <3>1
    <2> QED
        BY <2>1, <2>2, <2>3, <2>4, <2>5
<1> QED
    BY <1>1, <1>2, <1>3, UnmovedStep DEF Unposted

LEMMA UnmovedAsking ==
    ASSUME Frame, handle_missing_report \/ service_fail \/ scan_task_dlq
    PROVE  Unmoved
<1>1. acc' = acc /\ jn' = jn /\ \E h : At(h)
    BY DEF handle_missing_report, service_fail, scan_task_dlq
<1>2. Unposted
    <2>1. inbox' = inbox \/ inbox' = Sent(Nudge)
        BY DEF handle_missing_report, service_fail, scan_task_dlq, SelfMessage
    <2>2. inbox \in Inboxes
        BY DEF Frame, Types, Inboxes
    <2>3. \A k \in {"c", "r"}, a \in Attempts : <<k, a>> # Nudge /\ <<k, a>> \in MsgIds
        BY DEF Nudge, MsgIds
    <2>4. ASSUME inbox' = Sent(Nudge), NEW x \in MsgIds, x # Nudge PROVE inbox'[x] = inbox[x]
        BY <2>2, <2>4 DEF Sent, Inboxes
    <2> QED
        BY <2>1, <2>3, <2>4 DEF Unposted
<1> DEFINE Plain(N) == Goes(N) /\ \A s \in N : s.op \notin RowSteps \cup {"self"}
<1>3. \E N : Plain(N)
    <2>1. CASE handle_missing_report
        <3>1. Plain({Step("report", Arg, "blocked"), Do("no_report", Arg)})
            BY <2>1, MissingFrame, StepFields DEF RowSteps
        <3> HIDE DEF Plain
        <3> QED
            BY <3>1
    <2>2. CASE service_fail
        <3>1. Plain({Step("report", Arg, "failed")})
            BY <2>2, FailFrame, StepFields DEF RowSteps
        <3> HIDE DEF Plain
        <3> QED
            BY <3>1
    <2>3. CASE scan_task_dlq
        <3>1. Plain({Step("report", Delivery, "cancelled"), Do("dlq_done", 0)})
            BY <2>3, DlqFrame, StepFields DEF RowSteps
        <3> HIDE DEF Plain
        <3> QED
            BY <3>1
    <2> QED
        BY <2>1, <2>2, <2>3
<1> QED
    BY <1>1, <1>2, <1>3, UnmovedStep

\* A step whose successors go by what is, or comes to be, on record.
LEMMA FollowingStep ==
    ASSUME Frame, Following, NEW h, At(h), h \notin ReportSteps, NEW N,
           In(todo') \subseteq N \cup In(Tail(todo)),
           \A s \in N : s.op \in RowSteps => Counts(s)',
           \A s \in N : s.op = "self" =>
                IF s.w = "c" THEN Continues(s.a)' ELSE OnRecord(s.a, "rejected")',
           \A a \in Attempts :
                /\ Continues(a) => Continues(a)'
                /\ OnRecord(a, "rejected") => OnRecord(a, "rejected")'
                /\ inbox'[<<"c", a>>] # "absent" => inbox[<<"c", a>>] # "absent" \/ Continues(a)
                /\ inbox'[<<"r", a>>] # "absent" => inbox[<<"r", a>>] # "absent" \/ OnRecord(a, "rejected")
    PROVE  Following'
<1>1. PlanOK /\ todo # <<>> /\ Head(todo).op = h
    BY AtStep
<1>2. \A s \in In(Tail(todo)) : s.op \notin RowSteps /\ s \in In(todo)
    BY <1>1, NoMoreRows, Rest
<1>3. \A s \in In(todo') : s.op \in RowSteps => Counts(s)'
    BY <1>2
<1>4. ASSUME NEW s \in In(todo'), s.op = "self"
      PROVE  IF s.w = "c" THEN Continues(s.a)' ELSE OnRecord(s.a, "rejected")'
    <2>1. CASE s \in N
        BY <1>4, <2>1
    <2>2. CASE s \in In(Tail(todo))
        <3>1. s \in In(todo) /\ s.a \in Attempts
            BY <1>1, <1>2, <1>4, <2>2 DEF PlanOK, StepOK, AttemptSteps
        <3>2. IF s.w = "c" THEN Continues(s.a) ELSE OnRecord(s.a, "rejected")
            BY <1>4, <3>1 DEF Following
        <3> QED
            BY <3>1, <3>2
    <2> QED
        BY <2>1, <2>2
<1>5. ASSUME NEW a \in Attempts
      PROVE  /\ inbox'[<<"c", a>>] # "absent" => Continues(a)'
             /\ inbox'[<<"r", a>>] # "absent" => OnRecord(a, "rejected")'
    BY DEF Following
<1> QED
    BY <1>3, <1>4, <1>5 DEF Following

\* The record does not shrink where nothing new is recorded.
LEMMA RecordStays ==
    ASSUME jn'.rec = jn.rec, \A a \in Attempts : jn.closed[a] # None => jn'.closed[a] = jn.closed[a],
           NEW a \in Attempts
    PROVE  /\ Continues(a) => Continues(a)'
           /\ \A o : OnRecord(a, o) => OnRecord(a, o)'
BY DEF Continues, Complete, OnRecord

\* The row step at hand.
LEMMA AtCounts ==
    ASSUME Frame, Following, NEW h \in RowSteps, At(h)
    PROVE  \A s : s.a = Arg => Counts(s)
<1>1. Head(todo) \in In(todo) /\ Head(todo).op = h /\ Head(todo).a = Arg
    BY AtStep, Rest
<1>2. Counts(Head(todo))
    BY <1>1 DEF Following
<1> QED
    BY <1>1, <1>2 DEF Counts, OnRecord

\* What was counted stands as long as nothing is counted or recorded.
LEMMA CountsKept ==
    ASSUME Frame, Following, NEW h \in RowSteps, At(h), acc' \in {acc, NoAcc}, jn'.rec = jn.rec
    PROVE  \A s : s.a = Arg => Counts(s)'
<1> SUFFICES ASSUME NEW s, s.a = Arg PROVE Counts(s)'
    OBVIOUS
<1>1. CASE acc' = acc
    <2>1. Counts(s)
        BY AtCounts
    <2> QED
        BY <1>1, <2>1 DEF Counts, OnRecord
<1>2. CASE acc' = NoAcc
    <2>1. ~acc'.cont /\ ~acc'.refused /\ acc'.i = 1
        BY <1>2 DEF NoAcc
    <2>2. \A i \in 1 .. Len(jn'.rec[s.a]) : ~(i < 1)
        OBVIOUS
    <2> QED
        BY <2>1, <2>2 DEF Counts
<1> QED
    BY <1>1, <1>2

LEMMA RowFollowings ==
    ASSUME Frame, Applying, Following, RefusedRow \/ ReportRow \/ BudgetBlock
    PROVE  Following'
<1>1. /\ inbox' = inbox /\ acc' \in {acc, NoAcc} /\ jn'.rec = jn.rec /\ jn'.closed = jn.closed
      /\ \E h \in RowSteps : At(h)
    BY DEF RefusedRow, ReportRow, BudgetBlock, NewRow, MoreRows, outside, RowSteps
<1> DEFINE Mine(N) == Goes(N) /\ \A s \in N : s.op # "self" /\ (s.op \in RowSteps => s.a = Arg)
<1>2. \E N : Mine(N)
    <2>1. CASE RefusedRow
        <3>1. Mine({Step("record", Arg, "rejected"), Do("retry", Arg)})
            BY <2>1, RefusedFrame, StepFields
        <3> HIDE DEF Mine
        <3> QED
            BY <3>1
    <2>2. CASE ReportRow
        <3>1. Mine({Step("record", Arg, Row), Step("record", Arg, "rejected"),
                    Do("budget", Arg), Do("retry", Arg)})
            BY <2>2, ReportRowFrame, StepFields
        <3> HIDE DEF Mine
        <3> QED
            BY <3>1
    <2>3. CASE BudgetBlock
        <3>1. Mine({Step("report", Arg, "blocked"), Step("record", Arg, "budget"), Do("retry", Arg)})
            BY <2>3, BudgetFrame, StepFields
        <3> HIDE DEF Mine
        <3> QED
            BY <3>1
    <2> QED
        BY <2>1, <2>2, <2>3
<1>3. \A s : s.a = Arg => Counts(s)'
    BY <1>1, CountsKept
<1>4. PICK h \in RowSteps : At(h)
    BY <1>1
<1>5. h \notin ReportSteps
    BY DEF RowSteps, ReportSteps
<1> QED
    BY <1>1, <1>2, <1>3, <1>4, <1>5, RecordStays, FollowingStep DEF Goes

LEMMA FileFollowing ==
    ASSUME Frame, Applying, Following, ApplyFile
    PROVE  Following'
<1> DEFINE N == {Do("quarantine", Arg), Do("unlink", Arg), Do("row", Arg), Do("retry", Arg)}
           v == [jn.closed EXCEPT ![Arg] = ClosedAs(Arg)]
<1>1. At("apply") /\ inbox' = inbox
    BY DEF ApplyFile, outside
<1>2. ~acc'.cont /\ ~acc'.refused /\ acc'.i = 1
    <2> DEFINE f == file[Arg]
               w == ledger.state
    <2>1. acc' = NoAcc \/ acc' = [NoAcc EXCEPT !.rows = f, !.was = w]
        BY DEF ApplyFile
    <2> HIDE DEF f, w
    <2>2. acc' = NoAcc => ~acc'.cont /\ ~acc'.refused /\ acc'.i = 1
        BY DEF NoAcc
    <2>3. acc' = [NoAcc EXCEPT !.rows = f, !.was = w] => ~acc'.cont /\ ~acc'.refused /\ acc'.i = 1
        BY DEF NoAcc
    <2> QED
        BY <2>1, <2>2, <2>3
<1>3. jn'.rec = jn.rec
    <2>1. jn' = [jn EXCEPT !.closed = v] /\ jn \in Journals
        BY DEF ApplyFile, Frame, Types
    <2> HIDE DEF v
    <2> QED
        BY <2>1 DEF Journals
<1>4. Goes(N)
    BY ApplyFrame
<1>5. \A s \in N : s.op # "self"
    BY StepFields
<1> HIDE DEF N, v
<1>6. \A s \in N : Counts(s)'
    <2>1. \A s : \A i \in 1 .. Len(jn'.rec[s.a]) : ~(i < 1)
        OBVIOUS
    <2> QED
        BY <1>2, <2>1 DEF Counts
<1>7. \A a \in Attempts : jn.closed[a] # None => jn'.closed[a] = jn.closed[a]
    <2>1. jn' = [jn EXCEPT !.closed = v] /\ jn \in Journals
        BY DEF ApplyFile, Frame, Types, v
    <2>2. \A a \in Attempts : jn.closed[a] # None => v[a] = jn.closed[a]
        <3>1. jn.closed \in [Attempts -> Contents \cup {None}]
            BY <2>1, JournalTypes
        <3>2. jn.closed[Arg] # None => ClosedAs(Arg) = jn.closed[Arg]
            BY DEF ClosedAs
        <3> QED
            BY <3>1, <3>2 DEF v
    <2> QED
        BY <2>1, <2>2 DEF Journals
<1> QED
    BY <1>1, <1>3, <1>4, <1>5, <1>6, <1>7, RecordStays, FollowingStep DEF Goes, ReportSteps

LEMMA RecordedFollowing ==
    ASSUME Frame, Applying, Following, RecordedRow
    PROVE  Following'
<1> DEFINE o == jn.rec[Arg][acc.i]
           N == {Head(todo)}
<1>1. /\ At("row") /\ "row" \in RowSteps /\ "row" \notin ReportSteps
      /\ acc.i <= Len(jn.rec[Arg]) /\ acc' = Counted(acc, o)
      /\ UNCHANGED <<todo, ledger, jn, inbox>> /\ jn'.rec = jn.rec /\ jn'.closed = jn.closed
    BY DEF RecordedRow, MoreRows, outside, RowSteps, ReportSteps
<1>2. /\ PlanOK /\ todo # <<>> /\ Head(todo).op = "row" /\ Head(todo).a = Arg /\ Arg \in Attempts
      /\ acc \in Locals /\ acc.i \in Nat \ {0} /\ Len(jn.rec[Arg]) \in Nat
    BY <1>1, AtStep, AtRow
<1>3. acc.i \in 1 .. Len(jn.rec[Arg])
    BY <1>1, <1>2
<1>4. \A s : s = Head(todo) => Counts(s)
    BY <1>1, <1>2, AtCounts
<1> HIDE DEF o
<1>5. /\ acc'.i = acc.i + 1 /\ (acc'.handled <=> acc.handled \/ o \in Reports)
      /\ (acc'.refused <=> acc.refused \/ o = "rejected") /\ (acc'.cont <=> acc.cont \/ o = "continue")
    BY <1>1, <1>2 DEF Counted, Locals
<1>6. \A s : s = Head(todo) => Counts(s)'
    <2> SUFFICES ASSUME NEW s, s = Head(todo) PROVE Counts(s)'
        OBVIOUS
    <2>1. Counts(s) /\ s.a = Arg
        BY <1>2, <1>4
    <2>2. OnRecord(Arg, o)
        BY <1>3 DEF OnRecord, o
    <2>3. \A w : OnRecord(s.a, w) => OnRecord(s.a, w)'
        BY <1>1 DEF OnRecord
    <2>4. acc'.cont => acc'.handled
        BY <1>5, <2>1 DEF Counts, Reports
    <2>5. (acc'.refused => OnRecord(s.a, "rejected")') /\ (acc'.cont => OnRecord(s.a, "continue")')
        BY <1>5, <2>1, <2>2, <2>3 DEF Counts
    <2>6. ASSUME ~acc'.refused, NEW i \in 1 .. Len(jn.rec[s.a]), i < acc'.i
          PROVE  jn.rec[s.a][i] # "rejected"
        <3>1. i < acc.i \/ i = acc.i
            BY <1>2, <1>5, <2>6
        <3> QED
            BY <1>5, <2>1, <2>6, <3>1 DEF Counts, o
    <2> QED
        BY <1>1, <2>4, <2>5, <2>6 DEF Counts
<1>7. In(todo') \subseteq N \cup In(Tail(todo)) /\ \A s \in N : s.op # "self"
    BY <1>1, <1>2, Rest
<1>8. \A s \in N : Counts(s)'
    BY <1>6
<1> HIDE DEF N
<1> QED
    BY <1>1, <1>7, <1>8, RecordStays, FollowingStep

LEMMA RecordFollowing ==
    ASSUME Frame, Applying, Following, RecordRow
    PROVE  Following'
<1> DEFINE x == Do("row", Arg)
           n == Len(jn.rec[Arg])
           N == {x}
<1>1. /\ At("record") /\ "record" \in RowSteps /\ "record" \notin ReportSteps /\ Then(<<x>>)
      /\ inbox' = inbox
      /\ jn' = [jn EXCEPT !.rec[Arg] = Append(@, Word)]
      /\ acc' = [Counted(acc, Word) EXCEPT !.handled = @ \/ Word = "budget"]
    BY DEF RecordRow, RowSteps, ReportSteps, outside
<1>2. /\ Arg \in Attempts /\ acc.rows = jn.closed[Arg] /\ acc.i = n + 1 /\ acc.i <= Len(acc.rows)
      /\ n \in Nat /\ Len(acc.rows) \in Nat /\ jn \in Journals /\ acc \in Locals
    BY <1>1, AtRow
<1>3. PlanOK /\ todo # <<>> /\ Word \in Outcomes
    BY <1>1, AtStep DEF StepOK, Word
<1>4. /\ acc'.i = acc.i + 1 /\ (acc.handled \/ Word \in Reports => acc'.handled)
      /\ (acc'.refused <=> acc.refused \/ Word = "rejected")
      /\ (acc'.cont <=> acc.cont \/ Word = "continue")
    BY <1>1, <1>2 DEF Counted, Locals
<1>5. /\ jn'.rec[Arg] = Append(jn.rec[Arg], Word) /\ jn'.closed = jn.closed
      /\ \A a \in Attempts : a # Arg => jn'.rec[a] = jn.rec[a]
    BY <1>1, <1>2, <1>3, RecType DEF Alike, Fields
<1>6. /\ Len(jn'.rec[Arg]) = n + 1 /\ jn'.rec[Arg][n + 1] = Word
      /\ \A i \in 1 .. n : jn'.rec[Arg][i] = jn.rec[Arg][i]
    <2>1. jn.rec[Arg] \in Seq(Outcomes)
        BY <1>2, JournalTypes
    <2> QED
        BY <1>3, <1>5, <2>1, AppendProperties
<1>7. x.op = "row" /\ x.a = Arg
    BY StepFields
<1>8. In(todo') \subseteq N \cup In(Tail(todo)) /\ \A s \in N : s.op # "self"
    BY <1>1, <1>3, <1>7, InThen
<1>9. \A s : s.a = Arg => Counts(s)
    BY <1>1, AtCounts
<1>10. \A k : k = Arg => \A o : (OnRecord(k, o) => OnRecord(k, o)') /\ (o = Word => OnRecord(k, o)')
    <2> SUFFICES ASSUME NEW k, k = Arg, NEW o
                 PROVE  (OnRecord(k, o) => OnRecord(k, o)') /\ (o = Word => OnRecord(k, o)')
        OBVIOUS
    <2>1. n + 1 \in 1 .. n + 1 /\ \A i \in 1 .. n : i \in 1 .. n + 1
        BY <1>2
    <2> QED
        BY <1>6, <2>1 DEF OnRecord, n
<1> HIDE DEF x
<1>11. ~Complete(Arg)
    BY <1>2 DEF Complete
<1>12. ASSUME NEW a \in Attempts
       PROVE  /\ Continues(a) => Continues(a)'
              /\ OnRecord(a, "rejected") => OnRecord(a, "rejected")'
    <2>1. CASE a = Arg
        BY <1>10, <1>11, <2>1 DEF Continues
    <2>2. CASE a # Arg
        BY <1>5, <2>2 DEF Continues, Complete, OnRecord
    <2> QED
        BY <2>1, <2>2
<1>13. ASSUME NEW s \in N PROVE Counts(s)'
    <2>1. Counts(s) /\ s.a = Arg
        BY <1>7, <1>9
    <2>2. acc'.cont => acc'.handled
        BY <1>4, <2>1 DEF Counts, Reports
    <2>3. acc'.refused => OnRecord(s.a, "rejected")'
        BY <1>4, <1>10, <2>1 DEF Counts
    <2>4. acc'.cont => OnRecord(s.a, "continue")'
        BY <1>4, <1>10, <2>1 DEF Counts
    <2>5. ASSUME ~acc'.refused, NEW i \in 1 .. Len(jn'.rec[s.a]) PROVE jn'.rec[s.a][i] # "rejected"
        <3>1. i = n + 1 \/ i \in 1 .. n
            BY <1>2, <1>6, <2>1, <2>5
        <3>2. CASE i = n + 1
            BY <1>4, <1>6, <2>1, <2>5, <3>2
        <3>3. CASE i \in 1 .. n
            <4>1. i < acc.i
                BY <1>2, <3>3
            <4> QED
                BY <1>4, <1>6, <2>1, <2>5, <3>3, <4>1 DEF Counts, n
        <3> QED
            BY <3>1, <3>2, <3>3
    <2> QED
        BY <2>2, <2>3, <2>4, <2>5 DEF Counts
<1> HIDE DEF N, n
<1> QED
    BY <1>1, <1>8, <1>12, <1>13, FollowingStep

LEMMA RowsDoneFollowing ==
    ASSUME Frame, Applying, Applying', Following, RowsDone
    PROVE  Following'
<1> DEFINE N == {s \in Steps : Due(s, Arg)}
           n == Len(jn.rec[Arg])
<1>1. /\ At("row") /\ "row" \in RowSteps /\ "row" \notin ReportSteps /\ acc.i > Len(acc.rows)
      /\ inbox' = inbox /\ UNCHANGED <<acc, jn>> /\ jn'.rec = jn.rec /\ jn'.closed = jn.closed
    BY DEF RowsDone, outside, RowSteps, ReportSteps
<1>2. /\ Arg \in Attempts /\ jn.closed[Arg] # None /\ acc.rows = jn.closed[Arg]
      /\ acc.i <= n + 1 /\ n \in Nat /\ acc.i \in Nat /\ Len(acc.rows) \in Nat /\ jn \in Journals
    BY <1>1, AtRow
<1>3. n <= Len(acc.rows)
    <2>1. jn.rec[Arg] # <<>> => n <= Len(acc.rows)
        BY <1>2 DEF Applying, Recorded
    <2>2. jn.rec[Arg] = <<>> => n = 0
        OBVIOUS
    <2> HIDE DEF n
    <2> QED
        BY <1>2, <2>1, <2>2
<1>4. n = Len(acc.rows) /\ \A i \in 1 .. n : i < acc.i
    <2> HIDE DEF n
    <2> QED
        BY <1>1, <1>2, <1>3
<1>5. Complete(Arg)
    BY <1>2, <1>4 DEF Complete
<1>6. \A s : s.a = Arg => Counts(s)
    BY <1>1, AtCounts
<1>7. Goes(N)
    BY RowsDoneFrame
<1>8. ASSUME NEW s \in N
      PROVE  /\ s.op \notin RowSteps
             /\ s.op = "self" => IF s.w = "c" THEN Continues(s.a)' ELSE OnRecord(s.a, "rejected")'
    <2>1. Due(s, Arg) /\ s.a = Arg /\ Counts(s)
        BY <1>6 DEF Due
    <2>2. s.op \notin RowSteps
        BY <2>1 DEF Due, RowSteps
    <2>3. CASE s.op = "self" /\ s.w = "c"
        <3>1. acc.cont /\ acc.handled /\ ~acc.refused
            BY <2>1, <2>3 DEF Due, Counts
        <3>2. \A i \in 1 .. Len(jn.rec[s.a]) : jn.rec[s.a][i] # "rejected"
            BY <1>4, <2>1, <3>1 DEF Counts
        <3>3. Continues(s.a)
            BY <1>5, <2>1, <3>2 DEF Continues, OnRecord
        <3>4. Continues(s.a)'
            BY <1>1, <3>3 DEF Continues, Complete, OnRecord
        <3> QED
            BY <2>2, <2>3, <3>4
    <2>4. CASE s.op = "self" /\ s.w # "c"
        <3>1. acc.refused
            BY <2>1, <2>4 DEF Due
        <3>2. OnRecord(s.a, "rejected")
            BY <2>1, <3>1 DEF Counts
        <3>3. OnRecord(s.a, "rejected")'
            BY <1>1, <3>2 DEF OnRecord
        <3> QED
            BY <2>2, <2>4, <3>3
    <2> QED
        BY <2>2, <2>3, <2>4
<1> HIDE DEF N
<1> QED
    BY <1>1, <1>7, <1>8, RecordStays, FollowingStep DEF Goes

LEMMA SelfFollowing ==
    ASSUME Frame, Following, SendToSelf
    PROVE  Following'
<1> DEFINE m == <<Word, Arg>>
           N == {}
<1>1. /\ At("self") /\ "self" \notin ReportSteps /\ inbox' \in {inbox, Sent(m)}
      /\ jn' = jn /\ jn'.rec = jn.rec /\ jn'.closed = jn.closed
    BY DEF SendToSelf, SelfMessage, ReportSteps
<1>2. /\ PlanOK /\ todo # <<>> /\ Head(todo) \in In(todo) /\ Head(todo).op = "self"
      /\ Head(todo).a = Arg /\ Head(todo).w = Word
    BY <1>1, AtStep, Rest DEF Word
<1>3. Word \in {"c", "r"}
    BY <1>2 DEF PlanOK, StepOK
<1>4. IF Word = "c" THEN Continues(Arg) ELSE OnRecord(Arg, "rejected")
    BY <1>2 DEF Following
<1>5. inbox \in Inboxes
    BY DEF Frame, Types, Inboxes
<1>6. ASSUME NEW k \in {"c", "r"}, NEW a \in Attempts, inbox'[<<k, a>>] # "absent"
      PROVE  inbox[<<k, a>>] # "absent" \/ (k = Word /\ a = Arg)
    <2> DEFINE x == <<k, a>>
    <2>1. x \in MsgIds
        BY DEF MsgIds
    <2>2. x # m => inbox'[x] = inbox[x]
        <3> HIDE DEF x, m
        <3> QED
            BY <1>1, <1>5, <2>1 DEF Sent, Inboxes
    <2>3. x = m => k = Word /\ a = Arg
        OBVIOUS
    <2> QED
        BY <1>6, <2>2, <2>3
<1>7. Goes(N)
    BY SelfFrame
<1>8. ASSUME NEW a \in Attempts
      PROVE  /\ inbox'[<<"c", a>>] # "absent" => inbox[<<"c", a>>] # "absent" \/ Continues(a)
             /\ inbox'[<<"r", a>>] # "absent" =>
                    inbox[<<"r", a>>] # "absent" \/ OnRecord(a, "rejected")
    <2>1. inbox'[<<"c", a>>] # "absent" => inbox[<<"c", a>>] # "absent" \/ ("c" = Word /\ a = Arg)
        BY <1>6
    <2>2. inbox'[<<"r", a>>] # "absent" => inbox[<<"r", a>>] # "absent" \/ ("r" = Word /\ a = Arg)
        BY <1>6
    <2> QED
        BY <1>4, <2>1, <2>2
<1>9. \A s \in N : FALSE
    OBVIOUS
<1> HIDE DEF N, m
<1> QED
    BY <1>1, <1>7, <1>8, <1>9, RecordStays, FollowingStep DEF Goes

LEMMA FollowingNext ==
    ASSUME Frame, Applying, Applying', Following, [Next]_vars
    PROVE  Following'
<1>1. CASE UNCHANGED vars
    BY <1>1 DEF vars, Following, Counts, Continues, Complete, OnRecord
<1>2. CASE Handler
    BY <1>2, UnmovedReports, UnmovedAsking, FileFollowing, RecordedFollowing, RowFollowings,
       RecordFollowing, RowsDoneFollowing, SelfFollowing, AsidePlain, AsideNoting, AsideChanging,
       AsideAnew, AsideIsUnmoved, FollowingAside
       DEF Handler
<1>3. CASE Loop \/ Restart \/ Crash \/ Elsewhere
    BY <1>3, AsideAnew, AsideIsUnmoved, FollowingAside
<1> QED
    BY <1>1, <1>2, <1>3 DEF Next, Elsewhere

LEMMA InitFollowing ==
    ASSUME Init
    PROVE  Following
<1>1. In(todo) = {}
    BY ShortPlans DEF Init
<1>2. \A a \in Attempts : inbox[<<"c", a>>] = "absent" /\ inbox[<<"r", a>>] = "absent"
    BY DEF Init, MsgIds, Assignment
<1> QED
    BY <1>1, <1>2 DEF Following

\* All of it together is inductive.
THEOREM IntentInvariant == Spec => []IInv
<1>1. Init => IInv
    BY InitFrame, InitApplying, InitOutcome, InitFollowing DEF IInv
<1>2. IInv /\ [Next]_vars => IInv'
    BY FrameNext, ApplyingNext, OneOutcomeNext, TellingNext, FollowingNext DEF IInv, Outcome
<1> QED
    BY <1>1, <1>2, PTL DEF Spec

\* An attempt is followed by a continuation or by a receipt, never by both, though
\* its file may be applied again after a kill at any step: which one it is goes by
\* what is on record (apply_intent_file's handled_refused and continuation).
THEOREM OneMessageFollows == Spec => []OneFollowUp
<1>1. IInv => OneFollowUp
    <2>1. ASSUME Following, NEW a \in Attempts
          PROVE  ~(inbox[<<"c", a>>] # "absent" /\ inbox[<<"r", a>>] # "absent")
        <3>1. /\ inbox[<<"c", a>>] # "absent" => Continues(a)
              /\ inbox[<<"r", a>>] # "absent" => OnRecord(a, "rejected")
            BY <2>1 DEF Following
        <3> QED
            BY <3>1 DEF Continues
    <2> QED
        BY <2>1, Zenon DEF OneFollowUp, IInv
<1> QED
    BY <1>1, IntentInvariant, PTL
=============================================================================
