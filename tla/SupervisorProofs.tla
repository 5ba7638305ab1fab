-------------------------- MODULE SupervisorProofs --------------------------
(***************************************************************************)
(* Theorems about the supervisor of one agent, for any messages, session   *)
(* ids, requests, faults and bounds.                                       *)
(*                                                                         *)
(* A handler is a list of durable steps and a crash may fall between any   *)
(* two, so the argument is about what may stand in that list together with *)
(* which child, work and request (Planned), and about what memory and      *)
(* journal agree on while it is worked off (Agreed).                       *)
(***************************************************************************)
EXTENDS Supervisor, SequenceTheorems, TLAPS

\* The steps left in a plan.
In(s) == {s[i] : i \in 1 .. Len(s)}

\* What a forced request leaves to do after the turn it cancels.
Afters == {"clear", "note", "fresh", "restart", "stop"}

\* The steps that only the execution of a control request has.
ControlSteps == {"cancel", "clear", "fresh", "restart", "routine", "duty", "stop"}

\* Step x may stand before step y in one plan.
MayPrecede(x, y) ==
    \/ y \in Afters /\ x \notin {"start", "launch", "engine", "routine", "duty", "boot"}
    \/ x = "restored" /\ y \in {"done", "off", "drop", "bind"}
    \/ x = "persist" /\ y \in {"fail", "drop"}
    \/ x = "note" /\ y \in {"rebind", "drop", "boot"}
    \/ x = "rebind" /\ y \in {"drop", "boot"}
    \/ x = "duty" /\ y = "routine"
    \/ x = "bind" /\ y \in {"start", "launch"}
    \/ x = "start" /\ y = "launch"

Ordered(s) == \A i, j \in 1 .. Len(s) : i < j => MayPrecede(s[i], s[j])

LaunchPlans == {<<"launch">>, <<"start", "launch">>, <<"bind", "start", "launch">>}

\* The plan by itself, and whose plan it is.
TodoOK ==
    /\ Ordered(todo)
    /\ "start" \in In(todo) \/ "launch" \in In(todo) => todo \in LaunchPlans
    /\ todo # <<>> => phase \in {"boot", "run"}
    /\ "boot" \in In(todo) => phase = "boot"
    /\ phase = "boot" => In(todo) \subseteq {"note", "rebind", "boot"}
    /\ In(todo) \cap ControlSteps # {} => cur # 0
    /\ "routine" \in In(todo) =>
          cur \in DOMAIN ctl /\ ctl[cur].verb \in {"feierabend", "standup"}

\* The work the plan is about.
WorkSteps == {"start", "launch", "finish", "done", "fail", "persist", "engine"}

\* A routine item belongs to a request for one.
RoutinesFiled(w, c) ==
    \A i \in 1 .. Len(w) :
        w[i].kind = "ctl" =>
            w[i].req \in DOMAIN c /\ c[w[i].req].verb \in {"feierabend", "standup"}

WorkOK ==
    /\ In(todo) \cap WorkSteps # {} => work # <<>>
    /\ "note" \in In(todo) /\ phase = "run" /\ cur = 0 =>
          work # <<>> /\ todo = <<"note", "rebind", "drop">>
    /\ RoutinesFiled(work, ctl)

\* The turn the plan is about.
ChildOK ==
    /\ child.st = "prepared" <=> At("launch")
    /\ Process /\ todo # <<>> => At("cancel") \/ At("finish") \/ todo = <<"clear">>
    /\ child.st # "none" => phase = "run" /\ work # <<>> /\ child.sid \in Sids

\* What the main loop looked at before it planned a turn.
StartOK ==
    /\ todo = <<"start", "launch">> => mem.sid # None
    /\ "start" \in In(todo) /\ Head(work).kind # "ctl" => ~mem.tripped /\ ~mem.off

Planned == TodoOK /\ WorkOK /\ ChildOK /\ StartOK

\* The process has a memory.
Alive == phase \in {"boot", "orphaned", "run"}

\* What memory and journal agree on, between any two durable steps.
Agreed ==
    /\ strikes = disk.c.brake
    /\ Alive =>
        /\ mem.sid = disk.c.sid /\ mem.fresh = disk.c.fresh /\ mem.turns = disk.c.turns
        /\ mem.brake = disk.c.brake /\ mem.off = disk.c.off
        /\ mem.brake >= Burst => mem.tripped
        /\ mem.tripped => disk.c.tripped \/ disk.c.brake >= Burst
        /\ \A i \in Ids : disk.c.losses[i] <= mem.losses[i]
        /\ At("restored") => mem.streak = 0
        /\ ~At("restored") /\ ~At("persist") => mem.streak = disk.c.streak

\* A session that is to be launched as new: was not yet.
FreshOK ==
    /\ disk.c.fresh => disk.c.sid \notin used
    /\ child.st = "prepared" => ~disk.c.fresh
    /\ child.st = "prepared" /\ child.arg = "new" => child.sid \notin used

\* The journal shows every turn that may still be running.
OpenOK ==
    /\ child.st # "none" => disk.open # None
    /\ orphans # {} => disk.open # None
    /\ phase = "run" => orphans = {}

SInv == TypeOK /\ Planned /\ Agreed

-----------------------------------------------------------------------------
(***************************************************************************)
(* Plans.                                                                  *)
(***************************************************************************)
\* The first step of a plan is one of its steps.
LEMMA HeadIn ==
    ASSUME NEW s \in Seq(Steps), s # <<>>
    PROVE  Head(s) \in In(s) /\ Head(s) \in Steps
<1>1. Len(s) \in Nat \ {0} /\ Head(s) = s[1]
    BY EmptySeq, HeadTailProperties, LenProperties
<1>2. s[1] \in Steps
    BY <1>1, ElementOfSeq
<1> QED
    BY <1>1, <1>2 DEF In

\* A plan without steps is empty.
LEMMA InEmpty ==
    In(<<>>) = {} /\ \A s \in Seq(Steps) : In(s) = {} => s = <<>>
BY HeadIn DEF In

\* Working off the first step leaves an ordered plan whose steps may all come
\* after that step.
LEMMA TailOrdered ==
    ASSUME NEW s \in Seq(Steps), s # <<>>, Ordered(s)
    PROVE  /\ Tail(s) \in Seq(Steps)
           /\ Ordered(Tail(s))
           /\ In(Tail(s)) \subseteq In(s)
           /\ \A y \in In(Tail(s)) : MayPrecede(Head(s), y)
<1>1. /\ Tail(s) \in Seq(Steps)
      /\ Len(Tail(s)) = Len(s) - 1
      /\ Len(s) \in Nat \ {0}
      /\ Head(s) = s[1]
      /\ \A i \in 1 .. Len(Tail(s)) : Tail(s)[i] = s[i + 1]
    BY EmptySeq, HeadTailProperties, LenProperties
<1>2. Ordered(Tail(s))
    BY <1>1 DEF Ordered
<1>3. In(Tail(s)) \subseteq In(s)
    BY <1>1 DEF In
<1>4. \A y \in In(Tail(s)) : MayPrecede(Head(s), y)
    BY <1>1 DEF In, Ordered
<1> QED
    BY <1>1, <1>2, <1>3, <1>4

\* A step in front of an ordered plan.
LEMMA Prepend ==
    ASSUME NEW a \in Steps, NEW r \in Seq(Steps), Ordered(r),
           \A y \in In(r) : MayPrecede(a, y)
    PROVE  /\ <<a>> \o r \in Seq(Steps) /\ <<a>> \o r # <<>>
           /\ Head(<<a>> \o r) = a
           /\ Tail(<<a>> \o r) = r
           /\ Ordered(<<a>> \o r)
           /\ In(<<a>> \o r) = {a} \cup In(r)
<1> DEFINE t == <<a>> \o r
<1>1. /\ t \in Seq(Steps)
      /\ Len(t) = 1 + Len(r)
      /\ Len(r) \in Nat
      /\ t[1] = a
      /\ \A i \in 2 .. Len(t) : t[i] = r[i - 1]
    BY ConcatProperties, LenProperties
<1>2. \A i \in 1 .. Len(r) : r[i] \in In(r) /\ t[i + 1] = r[i]
    BY <1>1 DEF In
<1>3. Ordered(t)
    <2> SUFFICES ASSUME NEW i \in 1 .. Len(t), NEW j \in 1 .. Len(t), i < j
                 PROVE  MayPrecede(t[i], t[j])
        BY DEF Ordered
    <2>1. j - 1 \in 1 .. Len(r) /\ t[j] = r[j - 1]
        BY <1>1
    <2>2. CASE i = 1
        BY <1>1, <1>2, <2>1, <2>2
    <2>3. CASE i # 1
        <3>1. i - 1 \in 1 .. Len(r) /\ t[i] = r[i - 1] /\ i - 1 < j - 1
            BY <1>1, <2>1, <2>3
        <3> QED
            BY <2>1, <3>1 DEF Ordered
    <2> QED
        BY <2>2, <2>3
<1>4. In(t) = {a} \cup In(r)
    <2> HIDE DEF t
    <2>1. ASSUME NEW i \in 1 .. Len(t) PROVE t[i] \in {a} \cup In(r)
        BY <1>1 DEF In
    <2>2. a \in In(t)
        BY <1>1 DEF In
    <2>3. ASSUME NEW i \in 1 .. Len(r) PROVE r[i] \in In(t)
        <3>1. i + 1 \in 1 .. Len(t) /\ t[i + 1] = r[i]
            BY <1>1, <1>2
        <3> QED
            BY <3>1 DEF In
    <2> QED
        BY <2>1, <2>2, <2>3 DEF In
<1>5. t # <<>> /\ Head(t) = a
    BY <1>1, EmptySeq, HeadTailProperties
<1>6. Tail(t) = r
    BY SMT
<1> QED
    BY <1>1, <1>3, <1>4, <1>5, <1>6

\* The fixed plans, step by step.
LEMMA FixedPlans ==
    /\ In(<<"launch">>) = {"launch"} /\ Tail(<<"launch">>) = <<>>
    /\ In(<<"start", "launch">>) = {"start", "launch"}
    /\ Tail(<<"start", "launch">>) = <<"launch">>
    /\ In(<<"bind", "start", "launch">>) = {"bind", "start", "launch"}
    /\ Tail(<<"bind", "start", "launch">>) = <<"start", "launch">>
    /\ Tail(<<"note", "rebind", "drop">>) = <<"rebind", "drop">>
    /\ In(<<"rebind", "drop">>) = {"rebind", "drop"}
    /\ Tail(<<"clear">>) = <<>>
BY DEF In

\* One step of the plan is done: what is left is still somebody's plan.
LEMMA StepDone ==
    ASSUME todo \in Seq(Steps), TodoOK, todo # <<>>, Then(<<>>)
    PROVE  /\ todo' = Tail(todo) /\ todo' \in Seq(Steps)
           /\ Ordered(todo')
           /\ In(todo') \subseteq In(todo)
           /\ \A y \in In(todo') : MayPrecede(Head(todo), y)
           /\ todo' # <<>> => cur' = cur /\ Head(todo') \in In(todo')
           /\ todo' = <<>> => cur' = 0
<1>1. Tail(todo) \in Seq(Steps)
    BY HeadTailProperties
<1>2. <<>> \o Tail(todo) = Tail(todo)
    BY <1>1, ConcatEmptySeq
<1>3. todo' = Tail(todo) /\ cur' = IF Tail(todo) = <<>> THEN 0 ELSE cur
    BY <1>2 DEF Then, Rest
<1> QED
    BY <1>3, TailOrdered, HeadIn DEF TodoOK

LEMMA StepTodo ==
    ASSUME todo \in Seq(Steps), TodoOK, todo # <<>>, Then(<<>>), UNCHANGED <<phase, ctl>>
    PROVE  TodoOK'
<1>1. In(todo') # {} => todo' # <<>>
    BY InEmpty
<1>2. /\ Ordered(todo') /\ In(todo') \subseteq In(todo)
      /\ In(todo') # {} => cur' = cur
    BY StepDone, <1>1
<1>3. ASSUME "start" \in In(todo') \/ "launch" \in In(todo')
      PROVE  todo' \in LaunchPlans
    <2>1. todo \in LaunchPlans /\ todo' = Tail(todo)
        BY <1>2, <1>3, StepDone DEF TodoOK
    <2> QED
        BY <1>3, <2>1, FixedPlans, InEmpty DEF LaunchPlans
<1>4. In(todo') \cap ControlSteps # {} => In(todo) \cap ControlSteps # {} /\ In(todo') # {}
    BY <1>2
<1> QED
    BY <1>2, <1>3, <1>4 DEF TodoOK

\* The work is kept, or the step was the last one about it.
LEMMA StepWork ==
    ASSUME todo \in Seq(Steps), TodoOK, WorkOK, todo # <<>>, Then(<<>>),
           UNCHANGED <<phase, ctl>>,
           work' = work \/ (work' = <<>> /\ Head(todo) \in {"drop", "off", "done", "fail"})
    PROVE  WorkOK'
<1>1. /\ In(todo') \subseteq In(todo)
      /\ \A y \in In(todo') : MayPrecede(Head(todo), y)
      /\ In(todo') # {} => cur' = cur
      /\ todo' = Tail(todo)
    BY StepDone, InEmpty
<1>2. ~("note" \in In(todo') /\ phase' = "run" /\ cur' = 0)
    <2> SUFFICES ASSUME "note" \in In(todo'), phase' = "run", cur' = 0 PROVE FALSE
        OBVIOUS
    <2>1. todo = <<"note", "rebind", "drop">>
        BY <1>1 DEF WorkOK
    <2> QED
        BY <1>1, <2>1, FixedPlans
<1>3. CASE work' = work
    BY <1>1, <1>2, <1>3 DEF WorkOK
<1>4. CASE work' = <<>> /\ Head(todo) \in {"drop", "off", "done", "fail"}
    <2>1. In(todo') \cap WorkSteps = {}
        BY <1>1, <1>4 DEF MayPrecede, WorkSteps, Afters
    <2> QED
        BY <1>2, <1>4, <2>1 DEF WorkOK, RoutinesFiled
<1> QED
    BY <1>3, <1>4

\* No turn is planned and no child is there after most steps.
LEMMA StepNoChild ==
    ASSUME todo \in Seq(Steps), TodoOK, todo # <<>>, Then(<<>>),
           todo \notin LaunchPlans, child'.st = "none"
    PROVE  ChildOK' /\ StartOK'
<1>1. /\ In(todo') \subseteq In(todo)
      /\ todo' # <<>> => Head(todo') \in In(todo')
    BY StepDone
<1>2. "start" \notin In(todo') /\ "launch" \notin In(todo')
    BY <1>1 DEF TodoOK
<1>3. todo' # <<"start", "launch">>
    BY <1>2, FixedPlans
<1> QED
    BY <1>1, <1>2, <1>3 DEF ChildOK, StartOK, At, Process

LEMMA NotLaunch ==
    ASSUME Head(todo) \notin {"bind", "start", "launch"}
    PROVE  todo \notin LaunchPlans
BY DEF LaunchPlans

\* The session's persistence is settled first.
LEMMA StepSettled ==
    ASSUME todo \in Seq(Steps), TodoOK, todo # <<>>, Then(<<>>)
    PROVE  ~At("restored")' /\ ~At("persist")'
BY StepDone DEF At, MayPrecede, Afters

\* The child while a step is worked off that is not about one.
LEMMA NoChildAt ==
    ASSUME ChildOK, TypeOK, todo # <<>>,
           Head(todo) \notin {"launch", "cancel", "finish", "clear"}
    PROVE  child.st = "none"
<1>1. Head(<<"clear">>) = "clear"
    OBVIOUS
<1> QED
    BY <1>1 DEF ChildOK, At, Process

\* The common case: a step is done, phase and requests stay, no child.
LEMMA PlanStep ==
    ASSUME TypeOK, Planned, todo # <<>>, Then(<<>>), UNCHANGED <<phase, ctl>>,
           todo \notin LaunchPlans,
           work' = work \/ (work' = <<>> /\ Head(todo) \in {"drop", "off", "done", "fail"}),
           child'.st = "none"
    PROVE  /\ Planned' /\ todo' \in Seq(Steps) /\ cur' \in 0 .. MaxReqs
           /\ ~At("restored")' /\ ~At("persist")'
<1>1. todo \in Seq(Steps) /\ cur \in 0 .. MaxReqs /\ 0 \in 0 .. MaxReqs
    BY SupervisorAssumption DEF TypeOK
<1>2. todo' \in Seq(Steps) /\ cur' \in {0, cur}
    BY <1>1, StepDone DEF Planned
<1> QED
    BY <1>1, <1>2, StepTodo, StepWork, StepNoChild, StepSettled DEF Planned

\* Short plans, joined.
LEMMA ShortPlans ==
    ASSUME NEW a \in Steps, NEW b \in Steps, NEW c \in Steps
    PROVE  <<a>> \o <<b>> = <<a, b>> /\ <<a>> \o <<b, c>> = <<a, b, c>>
<1>1. <<a>> \o <<b>> = <<a, b>>
    <2> DEFINE s == <<a>> \o <<b>>
               t == <<a, b>>
    <2>1. t \in Seq(Steps) /\ Len(t) = 2 /\ t[1] = a /\ t[2] = b
        OBVIOUS
    <2>2. s \in Seq(Steps) /\ Len(s) = 2 /\ s[1] = a /\ s[2] = b
        BY ConcatProperties
    <2> HIDE DEF s, t
    <2>3. s = t
        BY <2>1, <2>2, SeqEqual
    <2> QED
        BY <2>3 DEF s, t
<1>2. <<a>> \o <<b, c>> = <<a, b, c>>
    <2> DEFINE s == <<a>> \o <<b, c>>
               t == <<a, b, c>>
    <2>1. t \in Seq(Steps) /\ Len(t) = 3 /\ t[1] = a /\ t[2] = b /\ t[3] = c
        OBVIOUS
    <2>2. s \in Seq(Steps) /\ Len(s) = 3 /\ s[1] = a /\ s[2] = b /\ s[3] = c
        BY ConcatProperties
    <2> HIDE DEF s, t
    <2>3. s = t
        BY <2>1, <2>2, SeqEqual
    <2> QED
        BY <2>3 DEF s, t
<1> QED
    BY <1>1, <1>2

\* What a finished turn puts in front of the plan.
FrontPlans ==
    {<<>>, <<"done">>, <<"off">>, <<"drop">>, <<"bind">>, <<"fail">>, <<"rebind">>,
     <<"restored">>, <<"restored", "done">>, <<"restored", "off">>,
     <<"restored", "drop">>, <<"restored", "bind">>,
     <<"persist", "fail">>, <<"persist", "drop">>, <<"note", "rebind", "drop">>}

LEMMA FrontIn ==
    ASSUME NEW pre \in FrontPlans
    PROVE  /\ pre \in Seq(Steps) /\ Ordered(pre)
           /\ In(pre) \subseteq {"done", "off", "drop", "bind", "fail", "rebind",
                                 "restored", "persist", "note"}
           /\ "note" \in In(pre) => pre = <<"note", "rebind", "drop">>
           /\ \A x \in In(pre), y \in Afters : MayPrecede(x, y)
           /\ pre # <<>> => Head(pre) \in In(pre)
<1>1. ASSUME NEW a \in Steps
      PROVE  <<a>> \in Seq(Steps) /\ Ordered(<<a>>) /\ In(<<a>>) = {a}
    BY DEF Ordered, In
<1>2. ASSUME NEW a \in Steps, NEW b \in Steps, MayPrecede(a, b)
      PROVE  <<a, b>> \in Seq(Steps) /\ Ordered(<<a, b>>) /\ In(<<a, b>>) = {a, b}
    BY <1>2 DEF Ordered, In
<1>3. <<>> \in Seq(Steps) /\ Ordered(<<>>) /\ In(<<>>) = {}
    BY DEF Ordered, In
<1>4. /\ <<"note", "rebind", "drop">> \in Seq(Steps)
      /\ Ordered(<<"note", "rebind", "drop">>)
      /\ In(<<"note", "rebind", "drop">>) = {"note", "rebind", "drop"}
    BY DEF Ordered, In, MayPrecede, Steps
<1> DEFINE F == {"done", "off", "drop", "bind", "fail", "rebind", "restored", "persist", "note"}
<1>5. \/ pre = <<>> \/ pre = <<"note", "rebind", "drop">>
      \/ \E a \in F \ {"note"} : pre = <<a>>
      \/ \E a, b \in F \ {"note"} : MayPrecede(a, b) /\ pre = <<a, b>>
    BY DEF FrontPlans, MayPrecede
<1>6. F \subseteq Steps
    BY DEF Steps
<1> DEFINE Fits == /\ pre \in Seq(Steps) /\ Ordered(pre) /\ In(pre) \subseteq F
                   /\ "note" \in In(pre) => pre = <<"note", "rebind", "drop">>
<1>7. Fits
    <2>1. CASE pre = <<>> \/ pre = <<"note", "rebind", "drop">>
        BY <1>3, <1>4, <2>1
    <2>2. ASSUME NEW a \in F \ {"note"}, pre = <<a>> PROVE Fits
        BY <1>1, <1>6, <2>2
    <2>3. ASSUME NEW a \in F \ {"note"}, NEW b \in F \ {"note"},
                 MayPrecede(a, b), pre = <<a, b>>
          PROVE  Fits
        BY <1>2, <1>6, <2>3
    <2> QED
        BY <1>5, <2>1, <2>2, <2>3
<1>8. \A x \in In(pre), y \in Afters : MayPrecede(x, y)
    BY <1>7 DEF MayPrecede
<1> QED
    BY <1>7, <1>8, HeadIn

\* Two ordered plans, the second of which may follow the first.
LEMMA Joined ==
    ASSUME NEW p \in Seq(Steps), NEW r \in Seq(Steps), Ordered(p), Ordered(r),
           \A x \in In(p), y \in In(r) : MayPrecede(x, y)
    PROVE  /\ p \o r \in Seq(Steps)
           /\ Ordered(p \o r)
           /\ In(p \o r) = In(p) \cup In(r)
           /\ p # <<>> => p \o r # <<>> /\ Head(p \o r) = Head(p)
           /\ p = <<>> => p \o r = r
           /\ r = <<>> => p \o r = p
<1> DEFINE t == p \o r
<1>1. /\ t \in Seq(Steps)
      /\ Len(t) = Len(p) + Len(r) /\ Len(p) \in Nat /\ Len(r) \in Nat
      /\ \A i \in 1 .. Len(p) : t[i] = p[i]
      /\ \A i \in Len(p) + 1 .. Len(p) + Len(r) : t[i] = r[i - Len(p)]
    BY ConcatProperties, LenProperties
<1>2. p = <<>> => t = r
    BY ConcatEmptySeq
<1>3. r = <<>> => t = p
    BY ConcatEmptySeq
<1> HIDE DEF t
<1>4. /\ \A i \in 1 .. Len(p) : p[i] \in In(p)
      /\ \A i \in 1 .. Len(r) : r[i] \in In(r)
    BY DEF In
<1>5. Ordered(t)
    <2> SUFFICES ASSUME NEW i \in 1 .. Len(t), NEW j \in 1 .. Len(t), i < j
                 PROVE  MayPrecede(t[i], t[j])
        BY DEF Ordered
    <2>1. CASE j <= Len(p)
        BY <1>1, <2>1 DEF Ordered
    <2>2. CASE i > Len(p)
        <3>1. /\ i - Len(p) \in 1 .. Len(r) /\ j - Len(p) \in 1 .. Len(r)
              /\ t[i] = r[i - Len(p)] /\ t[j] = r[j - Len(p)] /\ i - Len(p) < j - Len(p)
            BY <1>1, <2>2
        <3> QED
            BY <3>1 DEF Ordered
    <2>3. CASE i <= Len(p) /\ j > Len(p)
        <3>1. i \in 1 .. Len(p) /\ t[i] = p[i]
            BY <1>1, <2>3
        <3>2. j - Len(p) \in 1 .. Len(r) /\ t[j] = r[j - Len(p)]
            BY <1>1, <2>3
        <3> QED
            BY <3>1, <3>2, <1>4
    <2> QED
        BY <1>1, <2>1, <2>2, <2>3
<1>6. In(t) = In(p) \cup In(r)
    <2>1. ASSUME NEW i \in 1 .. Len(t) PROVE t[i] \in In(p) \cup In(r)
        <3>1. CASE i <= Len(p)
            BY <1>1, <1>4, <3>1
        <3>2. CASE i > Len(p)
            <4>1. i - Len(p) \in 1 .. Len(r) /\ t[i] = r[i - Len(p)]
                BY <1>1, <3>2
            <4> QED
                BY <1>4, <4>1
        <3> QED
            BY <1>1, <3>1, <3>2
    <2>2. ASSUME NEW i \in 1 .. Len(p) PROVE p[i] \in In(t)
        BY <1>1 DEF In
    <2>3. ASSUME NEW i \in 1 .. Len(r) PROVE r[i] \in In(t)
        <3>1. i + Len(p) \in 1 .. Len(t) /\ t[i + Len(p)] = r[i]
            BY <1>1
        <3> QED
            BY <3>1 DEF In
    <2> QED
        BY <2>1, <2>2, <2>3 DEF In
<1>7. ASSUME p # <<>> PROVE t # <<>> /\ Head(t) = Head(p)
    <2>1. Len(p) # 0 /\ Head(p) = p[1]
        BY <1>7, EmptySeq, HeadTailProperties
    <2>2. Len(t) # 0 /\ t[1] = p[1]
        BY <1>1, <2>1
    <2> QED
        BY <1>1, <2>1, <2>2, EmptySeq, HeadTailProperties
<1> QED
    BY <1>1, <1>2, <1>3, <1>5, <1>6, <1>7 DEF t

\* When a turn is finished, only a forced request has something left to do.
LEMMA AfterTurn ==
    ASSUME TypeOK, Planned, Finishing
    PROVE  /\ Rest \in Seq(Steps) /\ Ordered(Rest) /\ In(Rest) \subseteq Afters
           /\ In(Rest) # {} => cur # 0
           /\ work # <<>> /\ Current \in Items
           /\ child.st # "none"
<1>1. todo \in Seq(Steps) /\ child.st # "none" /\ phase = "run"
    BY DEF TypeOK, Finishing, Exited, Results
<1>2. work # <<>> /\ work \in Seq(Items)
    BY <1>1 DEF Planned, ChildOK, TypeOK
<1>3. Current \in Items
    BY <1>2, HeadTailProperties DEF Current
<1>4. CASE todo = <<>>
    <2>1. Rest = <<>> /\ In(<<>>) = {} /\ Ordered(<<>>)
        BY <1>4, InEmpty DEF Rest, Ordered
    <2> QED
        BY <1>1, <1>2, <1>3, <2>1
<1>5. CASE todo # <<>>
    <2>1. Head(todo) = "finish" /\ Rest = Tail(todo)
        BY <1>5 DEF Finishing, At, Rest
    <2>2. /\ Rest \in Seq(Steps) /\ Ordered(Rest) /\ In(Rest) \subseteq In(todo)
          /\ \A y \in In(Rest) : MayPrecede("finish", y)
        BY <1>1, <1>5, <2>1, TailOrdered DEF Planned, TodoOK
    <2>3. In(Rest) \subseteq Afters
        BY <2>2 DEF MayPrecede
    <2>4. ASSUME In(Rest) # {}, cur = 0 PROVE FALSE
        <3>1. todo # <<"note", "rebind", "drop">>
            BY <2>1
        <3>2. "note" \notin In(todo)
            BY <1>1, <2>4, <3>1 DEF Planned, WorkOK
        <3> QED
            BY <2>2, <2>3, <2>4, <3>2 DEF Planned, TodoOK, Afters, ControlSteps
    <2> QED
        BY <1>1, <1>2, <1>3, <2>2, <2>3, <2>4
<1> QED
    BY <1>4, <1>5

\* The plan a finished turn leaves.
LEMMA FinishPlan ==
    ASSUME TypeOK, Planned, Finishing, NEW pre \in FrontPlans, Then(pre),
           child'.st = "none", UNCHANGED <<phase, ctl>>,
           RoutinesFiled(work', ctl),
           In(pre) \cap {"done", "fail", "persist", "note"} # {} => work' # <<>>
    PROVE  /\ Planned' /\ todo' \in Seq(Steps)
           /\ (todo' # <<>> => Head(todo') \in Afters \cup In(pre))
           /\ (pre # <<>> => todo' # <<>> /\ Head(todo') = Head(pre))
           /\ cur' \in {0, cur}
<1>1. /\ Rest \in Seq(Steps) /\ Ordered(Rest) /\ In(Rest) \subseteq Afters
      /\ In(Rest) # {} => cur # 0
    BY AfterTurn
<1>2. /\ pre \in Seq(Steps) /\ Ordered(pre)
      /\ In(pre) \subseteq {"done", "off", "drop", "bind", "fail", "rebind",
                            "restored", "persist", "note"}
      /\ "note" \in In(pre) => pre = <<"note", "rebind", "drop">>
      /\ \A x \in In(pre), y \in Afters : MayPrecede(x, y)
    BY FrontIn
<1>3. todo' = pre \o Rest /\ cur' = IF todo' = <<>> THEN 0 ELSE cur
    BY DEF Then
<1>4. /\ todo' \in Seq(Steps) /\ Ordered(todo') /\ In(todo') = In(pre) \cup In(Rest)
      /\ pre # <<>> => todo' # <<>> /\ Head(todo') = Head(pre)
      /\ Rest = <<>> => todo' = pre
    BY <1>1, <1>2, <1>3, Joined
<1>5. todo' # <<>> => Head(todo') \in In(todo') /\ cur' = cur
    BY <1>3, <1>4, HeadIn
<1>6. In(todo') # {} => cur' = cur
    BY <1>5, InEmpty
<1>7. "start" \notin In(todo') /\ "launch" \notin In(todo') /\ "boot" \notin In(todo')
        /\ "routine" \notin In(todo')
    BY <1>1, <1>2, <1>4 DEF Afters
<1>8. phase = "run" /\ phase' = "run"
    BY DEF Finishing
<1>9. In(todo') \cap ControlSteps # {} => In(Rest) # {} /\ In(todo') # {}
    BY <1>2, <1>4 DEF ControlSteps
<1>10. TodoOK'
    BY <1>1, <1>4, <1>6, <1>7, <1>8, <1>9 DEF TodoOK
<1>11. In(todo') \cap WorkSteps # {} => work' # <<>>
    BY <1>1, <1>2, <1>4 DEF WorkSteps, Afters
<1>12. ASSUME "note" \in In(todo'), cur' = 0
       PROVE  work' # <<>> /\ todo' = <<"note", "rebind", "drop">>
    <2>1. In(Rest) = {} /\ Rest = <<>>
        BY <1>1, <1>6, <1>12, InEmpty
    <2> QED
        BY <1>2, <1>4, <1>12, <2>1
<1>13. WorkOK'
    BY <1>11, <1>12 DEF WorkOK
<1>14. ~At("launch")'
    BY <1>5, <1>7 DEF At
<1>15. ChildOK' /\ StartOK'
    BY <1>7, <1>14, FixedPlans DEF ChildOK, StartOK, Process
<1> QED
    BY <1>3, <1>4, <1>5, <1>1, <1>10, <1>13, <1>15 DEF Planned

-----------------------------------------------------------------------------
(***************************************************************************)
(* The records of the journal: what each one changes.                      *)
(***************************************************************************)
\* The counters as a record of typed fields.
LEMMA CountersFields ==
    ASSUME NEW c \in Counters
    PROVE  /\ c.sid \in Sids \cup {None} /\ c.fresh \in BOOLEAN /\ c.turns \in Nat
           /\ c.brake \in Nat /\ c.tripped \in BOOLEAN /\ c.fails \in [Ids -> Nat]
           /\ c.losses \in [Ids -> Nat] /\ c.streak \in Nat /\ c.off \in BOOLEAN
BY DEF Counters

\* Changing fields of the counters within their types.
LEMMA CountersEdits ==
    ASSUME NEW c \in Counters
    PROVE  /\ \A v \in Sids \cup {None} : [c EXCEPT !.sid = v] \in Counters
           /\ \A v \in BOOLEAN : [c EXCEPT !.fresh = v] \in Counters
           /\ \A v \in Nat : [c EXCEPT !.turns = v] \in Counters
           /\ \A v \in Nat : [c EXCEPT !.brake = v] \in Counters
           /\ \A v \in BOOLEAN : [c EXCEPT !.tripped = v] \in Counters
           /\ \A v \in [Ids -> Nat] : [c EXCEPT !.fails = v] \in Counters
           /\ \A v \in [Ids -> Nat] : [c EXCEPT !.losses = v] \in Counters
           /\ \A v \in Nat : [c EXCEPT !.streak = v] \in Counters
           /\ \A v \in BOOLEAN : [c EXCEPT !.off = v] \in Counters
<1>1. \A v \in Sids \cup {None} : [c EXCEPT !.sid = v] \in Counters
    BY DEF Counters
<1>2. \A v \in BOOLEAN : [c EXCEPT !.fresh = v] \in Counters
    BY DEF Counters
<1>3. \A v \in Nat : [c EXCEPT !.turns = v] \in Counters
    BY DEF Counters
<1>4. \A v \in Nat : [c EXCEPT !.brake = v] \in Counters
    BY DEF Counters
<1>5. \A v \in BOOLEAN : [c EXCEPT !.tripped = v] \in Counters
    BY DEF Counters
<1>6. \A v \in [Ids -> Nat] : [c EXCEPT !.fails = v] \in Counters
    BY DEF Counters
<1>7. \A v \in [Ids -> Nat] : [c EXCEPT !.losses = v] \in Counters
    BY DEF Counters
<1>8. \A v \in Nat : [c EXCEPT !.streak = v] \in Counters
    BY DEF Counters
<1>9. \A v \in BOOLEAN : [c EXCEPT !.off = v] \in Counters
    BY DEF Counters
<1> QED
    BY <1>1, <1>2, <1>3, <1>4, <1>5, <1>6, <1>7, <1>8, <1>9

LEMMA JournalFields ==
    ASSUME NEW j \in Journals
    PROVE  /\ j.c \in Counters /\ j.open \in Sids \cup {None}
           /\ j.consumed \subseteq 1 .. MaxReqs /\ j.errs \in [Ids -> Nat]
BY DEF Journals

LEMMA JournalEdits ==
    ASSUME NEW j \in Journals
    PROVE  /\ \A v \in Counters : [j EXCEPT !.c = v] \in Journals
           /\ \A v \in SUBSET (1 .. MaxReqs) : [j EXCEPT !.consumed = v] \in Journals
           /\ \A v \in [Ids -> Nat] : [j EXCEPT !.errs = v] \in Journals
BY DEF Journals

LEMMA PutCounts ==
    ASSUME NEW f \in [Ids -> Nat], NEW id, NEW n \in Nat
    PROVE  /\ Put(f, id, n) \in [Ids -> Nat]
           /\ \A i \in Ids : Put(f, id, n)[i] = IF i = id THEN n ELSE f[i]
BY DEF Put

LEMMA ZeroCounts == Zero \in [Ids -> Nat] /\ \A i \in Ids : Zero[i] = 0
BY DEF Zero

LEMMA NoSessionType ==
    ASSUME NEW c \in Counters
    PROVE  /\ NoSession(c) \in Counters
           /\ NoSession(c).sid = None /\ NoSession(c).fresh = FALSE /\ NoSession(c).turns = 0
           /\ NoSession(c).brake = c.brake /\ NoSession(c).tripped = c.tripped
           /\ NoSession(c).losses = c.losses /\ NoSession(c).streak = c.streak
           /\ NoSession(c).off = c.off
<1>1. NoSession(c) \in Counters
    BY CountersFields DEF NoSession, Counters
<1> QED
    BY <1>1 DEF NoSession, Counters

LEMMA BrakeResetType ==
    ASSUME NEW c \in Counters
    PROVE  /\ BrakeReset(c) \in Counters
           /\ BrakeReset(c).sid = c.sid /\ BrakeReset(c).fresh = c.fresh
           /\ BrakeReset(c).turns = c.turns /\ BrakeReset(c).off = c.off
           /\ BrakeReset(c).brake = 0 /\ BrakeReset(c).tripped = FALSE
           /\ BrakeReset(c).losses = Zero /\ BrakeReset(c).streak = 0
<1>1. BrakeReset(c) \in Counters
    BY CountersFields, ZeroCounts DEF BrakeReset, Counters
<1> QED
    BY <1>1 DEF BrakeReset, Counters

LEMMA NewNoteType ==
    ASSUME NEW c \in Counters
    PROVE  /\ NewNote(c) \in Counters
           /\ NewNote(c).sid = c.sid /\ NewNote(c).fresh = c.fresh
           /\ NewNote(c).turns = c.turns /\ NewNote(c).off = c.off
           /\ NewNote(c).brake = c.brake /\ NewNote(c).tripped = c.tripped
           /\ NewNote(c).streak = c.streak
           /\ \A i \in Ids : NewNote(c).losses[i] = IF i = Note THEN 0 ELSE c.losses[i]
<1>1. NewNote(c) = [c EXCEPT !.fails = [@ EXCEPT ![Note] = 0], !.losses = [@ EXCEPT ![Note] = 0]]
    BY DEF NewNote
<1>2. [c.fails EXCEPT ![Note] = 0] \in [Ids -> Nat] /\ [c.losses EXCEPT ![Note] = 0] \in [Ids -> Nat]
    BY CountersFields
<1> DEFINE mid == [c EXCEPT !.fails = [c.fails EXCEPT ![Note] = 0]]
<1>3. mid \in Counters
    BY <1>2, CountersEdits
<1>4. NewNote(c) = [mid EXCEPT !.losses = [c.losses EXCEPT ![Note] = 0]]
    BY <1>1 DEF Counters
<1>5. NewNote(c) \in Counters
    <2> HIDE DEF mid
    <2> QED
        BY <1>2, <1>3, <1>4, CountersEdits
<1>6. NewNote(c).losses = [c.losses EXCEPT ![Note] = 0]
    BY <1>1 DEF Counters
<1>7. \A i \in Ids : [c.losses EXCEPT ![Note] = 0][i] = IF i = Note THEN 0 ELSE c.losses[i]
    BY CountersFields
<1>8. /\ NewNote(c).sid = c.sid /\ NewNote(c).fresh = c.fresh
      /\ NewNote(c).turns = c.turns /\ NewNote(c).off = c.off
      /\ NewNote(c).brake = c.brake /\ NewNote(c).tripped = c.tripped
      /\ NewNote(c).streak = c.streak
    BY <1>1 DEF Counters
<1> QED
    BY <1>5, <1>6, <1>7, <1>8

LEMMA SessionBoundType ==
    ASSUME NEW j \in Journals, NEW s \in Sids \cup {None}
    PROVE  LET k == SessionBound(j, s) IN
           /\ k \in Journals
           /\ k.c.sid = s /\ k.c.fresh = TRUE /\ k.c.turns = 0
           /\ k.c.brake = j.c.brake /\ k.c.tripped = j.c.tripped /\ k.c.losses = j.c.losses
           /\ k.c.streak = j.c.streak /\ k.c.off = j.c.off
           /\ k.open = j.open /\ k.consumed = j.consumed
<1> DEFINE d == [j.c EXCEPT !.sid = s, !.fresh = TRUE, !.turns = 0]
<1>1. d \in Counters
    BY JournalFields, CountersFields DEF Counters
<1>2. SessionBound(j, s) = [j EXCEPT !.c = d]
    BY DEF SessionBound
<1>3. /\ d.sid = s /\ d.fresh = TRUE /\ d.turns = 0
      /\ d.brake = j.c.brake /\ d.tripped = j.c.tripped /\ d.losses = j.c.losses
      /\ d.streak = j.c.streak /\ d.off = j.c.off
    BY JournalFields DEF Counters
<1> HIDE DEF d
<1>4. SessionBound(j, s) \in Journals
    BY <1>1, <1>2, JournalEdits
<1>5. SessionBound(j, s).c = d /\ SessionBound(j, s).open = j.open
        /\ SessionBound(j, s).consumed = j.consumed
    BY <1>2 DEF Journals
<1> QED
    BY <1>3, <1>4, <1>5

LEMMA TurnStartedType ==
    ASSUME NEW j \in Journals, NEW s \in Sids \cup {None}
    PROVE  LET k == TurnStarted(j, s) IN
           /\ k \in Journals
           /\ k.c.sid = j.c.sid /\ k.c.turns = j.c.turns
           /\ k.c.fresh = (j.c.fresh /\ s # j.c.sid)
           /\ k.c.brake = j.c.brake /\ k.c.tripped = j.c.tripped /\ k.c.losses = j.c.losses
           /\ k.c.streak = j.c.streak /\ k.c.off = j.c.off
           /\ k.open = s /\ k.consumed = j.consumed
<1> DEFINE b == IF s = j.c.sid THEN FALSE ELSE j.c.fresh
           d == [j.c EXCEPT !.fresh = b]
<1>1. j.c \in Counters /\ b \in BOOLEAN
    BY JournalFields, CountersFields
<1>2. b = (j.c.fresh /\ s # j.c.sid)
    BY JournalFields, CountersFields
<1>3. TurnStarted(j, s) = [j EXCEPT !.open = s, !.c = d]
    BY DEF TurnStarted, Journals
<1> HIDE DEF b
<1>4. d \in Counters
    BY <1>1, CountersEdits
<1>5. /\ d.sid = j.c.sid /\ d.fresh = b /\ d.turns = j.c.turns
      /\ d.brake = j.c.brake /\ d.tripped = j.c.tripped /\ d.losses = j.c.losses
      /\ d.streak = j.c.streak /\ d.off = j.c.off
    BY <1>1 DEF Counters
<1> HIDE DEF d
<1>6. TurnStarted(j, s) \in Journals
    BY <1>3, <1>4 DEF Journals
<1>7. TurnStarted(j, s).c = d /\ TurnStarted(j, s).open = s
        /\ TurnStarted(j, s).consumed = j.consumed
    BY <1>3 DEF Journals
<1> QED
    BY <1>2, <1>5, <1>6, <1>7

\* Journal k is journal j after a turn of this class ended with the brake as
\* the counters m have it; t says whether the record reports it as tripped.
EndsTurn(k, j, class, id, s, m, t) ==
    /\ k \in Journals
    /\ k.c.sid = j.c.sid /\ k.c.fresh = j.c.fresh
    /\ k.c.turns = IF class = "ok" /\ s = j.c.sid THEN j.c.turns + 1 ELSE j.c.turns
    /\ k.c.brake = m.brake /\ k.c.tripped = (j.c.tripped \/ t)
    /\ k.c.streak = j.c.streak /\ k.c.off = j.c.off
    /\ k.open = None /\ k.consumed = j.consumed
    /\ \A i \in Ids : k.c.losses[i] =
          IF i = id /\ class = "session_lost" THEN j.c.losses[i] + 1
          ELSE IF i = id /\ class = "ok" THEN 0 ELSE j.c.losses[i]

LEMMA TurnEndedType ==
    ASSUME NEW j \in Journals, NEW class, NEW id, NEW s, NEW m \in Counters,
           NEW t \in BOOLEAN
    PROVE  EndsTurn(TurnEnded(j, class, id, s, m.brake, t), j, class, id, s, m, t)
<1> DEFINE c == [j.c EXCEPT !.brake = m.brake, !.tripped = @ \/ t]
           d == CASE class = "provider_failure" /\ id \in Ids -> [c EXCEPT !.fails[id] = @ + 1]
                  [] class = "session_lost" /\ id \in Ids -> [c EXCEPT !.losses[id] = @ + 1]
                  [] class = "ok" -> [c EXCEPT !.turns = IF s = c.sid THEN @ + 1 ELSE @,
                                               !.fails = Put(@, id, 0), !.losses = Put(@, id, 0)]
                  [] OTHER -> c
           same == d.sid = c.sid /\ d.fresh = c.fresh /\ d.brake = c.brake
                     /\ d.tripped = c.tripped /\ d.streak = c.streak /\ d.off = c.off
           counts == \A i \in Ids : d.losses[i] =
                        IF i = id /\ class = "session_lost" THEN c.losses[i] + 1
                        ELSE IF i = id /\ class = "ok" THEN 0 ELSE c.losses[i]
           turns == d.turns = IF class = "ok" /\ s = c.sid THEN c.turns + 1 ELSE c.turns
<1>1. TurnEnded(j, class, id, s, m.brake, t) = [j EXCEPT !.open = None, !.c = d]
    BY DEF TurnEnded
<1>2. j.c \in Counters
    BY JournalFields
<1>3. c \in Counters
    <2>1. (j.c.tripped \/ t) \in BOOLEAN
        OBVIOUS
    <2> DEFINE mid == [j.c EXCEPT !.brake = m.brake]
    <2>2. mid \in Counters
        BY <1>2, CountersEdits, CountersFields
    <2>3. c = [mid EXCEPT !.tripped = (j.c.tripped \/ t)]
        BY <1>2 DEF Counters
    <2> HIDE DEF mid, c
    <2> QED
        BY <2>1, <2>2, <2>3, CountersEdits
<1>4. /\ c.sid = j.c.sid /\ c.fresh = j.c.fresh /\ c.turns = j.c.turns
      /\ c.losses = j.c.losses /\ c.streak = j.c.streak /\ c.off = j.c.off
      /\ c.brake = m.brake /\ c.tripped = (j.c.tripped \/ t)
    BY <1>2 DEF Counters
<1> HIDE DEF c
<1>5. /\ c.fails \in [Ids -> Nat] /\ c.losses \in [Ids -> Nat] /\ c.turns \in Nat
    BY <1>3, CountersFields
<1>6. d \in Counters /\ same /\ counts /\ turns
    <2>1. CASE class = "provider_failure" /\ id \in Ids
        <3>1. d = [c EXCEPT !.fails = [c.fails EXCEPT ![id] = c.fails[id] + 1]]
            BY <2>1
        <3>2. [c.fails EXCEPT ![id] = c.fails[id] + 1] \in [Ids -> Nat]
            BY <1>5, <2>1
        <3>3. d \in Counters
            BY <1>3, <3>1, <3>2, CountersEdits
        <3>4. same /\ d.losses = c.losses /\ d.turns = c.turns
            BY <1>3, <3>1 DEF Counters
        <3> HIDE DEF d
        <3> QED
            BY <2>1, <3>3, <3>4
    <2>2. CASE class = "session_lost" /\ id \in Ids
        <3>1. d = [c EXCEPT !.losses = [c.losses EXCEPT ![id] = c.losses[id] + 1]]
            BY <2>2
        <3>2. [c.losses EXCEPT ![id] = c.losses[id] + 1] \in [Ids -> Nat]
            BY <1>5, <2>2
        <3>3. d \in Counters
            BY <1>3, <3>1, <3>2, CountersEdits
        <3>4. same /\ d.losses = [c.losses EXCEPT ![id] = c.losses[id] + 1] /\ d.turns = c.turns
            BY <1>3, <3>1 DEF Counters
        <3> HIDE DEF d
        <3> QED
            BY <1>5, <2>2, <3>3, <3>4
    <2>3. CASE class = "ok"
        <3> DEFINE n == IF s = c.sid THEN c.turns + 1 ELSE c.turns
                   f == Put(c.fails, id, 0)
                   l == Put(c.losses, id, 0)
        <3>1. d = [c EXCEPT !.turns = n, !.fails = f, !.losses = l]
            BY <2>3
        <3>2. /\ n \in Nat /\ f \in [Ids -> Nat] /\ l \in [Ids -> Nat]
              /\ \A i \in Ids : l[i] = IF i = id THEN 0 ELSE c.losses[i]
            BY <1>5, PutCounts
        <3>3. n = IF class = "ok" /\ s = c.sid THEN c.turns + 1 ELSE c.turns
            BY <2>3
        <3> HIDE DEF n, f, l, d
        <3> DEFINE mid == [c EXCEPT !.turns = n]
                   mid2 == [mid EXCEPT !.fails = f]
        <3>4. mid \in Counters
            BY <1>3, <3>2, CountersEdits
        <3>5. d = [mid2 EXCEPT !.losses = l]
            BY <1>3, <3>1 DEF Counters
        <3> HIDE DEF mid
        <3>6. mid2 \in Counters
            BY <3>2, <3>4, CountersEdits
        <3> HIDE DEF mid2
        <3>7. d \in Counters
            BY <3>2, <3>5, <3>6, CountersEdits
        <3>8. same /\ d.losses = l /\ d.turns = n
            BY <1>3, <3>1 DEF Counters
        <3> QED
            BY <2>3, <3>2, <3>3, <3>7, <3>8
    <2>4. CASE ~(class = "provider_failure" /\ id \in Ids) /\ class # "ok"
                 /\ ~(class = "session_lost" /\ id \in Ids)
        <3>1. d = c
            BY <2>4
        <3> HIDE DEF d
        <3> QED
            BY <1>3, <2>4, <3>1
    <2> HIDE DEF d
    <2> QED
        BY <2>1, <2>2, <2>3, <2>4
<1> HIDE DEF d
<1>7. [j EXCEPT !.open = None, !.c = d] \in Journals
    BY <1>6 DEF Journals
<1>8. /\ [j EXCEPT !.open = None, !.c = d].c = d
      /\ [j EXCEPT !.open = None, !.c = d].open = None
      /\ [j EXCEPT !.open = None, !.c = d].consumed = j.consumed
    BY DEF Journals
<1> QED
    BY <1>1, <1>4, <1>6, <1>7, <1>8 DEF EndsTurn

\* A record that only changes counters.
LEMMA CounterRecord ==
    ASSUME NEW j \in Journals, NEW d \in Counters
    PROVE  LET k == [j EXCEPT !.c = d] IN
           /\ k \in Journals /\ k.c = d
           /\ k.open = j.open /\ k.consumed = j.consumed /\ k.errs = j.errs
BY DEF Journals

LEMMA PersistenceFailedType ==
    ASSUME NEW j \in Journals, NEW id, NEW m \in Counters, m.sid = j.c.sid
    PROVE  LET k == PersistenceFailed(j, id, m.sid, m.streak) IN
           /\ k \in Journals
           /\ k.c.sid = None /\ ~k.c.fresh /\ k.c.turns = 0
           /\ k.c.brake = j.c.brake /\ k.c.tripped = j.c.tripped
           /\ k.c.streak = m.streak /\ k.c.off = j.c.off
           /\ k.open = j.open /\ k.consumed = j.consumed
           /\ k.c.losses = Put(j.c.losses, id, 0)
<1> DEFINE f == Put(j.c.fails, id, 0)
           l == Put(j.c.losses, id, 0)
           c == [j.c EXCEPT !.streak = m.streak, !.fails = f, !.losses = l]
<1>1. j.c \in Counters
    BY JournalFields
<1>2. /\ f \in [Ids -> Nat] /\ l \in [Ids -> Nat]
      /\ \A i \in Ids : l[i] = IF i = id THEN 0 ELSE j.c.losses[i]
    BY <1>1, CountersFields, PutCounts
<1>3. PersistenceFailed(j, id, m.sid, m.streak) =
         [j EXCEPT !.c = IF m.sid = c.sid THEN NoSession(c) ELSE c]
    BY DEF PersistenceFailed
<1> HIDE DEF f, l
<1>4. c \in Counters
    <2> DEFINE mid == [j.c EXCEPT !.streak = m.streak]
               mid2 == [mid EXCEPT !.fails = f]
    <2>1. mid \in Counters
        BY <1>1, CountersEdits, CountersFields
    <2>2. c = [mid2 EXCEPT !.losses = l]
        BY <1>1 DEF Counters
    <2> HIDE DEF mid, c
    <2>3. mid2 \in Counters
        BY <1>2, <2>1, CountersEdits
    <2> HIDE DEF mid2
    <2> QED
        BY <1>2, <2>2, <2>3, CountersEdits
<1>5. /\ c.sid = j.c.sid /\ c.brake = j.c.brake /\ c.tripped = j.c.tripped
      /\ c.off = j.c.off /\ c.streak = m.streak /\ c.losses = l
    BY <1>1 DEF Counters
<1> HIDE DEF c
<1>6. PersistenceFailed(j, id, m.sid, m.streak) = [j EXCEPT !.c = NoSession(c)]
    BY <1>3, <1>5
<1> DEFINE d == NoSession(c)
<1>7. d \in Counters
    BY <1>4, NoSessionType
<1>8. /\ d.sid = None /\ d.fresh = FALSE /\ d.turns = 0
      /\ d.brake = c.brake /\ d.tripped = c.tripped
      /\ d.losses = c.losses /\ d.streak = c.streak /\ d.off = c.off
    BY <1>4, NoSessionType
<1>9. PersistenceFailed(j, id, m.sid, m.streak) = [j EXCEPT !.c = d]
    BY <1>6
<1> HIDE DEF d
<1> QED
    BY <1>2, <1>5, <1>7, <1>8, <1>9, CounterRecord DEF l

LEMMA PersistenceRestoredType ==
    ASSUME NEW j \in Journals
    PROVE  LET k == PersistenceRestored(j) IN
           /\ k \in Journals
           /\ k.c.sid = j.c.sid /\ k.c.fresh = j.c.fresh /\ k.c.turns = j.c.turns
           /\ k.c.brake = j.c.brake /\ k.c.tripped = j.c.tripped
           /\ k.c.streak = 0 /\ k.c.off = j.c.off
           /\ k.open = j.open /\ k.consumed = j.consumed /\ k.c.losses = j.c.losses
<1> DEFINE d == [j.c EXCEPT !.streak = 0]
<1>1. j.c \in Counters
    BY JournalFields
<1>2. d \in Counters
    BY <1>1, CountersEdits
<1>3. /\ d.sid = j.c.sid /\ d.fresh = j.c.fresh /\ d.turns = j.c.turns
      /\ d.brake = j.c.brake /\ d.tripped = j.c.tripped
      /\ d.streak = 0 /\ d.off = j.c.off /\ d.losses = j.c.losses
    BY <1>1 DEF Counters
<1>4. PersistenceRestored(j) = [j EXCEPT !.c = d]
    BY DEF PersistenceRestored, Journals
<1> HIDE DEF d
<1> QED
    BY <1>2, <1>3, <1>4, CounterRecord

LEMMA DutyType ==
    ASSUME NEW j \in Journals, NEW off \in BOOLEAN
    PROVE  LET k == Duty(j, off) IN
           /\ k \in Journals
           /\ k.c.sid = j.c.sid /\ k.c.fresh = j.c.fresh /\ k.c.turns = j.c.turns
           /\ k.c.brake = j.c.brake /\ k.c.tripped = j.c.tripped
           /\ k.c.streak = j.c.streak /\ k.c.off = off
           /\ k.open = j.open /\ k.consumed = j.consumed /\ k.c.losses = j.c.losses
<1> DEFINE d == [j.c EXCEPT !.off = off]
<1>1. j.c \in Counters
    BY JournalFields
<1>2. d \in Counters
    BY <1>1, CountersEdits
<1>3. /\ d.sid = j.c.sid /\ d.fresh = j.c.fresh /\ d.turns = j.c.turns
      /\ d.brake = j.c.brake /\ d.tripped = j.c.tripped
      /\ d.streak = j.c.streak /\ d.off = off /\ d.losses = j.c.losses
    BY <1>1 DEF Counters
<1>4. Duty(j, off) = [j EXCEPT !.c = d]
    BY DEF Duty, Journals
<1> HIDE DEF d
<1> QED
    BY <1>2, <1>3, <1>4, CounterRecord

LEMMA ConsumedType ==
    ASSUME NEW j \in Journals, NEW r \in 1 .. MaxReqs
    PROVE  LET k == Consumed(j, r) IN
           /\ k \in Journals /\ k.c = j.c /\ k.open = j.open
           /\ k.consumed = j.consumed \cup {r}
BY DEF Consumed, Journals

LEMMA EngineErrorType ==
    ASSUME NEW j \in Journals, NEW id
    PROVE  LET k == EngineError(j, id) IN
           /\ k \in Journals /\ k.c = j.c /\ k.open = j.open /\ k.consumed = j.consumed
<1> DEFINE n == IF id \in Ids THEN j.errs[id] + 1 ELSE 0
           e == Put(j.errs, id, n)
<1>1. j.errs \in [Ids -> Nat]
    BY JournalFields
<1>2. n \in Nat
    BY <1>1
<1>3. EngineError(j, id) = [j EXCEPT !.errs = e]
    BY DEF EngineError, Journals
<1> HIDE DEF n
<1>4. e \in [Ids -> Nat]
    BY <1>1, <1>2, PutCounts
<1> HIDE DEF e
<1> QED
    BY <1>3, <1>4 DEF Journals

LEMMA RestoredType ==
    ASSUME NEW j \in Journals, Burst \in Nat
    PROVE  LET m == Restored(j) IN
           /\ m \in Counters
           /\ m.sid = j.c.sid /\ m.fresh = j.c.fresh /\ m.turns = j.c.turns
           /\ m.brake = j.c.brake /\ m.streak = j.c.streak /\ m.off = j.c.off
           /\ m.losses = j.c.losses
           /\ m.tripped = (j.c.tripped \/ j.c.brake >= Burst)
<1> DEFINE b == j.c.tripped \/ j.c.brake >= Burst
<1>1. j.c \in Counters /\ b \in BOOLEAN
    BY JournalFields
<1>2. Restored(j) = [j.c EXCEPT !.tripped = b]
    BY DEF Restored
<1>3. Restored(j).tripped = b
    BY <1>1, <1>2 DEF Counters
<1> HIDE DEF b
<1>4. Restored(j) \in Counters
    BY <1>1, <1>2, CountersEdits
<1>5. LET m == Restored(j) IN
      /\ m.sid = j.c.sid /\ m.fresh = j.c.fresh /\ m.turns = j.c.turns
      /\ m.brake = j.c.brake /\ m.streak = j.c.streak /\ m.off = j.c.off
      /\ m.losses = j.c.losses
    BY <1>1, <1>2 DEF Counters
<1> QED
    BY <1>3, <1>4, <1>5 DEF b

LEMMA NoteRecordType ==
    ASSUME NEW j \in Journals
    PROVE  LET k == [j EXCEPT !.c = NewNote(@), !.errs[Note] = 0] IN
           /\ k \in Journals /\ k.c = NewNote(j.c)
           /\ k.open = j.open /\ k.consumed = j.consumed
<1> DEFINE d == NewNote(j.c)
           e == [j.errs EXCEPT ![Note] = 0]
<1>1. d \in Counters /\ e \in [Ids -> Nat]
    BY JournalFields, NewNoteType
<1>2. [j EXCEPT !.c = NewNote(@), !.errs[Note] = 0] = [j EXCEPT !.c = d, !.errs = e]
    BY DEF Journals
<1> HIDE DEF d, e
<1>3. LET k == [j EXCEPT !.c = d, !.errs = e] IN
      k \in Journals /\ k.c = d /\ k.open = j.open /\ k.consumed = j.consumed
    BY <1>1 DEF Journals
<1> QED
    BY <1>2, <1>3 DEF d

-----------------------------------------------------------------------------
(***************************************************************************)
(* Work items.                                                             *)
(***************************************************************************)
LEMMA ItemType ==
    ASSUME NEW k \in Kinds, NEW id \in Ids \cup {None}, NEW r \in 0 .. MaxReqs
    PROVE  Item(k, id, r) \in Items /\ Item(k, id, r).kind = k /\ Item(k, id, r).req = r
BY SupervisorAssumption DEF Item, Items

\* An item in front of the work.
LEMMA WorkPush ==
    ASSUME NEW it \in Items, NEW w \in Seq(Items), NEW c, RoutinesFiled(w, c), it.kind # "ctl"
    PROVE  /\ <<it>> \o w \in Seq(Items) /\ <<it>> \o w # <<>>
           /\ RoutinesFiled(<<it>> \o w, c)
           /\ Head(<<it>> \o w) = it
<1> DEFINE t == <<it>> \o w
<1>1. /\ t \in Seq(Items) /\ Len(t) = 1 + Len(w) /\ Len(w) \in Nat
      /\ t[1] = it /\ \A i \in 2 .. Len(t) : t[i] = w[i - 1]
    BY ConcatProperties, LenProperties
<1>2. t # <<>> /\ Head(t) = it
    BY <1>1, EmptySeq, HeadTailProperties
<1> HIDE DEF t
<1>3. RoutinesFiled(t, c)
    <2> SUFFICES ASSUME NEW i \in 1 .. Len(t), t[i].kind = "ctl"
                 PROVE  t[i].req \in DOMAIN c /\ c[t[i].req].verb \in {"feierabend", "standup"}
        BY DEF RoutinesFiled
    <2>1. i - 1 \in 1 .. Len(w) /\ t[i] = w[i - 1]
        BY <1>1
    <2> QED
        BY <2>1 DEF RoutinesFiled
<1> QED
    BY <1>1, <1>2, <1>3 DEF t

\* The first item is done.
LEMMA WorkPop ==
    ASSUME NEW w \in Seq(Items), w # <<>>, NEW c, RoutinesFiled(w, c)
    PROVE  Tail(w) \in Seq(Items) /\ RoutinesFiled(Tail(w), c)
<1>1. /\ Tail(w) \in Seq(Items) /\ Len(Tail(w)) = Len(w) - 1 /\ Len(w) \in Nat \ {0}
      /\ \A i \in 1 .. Len(Tail(w)) : Tail(w)[i] = w[i + 1]
    BY EmptySeq, HeadTailProperties, LenProperties
<1>2. ASSUME NEW i \in 1 .. Len(Tail(w))
      PROVE  i + 1 \in 1 .. Len(w) /\ Tail(w)[i] = w[i + 1]
    BY <1>1
<1> QED
    BY <1>1, <1>2 DEF RoutinesFiled

\* A count of the first item changes.
LEMMA WorkCount ==
    ASSUME NEW w \in Seq(Items), w # <<>>, NEW c, RoutinesFiled(w, c),
           NEW it \in Items, it.kind = w[1].kind, it.req = w[1].req
    PROVE  LET v == [w EXCEPT ![1] = it] IN
           v \in Seq(Items) /\ v # <<>> /\ RoutinesFiled(v, c) /\ Head(v) = it
<1> DEFINE v == [w EXCEPT ![1] = it]
<1>1. Len(w) \in Nat \ {0} /\ 1 \in 1 .. Len(w)
    BY EmptySeq, LenProperties
<1>2. /\ v \in Seq(Items) /\ Len(v) = Len(w)
      /\ \A i \in 1 .. Len(v) : v[i] = IF i = 1 THEN it ELSE w[i]
    BY <1>1, ExceptSeq
<1> HIDE DEF v
<1>3. v # <<>> /\ Head(v) = it
    BY <1>1, <1>2, EmptySeq, HeadTailProperties
<1>4. RoutinesFiled(v, c)
    BY <1>1, <1>2 DEF RoutinesFiled
<1> QED
    BY <1>2, <1>3, <1>4 DEF v

LEMMA HandoverWork ==
    ASSUME NEW w \in Seq(Items), w # <<>>, RoutinesFiled(w, ctl)
    PROVE  /\ PolicyHandover(w) \in Seq(Items) /\ PolicyHandover(w) # <<>>
           /\ RoutinesFiled(PolicyHandover(w), ctl)
<1>1. Item("rotate", None, 0) \in Items /\ Item("rotate", None, 0).kind # "ctl"
    BY ItemType, SupervisorAssumption DEF Kinds
<1> QED
    BY <1>1, WorkPush DEF PolicyHandover

\* The work of a message, before any turn.
LEMMA FirstWork ==
    ASSUME NEW it \in Items, NEW c,
           it.kind = "ctl" => it.req \in DOMAIN c /\ c[it.req].verb \in {"feierabend", "standup"}
    PROVE  /\ <<it>> \in Seq(Items) /\ <<it>> # <<>> /\ Head(<<it>>) = it
           /\ RoutinesFiled(<<it>>, c)
BY DEF RoutinesFiled

-----------------------------------------------------------------------------
(***************************************************************************)
(* The steps, one lemma for each.                                          *)
(***************************************************************************)
LEMMA StartStepsPlan ==
    /\ mem.sid = None => StartSteps = <<"bind", "start", "launch">>
    /\ mem.sid # None => StartSteps = <<"start", "launch">>
<1>1. <<"bind">> \o <<"start", "launch">> = <<"bind", "start", "launch">>
    BY ShortPlans DEF Steps
<1>2. <<>> \o <<"start", "launch">> = <<"start", "launch">>
    OBVIOUS
<1> QED
    BY <1>1, <1>2 DEF StartSteps

\* A turn is planned.
LEMMA LaunchPlanned ==
    ASSUME todo' \in {<<"start", "launch">>, <<"bind", "start", "launch">>},
           phase' = "run", child'.st = "none", work' # <<>>, RoutinesFiled(work, ctl)',
           todo' = <<"start", "launch">> => mem'.sid # None,
           Head(work').kind # "ctl" => ~mem'.tripped /\ ~mem'.off
    PROVE  Planned' /\ todo' \in Seq(Steps) /\ ~At("restored")' /\ ~At("persist")'
<1>1. /\ todo' # <<>> /\ Head(todo') \in {"start", "bind"}
      /\ In(todo') \subseteq {"bind", "start", "launch"}
    BY FixedPlans
<1>2. Ordered(todo')
    BY DEF Ordered, MayPrecede
<1>3. TodoOK'
    BY <1>1, <1>2 DEF TodoOK, LaunchPlans, ControlSteps
<1>4. WorkOK'
    BY <1>1 DEF WorkOK
<1>5. ChildOK' /\ StartOK'
    BY <1>1 DEF ChildOK, StartOK, At, Process
<1>6. todo' \in Seq(Steps)
    <2>1. <<"start", "launch">> \in Seq(Steps)
        BY DEF Steps
    <2>2. <<"bind", "start", "launch">> \in Seq(Steps)
        BY DEF Steps
    <2> QED
        BY <2>1, <2>2
<1> QED
    BY <1>1, <1>3, <1>4, <1>5, <1>6 DEF Planned, At

\* The memory and the journal stay, and so does what they agree on.
LEMMA SameAgreed ==
    ASSUME Agreed, UNCHANGED <<mem, disk, strikes>>, Alive' => Alive,
           At("restored")' <=> At("restored"), At("persist")' <=> At("persist")
    PROVE  Agreed'
BY DEF Agreed

LEMMA PollMessageStep ==
    ASSUME SInv, NEW i \in Ids, PollMessage(i)
    PROVE  SInv'
<1> USE DEF SInv
<1>1. /\ phase = "run" /\ todo = <<>> /\ child.st = "none" /\ ~mem.off /\ ~mem.tripped
      /\ phase' = phase /\ child' = child /\ mem' = mem /\ disk' = disk /\ ctl' = ctl
      /\ strikes' = strikes /\ cur' = cur
      /\ todo' = StartSteps /\ work' = PolicyHandover(<<Item("msg", i, 0)>>)
      /\ inbox' = [inbox EXCEPT ![i] = "SEEN"]
    BY DEF PollMessage, MayPoll, Idle, outside, history
<1>2. Item("msg", i, 0) \in Items /\ Item("msg", i, 0).kind # "ctl"
    BY ItemType, SupervisorAssumption DEF Kinds
<1>3. /\ <<Item("msg", i, 0)>> \in Seq(Items) /\ <<Item("msg", i, 0)>> # <<>>
      /\ RoutinesFiled(<<Item("msg", i, 0)>>, ctl)
    BY <1>2, FirstWork
<1>4. work' \in Seq(Items) /\ work' # <<>> /\ RoutinesFiled(work', ctl')
    BY <1>1, <1>3, HandoverWork
<1>5. /\ Planned' /\ todo' \in Seq(Steps) /\ ~At("restored")' /\ ~At("persist")'
    BY <1>1, <1>4, StartStepsPlan, LaunchPlanned
<1>6. TypeOK'
    BY <1>1, <1>4, <1>5 DEF TypeOK, PollMessage, outside, history
<1>7. Agreed'
    BY <1>1, <1>5, SameAgreed DEF Alive, At
<1> QED
    BY <1>5, <1>6, <1>7

LEMMA PollRetryStep ==
    ASSUME SInv, PollRetry
    PROVE  SInv'
<1> USE DEF SInv
<1>1. /\ phase = "run" /\ todo = <<>> /\ child.st = "none" /\ ~mem.off /\ ~mem.tripped
      /\ phase' = phase /\ child' = child /\ mem' = mem /\ disk' = disk /\ ctl' = ctl
      /\ strikes' = strikes /\ work # <<>>
      /\ todo' = StartSteps /\ work' = PolicyHandover(work)
    BY DEF PollRetry, MayPoll, Idle, outside, history
<1>2. work \in Seq(Items) /\ RoutinesFiled(work, ctl)
    BY DEF TypeOK, Planned, WorkOK
<1>3. work' \in Seq(Items) /\ work' # <<>> /\ RoutinesFiled(work', ctl')
    BY <1>1, <1>2, HandoverWork
<1>4. /\ Planned' /\ todo' \in Seq(Steps) /\ ~At("restored")' /\ ~At("persist")'
    BY <1>1, <1>3, StartStepsPlan, LaunchPlanned
<1>5. TypeOK'
    BY <1>1, <1>3, <1>4 DEF TypeOK, PollRetry, outside, history
<1>6. Agreed'
    BY <1>1, <1>4, SameAgreed DEF Alive, At
<1> QED
    BY <1>4, <1>5, <1>6

\* Whoever works off a step has a memory and a type.
LEMMA AtStep ==
    ASSUME SInv, NEW x, At(x)
    PROVE  /\ todo # <<>> /\ Head(todo) = x /\ Alive /\ phase \in {"boot", "run"}
           /\ (x \notin {"launch", "cancel", "finish", "clear"} => child.st = "none")
           /\ mem \in Counters /\ disk \in Journals /\ disk.c \in Counters
           /\ work \in Seq(Items) /\ todo \in Seq(Steps)
<1>1. todo # <<>> /\ Head(todo) = x /\ TypeOK /\ Planned
    BY DEF At, SInv
<1>2. phase \in {"boot", "run"} /\ Alive
    BY <1>1 DEF Planned, TodoOK, Alive
<1>3. x \notin {"launch", "cancel", "finish", "clear"} => child.st = "none"
    BY <1>1, NoChildAt DEF Planned
<1> QED
    BY <1>1, <1>2, <1>3, JournalFields DEF TypeOK

LEMMA bind_sessionStep ==
    ASSUME SInv, bind_session
    PROVE  SInv'
<1> DEFINE s == CHOOSE t \in Sids : t \notin InUse
<1>1. s \in Sids /\ s \notin InUse /\ s # None
    BY SupervisorAssumption DEF bind_session
<1>2. /\ mem' = [mem EXCEPT !.sid = s, !.fresh = TRUE, !.turns = 0]
      /\ disk' = SessionBound(disk, s)
      /\ known' = known \cap InUse /\ used' = used \cap InUse
      /\ moved' = FALSE /\ owed' = (owed \/ At("rebind")) /\ Then(<<>>)
      /\ UNCHANGED <<phase, work, child, orphans, inbox, order, ctl, faults, acted, strikes>>
    BY DEF bind_session
<1> HIDE DEF s
<1>3. /\ todo # <<>> /\ Head(todo) \in {"bind", "rebind"} /\ Alive /\ phase \in {"boot", "run"}
      /\ child.st = "none" /\ mem \in Counters /\ disk \in Journals
      /\ work \in Seq(Items) /\ todo \in Seq(Steps) /\ ~At("restored") /\ ~At("persist")
    <2>1. At("bind") \/ At("rebind")
        BY DEF bind_session
    <2> QED
        BY <2>1, AtStep DEF At
<1>4. /\ mem' \in Counters /\ mem'.sid = s /\ mem'.fresh = TRUE /\ mem'.turns = 0
      /\ mem'.brake = mem.brake /\ mem'.tripped = mem.tripped /\ mem'.losses = mem.losses
      /\ mem'.streak = mem.streak /\ mem'.off = mem.off
    <2> DEFINE mid == [mem EXCEPT !.sid = s]
               mid2 == [mid EXCEPT !.fresh = TRUE]
    <2>1. mid \in Counters
        BY <1>1, <1>3, CountersEdits
    <2>2. mem' = [mid2 EXCEPT !.turns = 0]
        BY <1>2, <1>3 DEF Counters
    <2>3. mem'.sid = s /\ mem'.fresh = TRUE /\ mem'.turns = 0
      /\ mem'.brake = mem.brake /\ mem'.tripped = mem.tripped /\ mem'.losses = mem.losses
      /\ mem'.streak = mem.streak /\ mem'.off = mem.off
        BY <1>2, <1>3 DEF Counters
    <2> HIDE DEF mid
    <2>4. mid2 \in Counters
        BY <2>1, CountersEdits
    <2> HIDE DEF mid2
    <2> QED
        BY <2>2, <2>3, <2>4, CountersEdits
<1>5. /\ disk' \in Journals
      /\ disk'.c.sid = s /\ disk'.c.fresh = TRUE /\ disk'.c.turns = 0
      /\ disk'.c.brake = disk.c.brake /\ disk'.c.tripped = disk.c.tripped
      /\ disk'.c.losses = disk.c.losses /\ disk'.c.streak = disk.c.streak
      /\ disk'.c.off = disk.c.off
    <2>1. s \in Sids \cup {None}
        BY <1>1
    <2> QED
        BY <1>2, <1>3, <2>1, SessionBoundType
<1>6. TypeOK /\ Planned /\ Agreed
    BY DEF SInv
<1>7. /\ Planned' /\ todo' \in Seq(Steps) /\ cur' \in 0 .. MaxReqs
      /\ ~At("restored")' /\ ~At("persist")'
    <2>1. CASE todo \notin LaunchPlans
        <3>1. child'.st = "none" /\ work' = work /\ UNCHANGED <<phase, ctl>> /\ Then(<<>>)
            BY <1>2, <1>3
        <3>2. todo # <<>> /\ TypeOK /\ Planned
            BY <1>3, <1>6
        <3> QED
            BY <2>1, <3>1, <3>2, PlanStep
    <2>2. CASE todo \in LaunchPlans
        <3>1. todo = <<"bind", "start", "launch">>
            BY <1>3, <2>2 DEF LaunchPlans
        <3>2. "start" \in In(todo)
            BY <3>1, FixedPlans
        <3>3. work # <<>> /\ phase = "run" /\ RoutinesFiled(work, ctl)
            BY <1>3, <1>6, <3>2 DEF Planned, WorkOK, WorkSteps, TodoOK
        <3>4. Head(work).kind # "ctl" => ~mem.tripped /\ ~mem.off
            BY <1>6, <3>2 DEF Planned, StartOK
        <3>5. todo' = <<"start", "launch">> /\ cur' \in {0, cur}
            BY <1>2, <1>3, <1>6, <3>1, StepDone, FixedPlans DEF Planned
        <3>6. cur' \in 0 .. MaxReqs
            BY <1>6, <3>5, SupervisorAssumption DEF TypeOK
        <3> QED
            BY <1>1, <1>2, <1>3, <1>4, <3>3, <3>4, <3>5, <3>6, LaunchPlanned
    <2> QED
        BY <2>1, <2>2
<1>8. TypeOK'
    <2>1. moved' \in BOOLEAN /\ owed' \in BOOLEAN
        BY <1>2
    <2>2. known' \subseteq Sids /\ used' \subseteq Sids
        BY <1>2, <1>6 DEF TypeOK
    <2> QED
        BY <1>2, <1>4, <1>5, <1>6, <1>7, <2>1, <2>2 DEF TypeOK
<1>9. Agreed'
    BY <1>2, <1>3, <1>4, <1>5, <1>6, <1>7 DEF Agreed, Alive
<1> QED
    BY <1>7, <1>8, <1>9 DEF SInv

\* A step that is not about a child.
LEMMA QuietStep ==
    ASSUME SInv, NEW x, At(x), Then(<<>>), UNCHANGED <<phase, ctl, child>>,
           x \notin {"bind", "start", "launch", "cancel", "finish", "clear"},
           work' = work \/ (work' = <<>> /\ x \in {"drop", "off", "done", "fail"})
    PROVE  /\ Planned' /\ todo' \in Seq(Steps) /\ cur' \in 0 .. MaxReqs
           /\ ~At("restored")' /\ ~At("persist")'
           /\ (x # "restored" => ~At("restored")) /\ (x # "persist" => ~At("persist"))
           /\ Alive /\ Alive'
<1>1. TypeOK /\ Planned
    BY DEF SInv
<1>2. todo # <<>> /\ Head(todo) = x /\ child.st = "none" /\ Alive
    BY AtStep
<1>3. todo \notin LaunchPlans
    BY <1>2, NotLaunch
<1>4. child'.st = "none" /\ UNCHANGED <<phase, ctl>>
      /\ (work' = work \/ (work' = <<>> /\ Head(todo) \in {"drop", "off", "done", "fail"}))
    BY <1>2
<1>5. /\ Planned' /\ todo' \in Seq(Steps) /\ cur' \in 0 .. MaxReqs
      /\ ~At("restored")' /\ ~At("persist")'
    BY <1>1, <1>2, <1>3, <1>4, PlanStep
<1>6. (x # "restored" => ~At("restored")) /\ (x # "persist" => ~At("persist"))
    BY <1>2 DEF At
<1>7. Alive'
    BY <1>2, <1>4 DEF Alive
<1> QED
    BY <1>2, <1>5, <1>6, <1>7

LEMMA start_turnStep ==
    ASSUME SInv, start_turn
    PROVE  SInv'
<1>1. /\ child' = [sid |-> mem.sid, arg |-> IF mem.fresh THEN "new" ELSE "resume", st |-> "prepared"]
      /\ disk' = TurnStarted(disk, mem.sid) /\ mem' = [mem EXCEPT !.fresh = FALSE]
      /\ owed' = (owed /\ ~(Head(work).kind = "rehand" \/ Head(work).id = Note))
      /\ Then(<<>>) /\ At("start")
      /\ UNCHANGED <<phase, work, orphans, known, order, ctl, moved, inbox, faults, used, acted, strikes>>
    BY DEF start_turn, outside
<1>2. /\ todo # <<>> /\ Head(todo) = "start" /\ Alive /\ phase \in {"boot", "run"}
      /\ child.st = "none" /\ mem \in Counters /\ disk \in Journals /\ todo \in Seq(Steps)
    BY <1>1, AtStep
<1>3. TypeOK /\ Planned /\ Agreed
    BY DEF SInv
<1>4. todo = <<"start", "launch">> /\ todo' = <<"launch">> /\ "start" \in In(todo)
    <2>1. "start" \in In(todo)
        BY <1>2, HeadIn
    <2>2. todo \in LaunchPlans
        BY <1>3, <2>1 DEF Planned, TodoOK
    <2>3. todo = <<"start", "launch">>
        BY <1>2, <2>2 DEF LaunchPlans
    <2> QED
        BY <1>1, <1>2, <1>3, <2>1, <2>3, StepDone, FixedPlans DEF Planned
<1>5. mem.sid \in Sids
    BY <1>2, <1>3, <1>4, CountersFields DEF Planned, StartOK
<1>6. /\ mem' \in Counters /\ mem'.sid = mem.sid /\ mem'.fresh = FALSE /\ mem'.turns = mem.turns
      /\ mem'.brake = mem.brake /\ mem'.tripped = mem.tripped /\ mem'.losses = mem.losses
      /\ mem'.streak = mem.streak /\ mem'.off = mem.off
    <2>1. mem' \in Counters
        BY <1>1, <1>2, CountersEdits
    <2> QED
        BY <1>1, <1>2, <2>1 DEF Counters
<1>7. /\ disk' \in Journals
      /\ disk'.c.sid = disk.c.sid /\ disk'.c.turns = disk.c.turns
      /\ disk'.c.fresh = (disk.c.fresh /\ mem.sid # disk.c.sid)
      /\ disk'.c.brake = disk.c.brake /\ disk'.c.tripped = disk.c.tripped
      /\ disk'.c.losses = disk.c.losses /\ disk'.c.streak = disk.c.streak
      /\ disk'.c.off = disk.c.off
    <2>1. mem.sid \in Sids \cup {None}
        BY <1>5
    <2> QED
        BY <1>1, <1>2, <2>1, TurnStartedType
<1>8. work # <<>> /\ phase = "run" /\ RoutinesFiled(work, ctl)
    BY <1>2, <1>3, <1>4 DEF Planned, WorkOK, WorkSteps, TodoOK
<1>9. todo' # <<>> /\ Head(todo') = "launch" /\ In(todo') = {"launch"}
    BY <1>4, FixedPlans
<1>10. ~At("restored")' /\ ~At("persist")' /\ At("launch")' /\ ~At("restored") /\ ~At("persist")
    BY <1>2, <1>9 DEF At
<1>11. cur' \in 0 .. MaxReqs
    BY <1>1, <1>2, <1>3, StepDone, SupervisorAssumption DEF Planned, TypeOK
<1>12. Planned'
    <2>1. TodoOK'
        BY <1>1, <1>2, <1>3, StepTodo DEF Planned
    <2>2. WorkOK'
        BY <1>1, <1>2, <1>3, StepWork DEF Planned
    <2>3. ChildOK'
        BY <1>1, <1>5, <1>8, <1>10 DEF ChildOK, Process
    <2>4. StartOK'
        BY <1>4, <1>9 DEF StartOK
    <2> QED
        BY <2>1, <2>2, <2>3, <2>4 DEF Planned
<1>13. TypeOK'
    <2>1. child' \in Children
        BY <1>1, <1>5 DEF Children
    <2>2. owed' \in BOOLEAN
        BY <1>1
    <2>3. todo' \in Seq(Steps)
        BY <1>1, <1>2, <1>3, StepDone DEF Planned
    <2> QED
        BY <1>1, <1>3, <1>6, <1>7, <1>11, <2>1, <2>2, <2>3 DEF TypeOK
<1>14. Agreed'
    BY <1>1, <1>2, <1>3, <1>6, <1>7, <1>10 DEF Agreed, Alive
<1> QED
    BY <1>12, <1>13, <1>14 DEF SInv

LEMMA RestoreStep ==
    ASSUME SInv, Restore
    PROVE  SInv'
<1>1. /\ At("restored") /\ disk' = PersistenceRestored(disk) /\ Then(<<>>)
      /\ UNCHANGED <<phase, mem, work, child, orphans, known, order, ctl, moved, inbox,
                     faults, used, acted, owed, strikes>>
    BY DEF Restore, outside, history
<1>2. /\ Planned' /\ todo' \in Seq(Steps) /\ cur' \in 0 .. MaxReqs
      /\ ~At("restored")' /\ ~At("persist")' /\ Alive
    BY <1>1, QuietStep
<1>3. disk \in Journals /\ TypeOK /\ Agreed
    BY DEF SInv, TypeOK
<1>4. /\ disk' \in Journals
      /\ disk'.c.sid = disk.c.sid /\ disk'.c.fresh = disk.c.fresh /\ disk'.c.turns = disk.c.turns
      /\ disk'.c.brake = disk.c.brake /\ disk'.c.tripped = disk.c.tripped
      /\ disk'.c.losses = disk.c.losses /\ disk'.c.streak = 0
      /\ disk'.c.off = disk.c.off
    BY <1>1, <1>3, PersistenceRestoredType
<1>5. TypeOK'
    BY <1>1, <1>2, <1>3, <1>4 DEF TypeOK
<1>6. Agreed'
    BY <1>1, <1>2, <1>3, <1>4 DEF Agreed, Alive
<1> QED
    BY <1>2, <1>5, <1>6 DEF SInv

LEMMA PersistStep ==
    ASSUME SInv, Persist
    PROVE  SInv'
<1> DEFINE l == Put(mem.losses, Current.id, 0)
           m == [mem EXCEPT !.losses = l]
<1>1. /\ At("persist") /\ disk' = PersistenceFailed(disk, Current.id, mem.sid, mem.streak)
      /\ mem' = NoSession(m) /\ Then(<<>>)
      /\ UNCHANGED <<phase, work, child, orphans, known, order, ctl, moved, inbox,
                     faults, used, acted, owed, strikes>>
    BY DEF Persist, outside, history
<1>2. /\ Planned' /\ todo' \in Seq(Steps) /\ cur' \in 0 .. MaxReqs
      /\ ~At("restored")' /\ ~At("persist")' /\ Alive
    BY <1>1, QuietStep
<1>3. disk \in Journals /\ mem \in Counters /\ TypeOK /\ Agreed
    BY DEF SInv, TypeOK
<1>4. mem.sid = disk.c.sid /\ mem.streak \in Nat /\ mem.losses \in [Ids -> Nat]
    BY <1>2, <1>3, CountersFields DEF Agreed
<1>5. l \in [Ids -> Nat] /\ \A i \in Ids : l[i] = IF i = Current.id THEN 0 ELSE mem.losses[i]
    BY <1>4, PutCounts
<1> HIDE DEF l
<1>6. /\ m \in Counters /\ m.losses = l /\ m.brake = mem.brake /\ m.tripped = mem.tripped
      /\ m.streak = mem.streak /\ m.off = mem.off
    <2>1. m \in Counters
        BY <1>3, <1>5, CountersEdits
    <2> QED
        BY <1>3, <2>1 DEF Counters
<1> HIDE DEF m
<1>7. /\ mem' \in Counters /\ mem'.sid = None /\ mem'.fresh = FALSE /\ mem'.turns = 0
      /\ mem'.brake = mem.brake /\ mem'.tripped = mem.tripped /\ mem'.losses = l
      /\ mem'.streak = mem.streak /\ mem'.off = mem.off
    BY <1>1, <1>6, NoSessionType
<1>8. /\ disk' \in Journals
      /\ disk'.c.sid = None /\ ~disk'.c.fresh /\ disk'.c.turns = 0
      /\ disk'.c.brake = disk.c.brake /\ disk'.c.tripped = disk.c.tripped
      /\ disk'.c.streak = mem.streak /\ disk'.c.off = disk.c.off
      /\ \A i \in Ids : disk'.c.losses[i] = IF i = Current.id THEN 0 ELSE disk.c.losses[i]
    <2> DEFINE k == PersistenceFailed(disk, Current.id, mem.sid, mem.streak)
    <2>1. /\ k \in Journals
          /\ k.c.sid = None /\ ~k.c.fresh /\ k.c.turns = 0
          /\ k.c.brake = disk.c.brake /\ k.c.tripped = disk.c.tripped
          /\ k.c.streak = mem.streak /\ k.c.off = disk.c.off
          /\ k.c.losses = Put(disk.c.losses, Current.id, 0)
        BY <1>3, <1>4, PersistenceFailedType
    <2>2. \A i \in Ids : k.c.losses[i] = IF i = Current.id THEN 0 ELSE disk.c.losses[i]
        BY <1>3, <2>1, JournalFields, CountersFields, PutCounts
    <2>3. disk' = k
        BY <1>1
    <2> QED
        BY <2>1, <2>2, <2>3
<1>9. TypeOK'
    BY <1>1, <1>2, <1>3, <1>7, <1>8 DEF TypeOK
<1>10. \A i \in Ids : disk'.c.losses[i] <= mem'.losses[i]
    BY <1>2, <1>3, <1>5, <1>7, <1>8 DEF Agreed
<1>11. disk'.c.fresh = mem'.fresh
    BY <1>7, <1>8, JournalFields, CountersFields
<1>12. Agreed'
    BY <1>11, <1>1, <1>2, <1>3, <1>7, <1>8, <1>10 DEF Agreed, Alive
<1> QED
    BY <1>2, <1>9, <1>12 DEF SInv

\* The request a control step acts for.
LEMMA ActingFor ==
    ASSUME SInv, NEW x \in ControlSteps, At(x)
    PROVE  cur \in 1 .. MaxReqs
<1>1. Head(todo) \in In(todo) /\ Head(todo) = x
    BY AtStep, HeadIn
<1>2. cur # 0 /\ cur \in 0 .. MaxReqs
    BY <1>1 DEF SInv, Planned, TodoOK, TypeOK
<1> QED
    BY <1>2, SupervisorAssumption

\* A fault is counted within its bound.
LEMMA FaultType ==
    ASSUME faults \in 0 .. MaxFaults, NEW k, Fault(k)
    PROVE  faults' \in 0 .. MaxFaults
BY SupervisorAssumption DEF Fault

LEMMA OffDutyStep ==
    ASSUME SInv, OffDuty
    PROVE  SInv'
<1>1. /\ At("off") /\ disk' = Duty(disk, TRUE) /\ mem' = [mem EXCEPT !.off = TRUE]
      /\ work' = <<>> /\ Then(<<>>)
      /\ UNCHANGED <<phase, child, orphans, known, order, ctl, moved, inbox,
                     faults, used, acted, owed, strikes>>
    BY DEF OffDuty, outside, history
<1>2. /\ Planned' /\ todo' \in Seq(Steps) /\ cur' \in 0 .. MaxReqs
      /\ ~At("restored")' /\ ~At("persist")' /\ ~At("restored") /\ ~At("persist") /\ Alive
    BY <1>1, QuietStep
<1>3. disk \in Journals /\ mem \in Counters /\ TypeOK /\ Agreed
    BY DEF SInv, TypeOK
<1>4. /\ mem' \in Counters /\ mem'.sid = mem.sid /\ mem'.fresh = mem.fresh
      /\ mem'.turns = mem.turns /\ mem'.brake = mem.brake /\ mem'.tripped = mem.tripped
      /\ mem'.losses = mem.losses /\ mem'.streak = mem.streak /\ mem'.off = TRUE
    <2>1. mem' \in Counters
        BY <1>1, <1>3, CountersEdits
    <2> QED
        BY <1>1, <1>3, <2>1 DEF Counters
<1>5. /\ disk' \in Journals
      /\ disk'.c.sid = disk.c.sid /\ disk'.c.fresh = disk.c.fresh /\ disk'.c.turns = disk.c.turns
      /\ disk'.c.brake = disk.c.brake /\ disk'.c.tripped = disk.c.tripped
      /\ disk'.c.losses = disk.c.losses /\ disk'.c.streak = disk.c.streak
      /\ disk'.c.off = TRUE
    BY <1>1, <1>3, DutyType
<1>6. TypeOK'
    <2>1. work' \in Seq(Items)
        BY <1>1
    <2> QED
        BY <1>1, <1>2, <1>3, <1>4, <1>5, <2>1 DEF TypeOK
<1>7. Agreed'
    BY <1>1, <1>2, <1>3, <1>4, <1>5 DEF Agreed, Alive
<1> QED
    BY <1>2, <1>6, <1>7 DEF SInv

LEMMA OnDutyStep ==
    ASSUME SInv, OnDuty
    PROVE  SInv'
<1>1. /\ At("duty") /\ disk' = Duty(disk, FALSE) /\ mem' = [mem EXCEPT !.off = FALSE]
      /\ acted' = acted \cup {cur} /\ Then(<<>>)
      /\ UNCHANGED <<phase, work, child, orphans, known, order, ctl, moved, inbox,
                     faults, used, owed, strikes>>
    BY DEF OnDuty, outside
<1>2. /\ Planned' /\ todo' \in Seq(Steps) /\ cur' \in 0 .. MaxReqs
      /\ ~At("restored")' /\ ~At("persist")' /\ ~At("restored") /\ ~At("persist") /\ Alive
    BY <1>1, QuietStep
<1>3. disk \in Journals /\ mem \in Counters /\ TypeOK /\ Agreed
    BY DEF SInv, TypeOK
<1>4. /\ mem' \in Counters /\ mem'.sid = mem.sid /\ mem'.fresh = mem.fresh
      /\ mem'.turns = mem.turns /\ mem'.brake = mem.brake /\ mem'.tripped = mem.tripped
      /\ mem'.losses = mem.losses /\ mem'.streak = mem.streak /\ mem'.off = FALSE
    <2>1. mem' \in Counters
        BY <1>1, <1>3, CountersEdits
    <2> QED
        BY <1>1, <1>3, <2>1 DEF Counters
<1>5. /\ disk' \in Journals
      /\ disk'.c.sid = disk.c.sid /\ disk'.c.fresh = disk.c.fresh /\ disk'.c.turns = disk.c.turns
      /\ disk'.c.brake = disk.c.brake /\ disk'.c.tripped = disk.c.tripped
      /\ disk'.c.losses = disk.c.losses /\ disk'.c.streak = disk.c.streak
      /\ disk'.c.off = FALSE
    BY <1>1, <1>3, DutyType
<1>6. cur \in 1 .. MaxReqs
    BY <1>1, ActingFor DEF ControlSteps
<1>7. TypeOK'
    BY <1>1, <1>2, <1>3, <1>4, <1>5, <1>6 DEF TypeOK
<1>8. Agreed'
    BY <1>1, <1>2, <1>3, <1>4, <1>5 DEF Agreed, Alive
<1> QED
    BY <1>2, <1>7, <1>8 DEF SInv

LEMMA DropStep ==
    ASSUME SInv, Drop
    PROVE  SInv'
<1>1. /\ At("drop") /\ work' = <<>> /\ Then(<<>>)
      /\ UNCHANGED <<phase, mem, disk, child, orphans, known, order, ctl, moved, inbox,
                     faults, used, acted, owed, strikes>>
    BY DEF Drop, outside, history
<1>2. /\ Planned' /\ todo' \in Seq(Steps) /\ cur' \in 0 .. MaxReqs
      /\ ~At("restored")' /\ ~At("persist")' /\ ~At("restored") /\ ~At("persist") /\ Alive
    BY <1>1, QuietStep
<1>3. TypeOK /\ Agreed
    BY DEF SInv
<1>4. TypeOK'
    BY <1>1, <1>2, <1>3 DEF TypeOK
<1>5. Agreed'
    BY <1>1, <1>2, <1>3, SameAgreed
<1> QED
    BY <1>2, <1>4, <1>5 DEF SInv

LEMMA CloseStep ==
    ASSUME SInv, Close
    PROVE  SInv'
<1>1. /\ At("done") \/ At("fail")
      /\ work' = <<>> /\ Then(<<>>)
      /\ UNCHANGED <<phase, mem, disk, child, orphans, known, order, ctl, moved,
                     used, acted, owed, strikes>>
    BY DEF Close, outside, history
<1>2. /\ Planned' /\ todo' \in Seq(Steps) /\ cur' \in 0 .. MaxReqs
      /\ ~At("restored")' /\ ~At("persist")' /\ ~At("restored") /\ ~At("persist") /\ Alive
    <2>1. CASE At("done")
        BY <1>1, <2>1, QuietStep
    <2>2. CASE At("fail")
        BY <1>1, <2>2, QuietStep
    <2> QED
        BY <1>1, <2>1, <2>2
<1>3. TypeOK /\ Agreed
    BY DEF SInv
<1>4. faults' \in 0 .. MaxFaults
    BY <1>3, FaultType DEF Close, TypeOK
<1>5. inbox' \in [Ids -> {"absent", "PERSISTED", "SEEN", "PROCESSED", "FAILED"}]
    <2>1. inbox \in [Ids -> {"absent", "PERSISTED", "SEEN", "PROCESSED", "FAILED"}]
        BY <1>3 DEF TypeOK
    <2> QED
        BY <2>1 DEF Close
<1>6. TypeOK'
    BY <1>1, <1>2, <1>3, <1>4, <1>5 DEF TypeOK
<1>7. Agreed'
    BY <1>1, <1>2, <1>3, SameAgreed
<1> QED
    BY <1>2, <1>6, <1>7 DEF SInv

LEMMA add_handover_noteStep ==
    ASSUME SInv, add_handover_note
    PROVE  SInv'
<1>1. /\ At("note") /\ Then(<<>>)
      /\ UNCHANGED <<phase, work, child, orphans, known, ctl, moved, faults,
                     used, acted, owed, strikes>>
    BY DEF add_handover_note, history
<1>2. /\ Planned' /\ todo' \in Seq(Steps) /\ cur' \in 0 .. MaxReqs
      /\ ~At("restored")' /\ ~At("persist")' /\ ~At("restored") /\ ~At("persist") /\ Alive
    BY <1>1, QuietStep
<1>3. disk \in Journals /\ mem \in Counters /\ disk.c \in Counters /\ TypeOK /\ Agreed
    BY JournalFields DEF SInv, TypeOK
<1>4. CASE Open(Note)
    <2>1. UNCHANGED <<mem, disk, inbox, order>>
        BY <1>4 DEF add_handover_note
    <2>2. TypeOK'
        BY <1>1, <1>2, <1>3, <2>1 DEF TypeOK
    <2>3. Agreed'
        BY <1>1, <1>2, <1>3, <2>1, SameAgreed
    <2> QED
        BY <1>2, <2>2, <2>3 DEF SInv
<1>5. CASE ~Open(Note)
    <2>1. /\ inbox' = [inbox EXCEPT ![Note] = "PERSISTED"] /\ mem' = NewNote(mem)
          /\ disk' = [disk EXCEPT !.c = NewNote(@), !.errs[Note] = 0]
          /\ order' \subseteq order \cup Listed(Note)
        BY <1>5 DEF add_handover_note
    <2>2. disk' \in Journals /\ disk'.c = NewNote(disk.c)
        BY <1>3, <2>1, NoteRecordType
    <2>3. /\ mem' \in Counters /\ mem'.sid = mem.sid /\ mem'.fresh = mem.fresh
          /\ mem'.turns = mem.turns /\ mem'.off = mem.off
          /\ mem'.brake = mem.brake /\ mem'.tripped = mem.tripped /\ mem'.streak = mem.streak
          /\ \A i \in Ids : mem'.losses[i] = IF i = Note THEN 0 ELSE mem.losses[i]
        BY <1>3, <2>1, NewNoteType
    <2>4. LET d == disk'.c IN
          /\ d.sid = disk.c.sid /\ d.fresh = disk.c.fresh
          /\ d.turns = disk.c.turns /\ d.off = disk.c.off
          /\ d.brake = disk.c.brake /\ d.tripped = disk.c.tripped /\ d.streak = disk.c.streak
          /\ \A i \in Ids : d.losses[i] = IF i = Note THEN 0 ELSE disk.c.losses[i]
        BY <1>3, <2>2, NewNoteType
    <2>5. /\ inbox' \in [Ids -> {"absent", "PERSISTED", "SEEN", "PROCESSED", "FAILED"}]
          /\ order' \subseteq Ids \X Ids
        <3>1. Listed(Note) \subseteq Ids \X Ids
            BY DEF Listed, Ids
        <3> QED
            BY <1>3, <2>1, <3>1 DEF TypeOK
    <2>6. TypeOK'
        BY <1>1, <1>2, <1>3, <2>2, <2>3, <2>5 DEF TypeOK
    <2>7. \A i \in Ids : disk'.c.losses[i] <= mem'.losses[i]
        BY <1>2, <1>3, <2>3, <2>4 DEF Agreed
    <2>8. Agreed'
        BY <1>1, <1>2, <1>3, <2>3, <2>4, <2>7 DEF Agreed, Alive
    <2> QED
        BY <1>2, <2>6, <2>8 DEF SInv
<1> QED
    BY <1>4, <1>5

\* What memory and journal agree on after a turn has ended: the journal has
\* the session, the turns and the brake of the new memory, and no more losses.
LEMMA EndAgrees ==
    ASSUME Agreed, Alive, disk \in Journals, mem \in Counters, mem' \in Counters,
           NEW class, NEW id,
           EndsTurn(disk', disk, class, id, mem.sid, mem', mem'.tripped),
           mem'.sid = mem.sid, mem'.fresh = mem.fresh, mem'.off = mem.off,
           mem'.turns = IF class = "ok" THEN mem.turns + 1 ELSE mem.turns,
           mem'.brake >= Burst => mem'.tripped,
           \A i \in Ids : IF i = id /\ class = "session_lost"
                          THEN mem.losses[i] = 0 /\ mem'.losses[i] = 1
                          ELSE mem'.losses[i] = mem.losses[i],
           strikes' = mem'.brake,
           At("restored")' => mem'.streak = 0,
           ~At("restored")' /\ ~At("persist")' => mem'.streak = mem.streak,
           ~At("restored") /\ ~At("persist")
    PROVE  Agreed'
<1>1. /\ disk'.c.sid = disk.c.sid /\ disk'.c.fresh = disk.c.fresh
      /\ disk'.c.turns = IF class = "ok" /\ mem.sid = disk.c.sid
                         THEN disk.c.turns + 1 ELSE disk.c.turns
      /\ disk'.c.brake = mem'.brake /\ disk'.c.tripped = (disk.c.tripped \/ mem'.tripped)
      /\ disk'.c.streak = disk.c.streak /\ disk'.c.off = disk.c.off
    BY DEF EndsTurn
<1>2. /\ mem.sid = disk.c.sid /\ mem.fresh = disk.c.fresh /\ mem.turns = disk.c.turns
      /\ mem.off = disk.c.off /\ mem.streak = disk.c.streak
    BY DEF Agreed
<1>3. \A i \in Ids : disk'.c.losses[i] <= mem'.losses[i]
    <2> SUFFICES ASSUME NEW i \in Ids PROVE disk'.c.losses[i] <= mem'.losses[i]
        OBVIOUS
    <2>1. disk.c.losses[i] <= mem.losses[i]
        BY DEF Agreed
    <2>2. disk.c.losses[i] \in Nat /\ mem.losses[i] \in Nat
        BY JournalFields, CountersFields
    <2>3. disk'.c.losses[i] =
            IF i = id /\ class = "session_lost" THEN disk.c.losses[i] + 1
            ELSE IF i = id /\ class = "ok" THEN 0 ELSE disk.c.losses[i]
        BY DEF EndsTurn
    <2> QED
        BY <2>1, <2>2, <2>3
<1>4. /\ mem'.sid = disk'.c.sid /\ mem'.fresh = disk'.c.fresh /\ mem'.turns = disk'.c.turns
      /\ mem'.brake = disk'.c.brake /\ mem'.off = disk'.c.off
    BY <1>1, <1>2
<1>5. mem'.tripped => disk'.c.tripped
    BY <1>1
<1>6. ~At("restored")' /\ ~At("persist")' => mem'.streak = disk'.c.streak
    BY <1>1, <1>2
<1> QED
    BY <1>1, <1>3, <1>4, <1>5, <1>6 DEF Agreed

\* end_turn writes what Ends says.
LEMMA EndRecord ==
    ASSUME disk \in Journals, NEW class, NEW m \in Counters, Ends(class, m.brake, m.tripped)
    PROVE  /\ EndsTurn(disk', disk, class, Current.id, mem.sid, m, m.tripped)
           /\ child' = NoChild /\ child'.st = "none" /\ disk' \in Journals
<1>1. m.tripped \in BOOLEAN
    BY CountersFields
<1>2. EndsTurn(disk', disk, class, Current.id, mem.sid, m, m.tripped)
    BY <1>1, TurnEndedType DEF Ends
<1>3. child' = NoChild /\ child'.st = "none"
    BY DEF Ends, NoChild
<1> QED
    BY <1>2, <1>3 DEF EndsTurn

\* Where a turn is finished.
LEMMA FinishContext ==
    ASSUME SInv, Finishing
    PROVE  /\ phase = "run" /\ Alive /\ ~At("restored") /\ ~At("persist")
           /\ TypeOK /\ Planned /\ Agreed /\ mem \in Counters /\ disk \in Journals
           /\ work \in Seq(Items) /\ work # <<>> /\ Current \in Items /\ Current = work[1]
           /\ RoutinesFiled(work, ctl) /\ cur \in 0 .. MaxReqs /\ 0 \in 0 .. MaxReqs
           /\ strikes = mem.brake /\ (mem.brake >= Burst => mem.tripped)
<1>1. phase = "run" /\ Alive /\ ~At("restored") /\ ~At("persist")
    BY DEF Finishing, Alive, At
<1>2. TypeOK /\ Planned /\ Agreed /\ mem \in Counters /\ disk \in Journals
      /\ work \in Seq(Items) /\ cur \in 0 .. MaxReqs /\ RoutinesFiled(work, ctl)
    BY DEF SInv, TypeOK, Planned, WorkOK
<1>3. work # <<>> /\ Current \in Items
    BY <1>2, AfterTurn
<1>4. Current = work[1]
    BY <1>2, <1>3, HeadTailProperties DEF Current
<1>5. strikes = mem.brake /\ (mem.brake >= Burst => mem.tripped)
    BY <1>1, <1>2 DEF Agreed
<1> QED
    BY <1>1, <1>2, <1>3, <1>4, <1>5, SupervisorAssumption

LEMMA FinishRetryStep ==
    ASSUME SInv, FinishRetry
    PROVE  SInv'
<1>1. /\ Finishing /\ Ends(child.st, mem.brake, mem.tripped) /\ Then(<<>>)
      /\ child.st \in {"infra", "in_use"}
      /\ UNCHANGED <<phase, mem, work, orphans, known, order, ctl, moved, inbox, faults,
                     used, acted, owed, strikes>>
    BY DEF FinishRetry, outside, history
<1>2. /\ phase = "run" /\ Alive /\ ~At("restored") /\ ~At("persist")
      /\ TypeOK /\ Planned /\ Agreed /\ mem \in Counters /\ disk \in Journals
      /\ work \in Seq(Items) /\ work # <<>> /\ RoutinesFiled(work, ctl)
      /\ cur \in 0 .. MaxReqs /\ 0 \in 0 .. MaxReqs
      /\ strikes = mem.brake /\ (mem.brake >= Burst => mem.tripped)
    BY <1>1, FinishContext
<1>3. /\ EndsTurn(disk', disk, child.st, Current.id, mem.sid, mem, mem.tripped)
      /\ child' = NoChild /\ child'.st = "none" /\ disk' \in Journals
    BY <1>1, <1>2, EndRecord
<1>4. /\ Planned' /\ todo' \in Seq(Steps) /\ cur' \in {0, cur}
      /\ (todo' # <<>> => Head(todo') \in Afters)
    <2>1. <<>> \in FrontPlans /\ In(<<>>) = {}
        BY InEmpty DEF FrontPlans
    <2>2. RoutinesFiled(work', ctl) /\ UNCHANGED <<phase, ctl>>
        BY <1>1, <1>2
    <2> QED
        BY <1>1, <1>2, <1>3, <2>1, <2>2, FinishPlan
<1>5. ~At("restored")' /\ ~At("persist")'
    BY <1>4 DEF At, Afters
<1>6. TypeOK'
    <2>1. child' \in Children
        BY <1>3 DEF NoChild, Children
    <2> QED
        BY <1>1, <1>2, <1>3, <1>4, <2>1 DEF TypeOK
<1>7. Agreed'
    BY <1>1, <1>2, <1>3, <1>5, EndAgrees
<1> QED
    BY <1>4, <1>6, <1>7 DEF SInv

LEMMA FinishFailureStep ==
    ASSUME SInv, FinishFailure
    PROVE  SInv'
<1> DEFINE fails == IF Current.id \in Ids THEN mem.fails[Current.id] + 1 ELSE 0
           brake == mem.brake + 1
           tripped == mem.tripped \/ brake >= Burst
           f == Put(mem.fails, Current.id, fails)
           pre == IF ~tripped /\ fails >= MessageFailures THEN <<"fail">> ELSE <<>>
<1>1. /\ Finishing /\ Ends("provider_failure", brake, tripped) /\ Then(pre)
      /\ mem' = [mem EXCEPT !.brake = brake, !.tripped = tripped, !.fails = f]
      /\ strikes' = strikes + 1
      /\ UNCHANGED <<phase, work, orphans, known, order, ctl, moved, inbox, faults,
                     used, acted, owed>>
    BY DEF FinishFailure, outside
<1>2. /\ phase = "run" /\ Alive /\ ~At("restored") /\ ~At("persist")
      /\ TypeOK /\ Planned /\ Agreed /\ mem \in Counters /\ disk \in Journals
      /\ work \in Seq(Items) /\ work # <<>> /\ RoutinesFiled(work, ctl)
      /\ cur \in 0 .. MaxReqs /\ 0 \in 0 .. MaxReqs
      /\ strikes = mem.brake /\ (mem.brake >= Burst => mem.tripped)
    BY <1>1, FinishContext
<1>3. pre \in FrontPlans
    BY DEF FrontPlans
<1>4. brake \in Nat /\ tripped \in BOOLEAN /\ f \in [Ids -> Nat]
      /\ (brake >= Burst => tripped) /\ strikes' = brake
    <2>1. mem.brake \in Nat /\ mem.fails \in [Ids -> Nat] /\ mem.tripped \in BOOLEAN
        BY <1>2, CountersFields
    <2>2. fails \in Nat
        BY <2>1
    <2>3. f \in [Ids -> Nat]
        BY <2>1, <2>2, PutCounts
    <2> QED
        BY <1>1, <1>2, <2>1, <2>3
<1> HIDE DEF pre, f, tripped, brake
<1>5. /\ mem' \in Counters /\ mem'.sid = mem.sid /\ mem'.fresh = mem.fresh
      /\ mem'.turns = mem.turns /\ mem'.off = mem.off /\ mem'.losses = mem.losses
      /\ mem'.streak = mem.streak /\ mem'.brake = brake /\ mem'.tripped = tripped
    <2> DEFINE mid == [mem EXCEPT !.brake = brake]
               mid2 == [mid EXCEPT !.tripped = tripped]
    <2>1. mid \in Counters
        BY <1>2, <1>4, CountersEdits
    <2>2. mem' = [mid2 EXCEPT !.fails = f]
        BY <1>1, <1>2 DEF Counters
    <2>3. /\ mem'.sid = mem.sid /\ mem'.fresh = mem.fresh
          /\ mem'.turns = mem.turns /\ mem'.off = mem.off /\ mem'.losses = mem.losses
          /\ mem'.streak = mem.streak /\ mem'.brake = brake /\ mem'.tripped = tripped
        BY <1>1, <1>2 DEF Counters
    <2> HIDE DEF mid
    <2>4. mid2 \in Counters
        BY <1>4, <2>1, CountersEdits
    <2> HIDE DEF mid2
    <2> QED
        BY <1>4, <2>2, <2>3, <2>4, CountersEdits
<1>6. /\ EndsTurn(disk', disk, "provider_failure", Current.id, mem.sid, mem', mem'.tripped)
      /\ child' = NoChild /\ child'.st = "none" /\ disk' \in Journals
    <2>1. Ends("provider_failure", mem'.brake, mem'.tripped)
        BY <1>1, <1>5
    <2> QED
        BY <1>2, <1>5, <2>1, EndRecord
<1>7. /\ Planned' /\ todo' \in Seq(Steps) /\ cur' \in {0, cur}
      /\ (todo' # <<>> => Head(todo') \in Afters \cup In(pre))
    <2>1. RoutinesFiled(work', ctl) /\ UNCHANGED <<phase, ctl>> /\ work' # <<>>
        BY <1>1, <1>2
    <2> QED
        BY <1>1, <1>2, <1>3, <1>6, <2>1, FinishPlan
<1>8. ~At("restored")' /\ ~At("persist")'
    <2>1. In(pre) \subseteq {"fail"}
        BY DEF In, pre
    <2> QED
        BY <1>7, <2>1 DEF At, Afters
<1>9. TypeOK'
    <2>1. child' \in Children
        BY <1>6 DEF NoChild, Children
    <2>2. strikes' \in Nat
        BY <1>4
    <2> QED
        BY <1>1, <1>2, <1>5, <1>6, <1>7, <2>1, <2>2 DEF TypeOK
<1>10. Agreed'
    BY <1>2, <1>4, <1>5, <1>6, <1>8, EndAgrees
<1> QED
    BY <1>7, <1>9, <1>10 DEF SInv

LEMMA FinishLostAgainStep ==
    ASSUME SInv, FinishLostAgain
    PROVE  SInv'
<1> DEFINE brake == mem.brake + 1
           tripped == mem.tripped \/ brake >= Burst
           streak == mem.streak + 1
           pre == <<"persist">> \o IF Current.id \in Ids THEN <<"fail">> ELSE <<"drop">>
<1>1. /\ Finishing /\ Ends("provider_failure", brake, tripped) /\ Then(pre)
      /\ mem' = [mem EXCEPT !.brake = brake, !.tripped = tripped, !.streak = streak]
      /\ strikes' = strikes + 1
      /\ UNCHANGED <<phase, work, orphans, known, order, ctl, moved, inbox, faults,
                     used, acted, owed>>
    BY DEF FinishLostAgain, outside
<1>2. /\ phase = "run" /\ Alive /\ ~At("restored") /\ ~At("persist")
      /\ TypeOK /\ Planned /\ Agreed /\ mem \in Counters /\ disk \in Journals
      /\ work \in Seq(Items) /\ work # <<>> /\ RoutinesFiled(work, ctl)
      /\ cur \in 0 .. MaxReqs /\ 0 \in 0 .. MaxReqs
      /\ strikes = mem.brake /\ (mem.brake >= Burst => mem.tripped)
    BY <1>1, FinishContext
<1>3. pre \in FrontPlans /\ pre # <<>> /\ Head(pre) = "persist"
    <2>1. pre = <<"persist", "fail">> \/ pre = <<"persist", "drop">>
        BY ShortPlans DEF Steps
    <2> HIDE DEF pre
    <2> QED
        BY <2>1 DEF FrontPlans
<1>4. brake \in Nat /\ tripped \in BOOLEAN /\ streak \in Nat
      /\ (brake >= Burst => tripped) /\ strikes' = brake
    <2>1. mem.brake \in Nat /\ mem.streak \in Nat /\ mem.tripped \in BOOLEAN
        BY <1>2, CountersFields
    <2> QED
        BY <1>1, <1>2, <2>1
<1> HIDE DEF pre, tripped, brake, streak
<1>5. /\ mem' \in Counters /\ mem'.sid = mem.sid /\ mem'.fresh = mem.fresh
      /\ mem'.turns = mem.turns /\ mem'.off = mem.off /\ mem'.losses = mem.losses
      /\ mem'.brake = brake /\ mem'.tripped = tripped
    <2> DEFINE mid == [mem EXCEPT !.brake = brake]
               mid2 == [mid EXCEPT !.tripped = tripped]
    <2>1. mid \in Counters
        BY <1>2, <1>4, CountersEdits
    <2>2. mem' = [mid2 EXCEPT !.streak = streak]
        BY <1>1, <1>2 DEF Counters
    <2>3. /\ mem'.sid = mem.sid /\ mem'.fresh = mem.fresh
          /\ mem'.turns = mem.turns /\ mem'.off = mem.off /\ mem'.losses = mem.losses
          /\ mem'.brake = brake /\ mem'.tripped = tripped
        BY <1>1, <1>2 DEF Counters
    <2> HIDE DEF mid
    <2>4. mid2 \in Counters
        BY <1>4, <2>1, CountersEdits
    <2> HIDE DEF mid2
    <2> QED
        BY <1>4, <2>2, <2>3, <2>4, CountersEdits
<1>6. /\ EndsTurn(disk', disk, "provider_failure", Current.id, mem.sid, mem', mem'.tripped)
      /\ child' = NoChild /\ child'.st = "none" /\ disk' \in Journals
    <2>1. Ends("provider_failure", mem'.brake, mem'.tripped)
        BY <1>1, <1>5
    <2> QED
        BY <1>2, <1>5, <2>1, EndRecord
<1>7. /\ Planned' /\ todo' \in Seq(Steps) /\ cur' \in {0, cur}
      /\ todo' # <<>> /\ Head(todo') = "persist"
    <2>1. RoutinesFiled(work', ctl) /\ UNCHANGED <<phase, ctl>> /\ work' # <<>>
        BY <1>1, <1>2
    <2> QED
        BY <1>1, <1>2, <1>3, <1>6, <2>1, FinishPlan
<1>8. At("persist")' /\ ~At("restored")'
    BY <1>7 DEF At
<1>9. TypeOK'
    <2>1. child' \in Children
        BY <1>6 DEF NoChild, Children
    <2>2. strikes' \in Nat
        BY <1>4
    <2> QED
        BY <1>1, <1>2, <1>5, <1>6, <1>7, <2>1, <2>2 DEF TypeOK
<1>10. Agreed'
    BY <1>2, <1>4, <1>5, <1>6, <1>8, EndAgrees
<1> QED
    BY <1>7, <1>9, <1>10 DEF SInv

LEMMA FinishLostStep ==
    ASSUME SInv, FinishLost
    PROVE  SInv'
<1> DEFINE counted == [work EXCEPT ![1].lost = IF Current.id \in Ids THEN 0 ELSE 1]
           l == Put(mem.losses, Current.id, 1)
<1>1. /\ Finishing /\ LossesOf(Current) + 1 < LossLimit
      /\ mem' = [mem EXCEPT !.losses = l]
      /\ Ends("session_lost", mem.brake, mem.tripped)
      /\ IF Current.kind = "ctl"
         THEN work' = <<Item("rehand", None, 0)>> \o counted /\ Then(<<"rebind">>)
         ELSE work' = counted /\ Then(<<"note", "rebind", "drop">>)
      /\ UNCHANGED <<phase, orphans, known, order, ctl, moved, inbox, faults,
                     used, acted, owed, strikes>>
    BY DEF FinishLost, outside, history
<1>2. /\ phase = "run" /\ Alive /\ ~At("restored") /\ ~At("persist")
      /\ TypeOK /\ Planned /\ Agreed /\ mem \in Counters /\ disk \in Journals
      /\ work \in Seq(Items) /\ work # <<>> /\ RoutinesFiled(work, ctl)
      /\ cur \in 0 .. MaxReqs /\ 0 \in 0 .. MaxReqs
      /\ strikes = mem.brake /\ (mem.brake >= Burst => mem.tripped)
      /\ Current \in Items /\ Current = work[1]
    BY <1>1, FinishContext
<1>3. l \in [Ids -> Nat] /\ (\A i \in Ids : l[i] = IF i = Current.id THEN 1 ELSE mem.losses[i])
      /\ mem.losses \in [Ids -> Nat]
    BY <1>2, CountersFields, PutCounts
<1>4. Current.id \in Ids => mem.losses[Current.id] = 0
    BY <1>1, <1>3 DEF LossesOf, LossLimit
<1>5. counted \in Seq(Items) /\ counted # <<>> /\ RoutinesFiled(counted, ctl)
    <2> DEFINE n == IF Current.id \in Ids THEN 0 ELSE 1
               it == [Current EXCEPT !.lost = n]
    <2>1. n \in 0 .. 1
        OBVIOUS
    <2>2. counted = [work EXCEPT ![1] = [work[1] EXCEPT !.lost = n]]
        OBVIOUS
    <2> HIDE DEF n
    <2>3. it \in Items /\ it.kind = Current.kind /\ it.req = Current.req
        BY <1>2, <2>1 DEF Items
    <2>4. counted = [work EXCEPT ![1] = it]
        BY <1>2, <2>2
    <2> HIDE DEF it, counted
    <2> QED
        BY <1>2, <2>3, <2>4, WorkCount
<1> HIDE DEF l, counted
<1>6. /\ mem' \in Counters /\ mem'.sid = mem.sid /\ mem'.fresh = mem.fresh
      /\ mem'.turns = mem.turns /\ mem'.off = mem.off /\ mem'.losses = l
      /\ mem'.streak = mem.streak /\ mem'.brake = mem.brake /\ mem'.tripped = mem.tripped
    <2>1. mem' \in Counters
        BY <1>1, <1>2, <1>3, CountersEdits
    <2> QED
        BY <1>1, <1>2, <2>1 DEF Counters
<1>7. /\ EndsTurn(disk', disk, "session_lost", Current.id, mem.sid, mem', mem'.tripped)
      /\ child' = NoChild /\ child'.st = "none" /\ disk' \in Journals
    <2>1. Ends("session_lost", mem'.brake, mem'.tripped)
        BY <1>1, <1>6
    <2> QED
        BY <1>2, <1>6, <2>1, EndRecord
<1>8. work' \in Seq(Items) /\ work' # <<>> /\ RoutinesFiled(work', ctl)
    <2>1. Item("rehand", None, 0) \in Items /\ Item("rehand", None, 0).kind # "ctl"
        BY ItemType, SupervisorAssumption DEF Kinds
    <2> QED
        BY <1>1, <1>5, <2>1, WorkPush
<1>9. PICK pre \in FrontPlans : Then(pre) /\ pre # <<>> /\ Head(pre) \in {"rebind", "note"}
    BY <1>1 DEF FrontPlans
<1>10. /\ Planned' /\ todo' \in Seq(Steps) /\ cur' \in {0, cur}
       /\ todo' # <<>> /\ Head(todo') = Head(pre)
    <2>1. UNCHANGED <<phase, ctl>>
        BY <1>1
    <2> QED
        BY <1>1, <1>2, <1>7, <1>8, <1>9, <2>1, FinishPlan
<1>11. ~At("restored")' /\ ~At("persist")'
    BY <1>9, <1>10 DEF At
<1>12. TypeOK'
    <2>1. child' \in Children
        BY <1>7 DEF NoChild, Children
    <2> QED
        BY <1>1, <1>2, <1>6, <1>7, <1>8, <1>10, <2>1 DEF TypeOK
<1>13. \A i \in Ids : IF i = Current.id
                      THEN mem.losses[i] = 0 /\ mem'.losses[i] = 1
                      ELSE mem'.losses[i] = mem.losses[i]
    BY <1>3, <1>4, <1>6
<1>14. Agreed'
    <2> DEFINE class == "session_lost"
               id == Current.id
    <2>1. mem'.turns = IF class = "ok" THEN mem.turns + 1 ELSE mem.turns
        BY <1>6
    <2>2. \A i \in Ids : IF i = id /\ class = "session_lost"
                         THEN mem.losses[i] = 0 /\ mem'.losses[i] = 1
                         ELSE mem'.losses[i] = mem.losses[i]
        BY <1>13
    <2>3. EndsTurn(disk', disk, class, id, mem.sid, mem', mem'.tripped)
        BY <1>7
    <2>4. strikes' = mem'.brake /\ (mem'.brake >= Burst => mem'.tripped)
        BY <1>1, <1>2, <1>6
    <2> HIDE DEF class, id
    <2> QED
        BY <1>2, <1>6, <1>11, <2>1, <2>2, <2>3, <2>4, EndAgrees
<1> QED
    BY <1>10, <1>12, <1>14 DEF SInv

\* What a successful turn is followed by.
LEMMA SuccessPlan ==
    ASSUME SInv, Finishing
    PROVE  /\ Success(Current) \in {<<"done">>, <<"off">>, <<"drop">>, <<"bind">>, <<>>}
           /\ Success(Current) = <<"done">> => Current.kind = "msg"
<1>1. Current \in Items /\ Current = work[1] /\ RoutinesFiled(work, ctl)
      /\ work \in Seq(Items) /\ work # <<>>
    BY FinishContext
<1>2. 1 \in 1 .. Len(work)
    BY <1>1, EmptySeq
<1>3. Current.kind = "ctl" => ctl[Current.req].verb \in {"feierabend", "standup"}
    BY <1>1, <1>2 DEF RoutinesFiled
<1>4. Current.kind \in {"msg", "ctl", "rotate", "rehand"}
    BY <1>1 DEF Items, Kinds
<1>5. CASE Current.kind = "msg"
    BY <1>5 DEF Success
<1>6. CASE Current.kind = "rotate"
    BY <1>6 DEF Success
<1>7. CASE Current.kind = "rehand"
    BY <1>7 DEF Success
<1>8. CASE Current.kind = "ctl"
    <2>1. CASE ctl[Current.req].verb = "feierabend"
        BY <1>8, <2>1 DEF Success
    <2>2. CASE ctl[Current.req].verb = "standup"
        BY <1>8, <2>2 DEF Success
    <2> QED
        BY <1>3, <1>8, <2>1, <2>2
<1> QED
    BY <1>4, <1>5, <1>6, <1>7, <1>8

LEMMA FinishOkStep ==
    ASSUME SInv, FinishOk
    PROVE  SInv'
<1> DEFINE healed == mem.streak > 0 /\ child.arg = "resume"
           release == healed \/ mem.streak = 0
           brake == IF release THEN 0 ELSE mem.brake
           tripped == ~release /\ mem.tripped
           streak == IF healed THEN 0 ELSE mem.streak
           turns == mem.turns + 1
           pre == (IF healed THEN <<"restored">> ELSE <<>>) \o Success(Current)
<1>1. /\ Finishing /\ Ends("ok", brake, tripped) /\ Then(pre)
      /\ mem' = [mem EXCEPT !.brake = brake, !.tripped = tripped, !.turns = turns,
                            !.streak = streak]
      /\ work' = IF Current.kind \in {"rotate", "rehand"} THEN Tail(work) ELSE work
      /\ strikes' = IF release THEN 0 ELSE strikes
      /\ UNCHANGED <<phase, orphans, known, order, ctl, moved, inbox, faults,
                     used, acted, owed>>
    BY DEF FinishOk, outside
<1>2. /\ phase = "run" /\ Alive /\ ~At("restored") /\ ~At("persist")
      /\ TypeOK /\ Planned /\ Agreed /\ mem \in Counters /\ disk \in Journals
      /\ work \in Seq(Items) /\ work # <<>> /\ RoutinesFiled(work, ctl)
      /\ cur \in 0 .. MaxReqs /\ 0 \in 0 .. MaxReqs
      /\ strikes = mem.brake /\ (mem.brake >= Burst => mem.tripped)
    BY <1>1, FinishContext
<1>3. /\ Success(Current) \in {<<"done">>, <<"off">>, <<"drop">>, <<"bind">>, <<>>}
      /\ Success(Current) = <<"done">> => Current.kind = "msg"
    BY <1>1, SuccessPlan
<1>4. /\ brake \in Nat /\ tripped \in BOOLEAN /\ streak \in Nat /\ turns \in Nat
      /\ (brake >= Burst => tripped) /\ strikes' = brake
      /\ (healed => streak = 0) /\ (~healed => streak = mem.streak)
    <2>1. mem.brake \in Nat /\ mem.streak \in Nat /\ mem.tripped \in BOOLEAN /\ mem.turns \in Nat
        BY <1>2, CountersFields
    <2> QED
        BY <1>1, <1>2, <2>1, SupervisorAssumption
<1>5. /\ pre \in FrontPlans
      /\ (healed => pre # <<>> /\ Head(pre) = "restored")
      /\ (~healed => "restored" \notin In(pre))
      /\ In(pre) \cap {"fail", "persist", "note"} = {}
      /\ ("done" \in In(pre) => Current.kind = "msg")
    <2> DEFINE t == Success(Current)
    <2>1. t = <<"done">> \/ t = <<"off">> \/ t = <<"drop">> \/ t = <<"bind">> \/ t = <<>>
        BY <1>3
    <2>2. t = <<"done">> => Current.kind = "msg"
        BY <1>3
    <2>3. pre = (IF healed THEN <<"restored">> ELSE <<>>) \o t
        OBVIOUS
    <2> HIDE DEF t, pre, healed
    <2>4. CASE healed
        <3>1. pre \in {<<"restored", "done">>, <<"restored", "off">>, <<"restored", "drop">>,
                       <<"restored", "bind">>, <<"restored">>}
            <4>1. CASE t = <<>>
                <5>1. <<"restored">> \o <<>> = <<"restored">>
                    OBVIOUS
                <5> QED
                    BY <2>3, <2>4, <4>1, <5>1
            <4>2. CASE t # <<>>
                <5>1. /\ <<"restored">> \o <<"done">> = <<"restored", "done">>
                      /\ <<"restored">> \o <<"off">> = <<"restored", "off">>
                      /\ <<"restored">> \o <<"drop">> = <<"restored", "drop">>
                      /\ <<"restored">> \o <<"bind">> = <<"restored", "bind">>
                    BY ShortPlans DEF Steps
                <5> QED
                    BY <2>1, <2>3, <2>4, <4>2, <5>1
            <4> QED
                BY <4>1, <4>2
        <3>2. pre = <<"restored", "done">> => t = <<"done">>
            <4>1. /\ <<"restored">> \o <<"off">> = <<"restored", "off">>
                  /\ <<"restored">> \o <<"drop">> = <<"restored", "drop">>
                  /\ <<"restored">> \o <<"bind">> = <<"restored", "bind">>
                BY ShortPlans DEF Steps
            <4>3. <<"restored">> \o <<>> = <<"restored">>
                OBVIOUS
            <4>2. /\ <<"restored", "done">> # <<"restored", "off">>
                  /\ <<"restored", "done">> # <<"restored", "drop">>
                  /\ <<"restored", "done">> # <<"restored", "bind">>
                  /\ <<"restored", "done">> # <<"restored">>
                OBVIOUS
            <4> QED
                BY <2>1, <2>3, <2>4, <4>1, <4>2, <4>3
        <3>3. /\ In(<<"restored", "done">>) = {"restored", "done"}
              /\ In(<<"restored", "off">>) = {"restored", "off"}
              /\ In(<<"restored", "drop">>) = {"restored", "drop"}
              /\ In(<<"restored", "bind">>) = {"restored", "bind"}
              /\ In(<<"restored">>) = {"restored"}
            BY DEF In
        <3>4. pre \in FrontPlans
            BY <3>1 DEF FrontPlans
        <3>5. pre # <<>> /\ Head(pre) = "restored"
            BY <3>1
        <3>6. In(pre) \cap {"fail", "persist", "note"} = {}
            BY <3>1, <3>3
        <3>7. "done" \in In(pre) => pre = <<"restored", "done">>
            BY <3>1, <3>3
        <3> QED
            BY <2>2, <2>4, <3>2, <3>4, <3>5, <3>6, <3>7
    <2>5. CASE ~healed
        <3>1. <<>> \o <<"done">> = <<"done">> /\ <<>> \o <<"off">> = <<"off">>
              /\ <<>> \o <<"drop">> = <<"drop">> /\ <<>> \o <<"bind">> = <<"bind">>
              /\ <<>> \o <<>> = <<>>
            OBVIOUS
        <3>2. pre = t
            BY <2>1, <2>3, <2>5, <3>1
        <3>3. In(<<"done">>) = {"done"} /\ In(<<"off">>) = {"off"} /\ In(<<"drop">>) = {"drop"}
              /\ In(<<"bind">>) = {"bind"} /\ In(<<>>) = {}
            BY DEF In
        <3> QED
            BY <2>1, <2>2, <2>5, <3>2, <3>3 DEF FrontPlans
    <2> QED
        BY <2>4, <2>5
<1> HIDE DEF pre, tripped, brake, streak, turns, healed, release
<1>6. /\ mem' \in Counters /\ mem'.sid = mem.sid /\ mem'.fresh = mem.fresh
      /\ mem'.turns = turns /\ mem'.off = mem.off /\ mem'.losses = mem.losses
      /\ mem'.brake = brake /\ mem'.tripped = tripped /\ mem'.streak = streak
    <2> DEFINE mid == [mem EXCEPT !.brake = brake]
               mid2 == [mid EXCEPT !.tripped = tripped]
               mid3 == [mid2 EXCEPT !.turns = turns]
    <2>1. mid \in Counters
        BY <1>2, <1>4, CountersEdits
    <2>2. mem' = [mid3 EXCEPT !.streak = streak]
        BY <1>1, <1>2 DEF Counters
    <2>3. /\ mem'.sid = mem.sid /\ mem'.fresh = mem.fresh
          /\ mem'.turns = turns /\ mem'.off = mem.off /\ mem'.losses = mem.losses
          /\ mem'.brake = brake /\ mem'.tripped = tripped /\ mem'.streak = streak
        BY <1>1, <1>2 DEF Counters
    <2> HIDE DEF mid
    <2>4. mid2 \in Counters
        BY <1>4, <2>1, CountersEdits
    <2> HIDE DEF mid2
    <2>5. mid3 \in Counters
        BY <1>4, <2>4, CountersEdits
    <2> HIDE DEF mid3
    <2> QED
        BY <1>4, <2>2, <2>3, <2>5, CountersEdits
<1>7. /\ EndsTurn(disk', disk, "ok", Current.id, mem.sid, mem', mem'.tripped)
      /\ child' = NoChild /\ child'.st = "none" /\ disk' \in Journals
    <2>1. Ends("ok", mem'.brake, mem'.tripped)
        BY <1>1, <1>6
    <2> QED
        BY <1>2, <1>6, <2>1, EndRecord
<1>8. work' \in Seq(Items) /\ RoutinesFiled(work', ctl) /\ (Current.kind = "msg" => work' # <<>>)
    BY <1>1, <1>2, WorkPop
<1>9. /\ Planned' /\ todo' \in Seq(Steps) /\ cur' \in {0, cur}
      /\ (todo' # <<>> => Head(todo') \in Afters \cup In(pre))
      /\ (pre # <<>> => todo' # <<>> /\ Head(todo') = Head(pre))
    <2>1. UNCHANGED <<phase, ctl>>
        BY <1>1
    <2>2. In(pre) \cap {"done", "fail", "persist", "note"} # {} => work' # <<>>
        BY <1>5, <1>8
    <2> QED
        BY <1>1, <1>2, <1>5, <1>7, <1>8, <2>1, <2>2, FinishPlan
<1>10. /\ ~At("persist")' /\ (At("restored")' => mem'.streak = 0)
       /\ (~At("restored")' => mem'.streak = mem.streak)
    <2>1. CASE healed
        BY <1>4, <1>5, <1>6, <1>9, <2>1 DEF At
    <2>2. CASE ~healed
        BY <1>4, <1>5, <1>6, <1>9, <2>2 DEF At, Afters
    <2> QED
        BY <2>1, <2>2
<1>11. TypeOK'
    <2>1. child' \in Children
        BY <1>7 DEF NoChild, Children
    <2>2. strikes' \in Nat
        BY <1>4
    <2>3. cur' \in 0 .. MaxReqs
        BY <1>2, <1>9
    <2> QED
        BY <1>1, <1>2, <1>6, <1>7, <1>8, <1>9, <2>1, <2>2, <2>3 DEF TypeOK
<1>12. Agreed'
    <2> DEFINE class == "ok"
               id == Current.id
    <2>1. mem'.turns = IF class = "ok" THEN mem.turns + 1 ELSE mem.turns
        BY <1>6 DEF turns
    <2>2. \A i \in Ids : IF i = id /\ class = "session_lost"
                         THEN mem.losses[i] = 0 /\ mem'.losses[i] = 1
                         ELSE mem'.losses[i] = mem.losses[i]
        BY <1>6
    <2>3. EndsTurn(disk', disk, class, id, mem.sid, mem', mem'.tripped)
        BY <1>7
    <2>4. strikes' = mem'.brake /\ (mem'.brake >= Burst => mem'.tripped)
        BY <1>4, <1>6
    <2> HIDE DEF class, id
    <2> QED
        BY <1>2, <1>6, <1>10, <2>1, <2>2, <2>3, <2>4, EndAgrees
<1> QED
    BY <1>9, <1>11, <1>12 DEF SInv

\* A launcher of the model is a typed one.
LEMMA ChildStatus ==
    ASSUME child \in Children, NEW st \in {"none", "prepared", "running"} \cup Results
    PROVE  /\ [child EXCEPT !.st = st] \in Children
           /\ [child EXCEPT !.st = st].st = st
           /\ [child EXCEPT !.st = st].sid = child.sid
           /\ [child EXCEPT !.st = st].arg = child.arg
BY DEF Children

\* The launch is the last step of its plan.
LEMMA LaunchLast ==
    ASSUME SInv, At("launch")
    PROVE  /\ todo = <<"launch">> /\ phase = "run" /\ work # <<>> /\ RoutinesFiled(work, ctl)
           /\ child.st = "prepared" /\ child.sid \in Sids /\ Alive /\ Rest = <<>>
           /\ ~At("restored") /\ ~At("persist")
<1>1. todo # <<>> /\ Head(todo) = "launch" /\ todo \in Seq(Steps) /\ Alive
    BY AtStep
<1>2. "launch" \in In(todo)
    BY <1>1, HeadIn
<1>3. todo = <<"launch">>
    <2>1. todo \in LaunchPlans
        BY <1>2 DEF SInv, Planned, TodoOK
    <2> QED
        BY <1>1, <2>1 DEF LaunchPlans
<1>4. child.st = "prepared"
    BY DEF SInv, Planned, ChildOK
<1>5. phase = "run" /\ work # <<>> /\ child.sid \in Sids /\ RoutinesFiled(work, ctl)
    BY <1>4 DEF SInv, Planned, ChildOK, WorkOK
<1>6. Rest = <<>>
    BY <1>3, FixedPlans DEF Rest
<1> QED
    BY <1>1, <1>3, <1>4, <1>5, <1>6 DEF At

\* No step is left.
LEMMA IdlePlan ==
    ASSUME todo' = <<>>, RoutinesFiled(work, ctl)', child'.st # "prepared",
           child'.st # "none" => phase' = "run" /\ work' # <<>> /\ child'.sid \in Sids,
           phase' # "boot"
    PROVE  Planned'
<1>1. In(todo') = {} /\ Ordered(todo') /\ todo' # <<"start", "launch">>
    BY InEmpty, FixedPlans DEF Ordered
<1> QED
    BY <1>1 DEF Planned, TodoOK, WorkOK, ChildOK, StartOK, At, Process

LEMMA LaunchStep ==
    ASSUME SInv, Launch
    PROVE  SInv'
<1>1. /\ At("launch") /\ child' = [child EXCEPT !.st = "running"]
      /\ used' = (IF child.arg = "new" THEN used \cup {child.sid} ELSE used)
      /\ Then(<<>>)
      /\ UNCHANGED <<phase, mem, disk, work, orphans, known, order, ctl, moved, inbox,
                     faults, acted, owed, strikes>>
    BY DEF Launch, outside
<1>2. /\ todo = <<"launch">> /\ phase = "run" /\ work # <<>> /\ RoutinesFiled(work, ctl)
      /\ child.st = "prepared" /\ child.sid \in Sids /\ Alive /\ Rest = <<>>
      /\ ~At("restored") /\ ~At("persist")
    BY <1>1, LaunchLast
<1>3. TypeOK /\ Agreed /\ child \in Children
    BY DEF SInv, TypeOK
<1>4. child' \in Children /\ child'.st = "running" /\ child'.sid = child.sid
    BY <1>1, <1>3, ChildStatus
<1>5. todo' = <<>> /\ cur' = 0
    BY <1>1, <1>2 DEF Then
<1>6. Planned'
    BY <1>1, <1>2, <1>4, <1>5, IdlePlan
<1>7. TypeOK'
    <2>1. used' \subseteq Sids
        BY <1>1, <1>2, <1>3 DEF TypeOK
    <2>2. todo' \in Seq(Steps) /\ cur' \in 0 .. MaxReqs
        BY <1>5, SupervisorAssumption
    <2> QED
        BY <1>1, <1>3, <1>4, <2>1, <2>2 DEF TypeOK
<1>8. ~At("restored")' /\ ~At("persist")'
    BY <1>5 DEF At
<1>9. Agreed'
    BY <1>1, <1>2, <1>3, <1>8, SameAgreed DEF Alive
<1> QED
    BY <1>6, <1>7, <1>9 DEF SInv

\* One step, for the work at hand.
LEMMA OneStepPlan ==
    ASSUME NEW x \in {"finish", "engine"}, todo' = <<x>>, phase' = "run", work' # <<>>,
           RoutinesFiled(work, ctl)', child'.st # "prepared",
           Process' => x = "finish", child'.st # "none" => child'.sid \in Sids
    PROVE  Planned' /\ todo' \in Seq(Steps) /\ ~At("restored")' /\ ~At("persist")'
<1>1. In(todo') = {x} /\ Ordered(todo') /\ todo' # <<"start", "launch">> /\ todo' # <<>>
      /\ Head(todo') = x
    BY DEF Ordered, In
<1>2. todo' \in Seq(Steps)
    BY DEF Steps
<1>3. TodoOK'
    BY <1>1 DEF TodoOK, ControlSteps
<1>4. WorkOK'
    BY <1>1 DEF WorkOK
<1>5. ChildOK' /\ StartOK'
    BY <1>1 DEF ChildOK, StartOK, At
<1> QED
    BY <1>1, <1>2, <1>3, <1>4, <1>5 DEF Planned, At

LEMMA LaunchFailsStep ==
    ASSUME SInv, LaunchFails
    PROVE  SInv'
<1>1. /\ At("launch") /\ child' = [child EXCEPT !.st = "infra"] /\ Fault("launch")
      /\ Then(<<"finish">>)
      /\ UNCHANGED <<phase, mem, disk, work, orphans, known, order, ctl, moved, inbox,
                     used, acted, owed, strikes>>
    BY DEF LaunchFails, outside, history
<1>2. /\ todo = <<"launch">> /\ phase = "run" /\ work # <<>> /\ RoutinesFiled(work, ctl)
      /\ child.st = "prepared" /\ child.sid \in Sids /\ Alive /\ Rest = <<>>
      /\ ~At("restored") /\ ~At("persist")
    BY <1>1, LaunchLast
<1>3. TypeOK /\ Agreed /\ child \in Children /\ cur \in 0 .. MaxReqs
    BY DEF SInv, TypeOK
<1>4. child' \in Children /\ child'.st = "infra" /\ child'.sid = child.sid
    BY <1>1, <1>3, ChildStatus DEF Results
<1>5. todo' = <<"finish">> /\ cur' = cur
    BY <1>1, <1>2 DEF Then
<1>6. Planned' /\ todo' \in Seq(Steps) /\ ~At("restored")' /\ ~At("persist")'
    BY <1>1, <1>2, <1>4, <1>5, OneStepPlan
<1>7. TypeOK'
    <2>1. faults' \in 0 .. MaxFaults
        BY <1>1, <1>3, FaultType DEF TypeOK
    <2> QED
        BY <1>1, <1>3, <1>4, <1>5, <1>6, <2>1 DEF TypeOK
<1>8. Agreed'
    BY <1>1, <1>2, <1>3, <1>6, SameAgreed DEF Alive
<1> QED
    BY <1>6, <1>7, <1>8 DEF SInv

\* The process is gone; what it had written stays.
LEMMA GoneStep ==
    ASSUME SInv, NEW next \in {"down", "off"}, Gone(next), UNCHANGED <<disk, strikes, ctl>>
    PROVE  /\ Planned' /\ Agreed'
           /\ phase' \in Phases /\ mem' \in Counters /\ disk' \in Journals
           /\ work' \in Seq(Items) /\ todo' \in Seq(Steps) /\ cur' \in 0 .. MaxReqs
           /\ child' \in Children
<1>1. /\ phase' = next /\ mem' = Unset /\ work' = <<>> /\ todo' = <<>> /\ cur' = 0
      /\ child' = NoChild
    BY DEF Gone
<1>2. child' \in Children /\ child'.st = "none"
    BY <1>1 DEF NoChild, Children
<1>3. Planned'
    BY <1>1, <1>2, IdlePlan DEF RoutinesFiled
<1>4. Agreed'
    BY <1>1 DEF Agreed, Alive, SInv
<1>5. mem' \in Counters
    BY <1>1, ZeroCounts DEF Unset, Counters
<1> QED
    BY <1>1, <1>2, <1>3, <1>4, <1>5, SupervisorAssumption DEF SInv, TypeOK, Phases

LEMMA RestartStep ==
    ASSUME SInv, Restart
    PROVE  SInv'
<1>1. Gone("down") /\ UNCHANGED <<disk, strikes, ctl>>
    BY DEF Restart, outside, history
<1> QED
    BY <1>1, GoneStep DEF Restart, outside, history, SInv, TypeOK

LEMMA ShutDownStep ==
    ASSUME SInv, ShutDown
    PROVE  SInv'
<1>1. Gone("off") /\ UNCHANGED <<disk, strikes, ctl>>
    BY DEF ShutDown, outside
<1>2. acted' \subseteq 1 .. MaxReqs
    <2>1. cur \in 1 .. MaxReqs
        BY ActingFor DEF ShutDown, ControlSteps
    <2> QED
        BY <2>1 DEF ShutDown, SInv, TypeOK
<1> QED
    BY <1>1, <1>2, GoneStep DEF ShutDown, outside, SInv, TypeOK

LEMMA ReexecStep ==
    ASSUME SInv, Reexec
    PROVE  SInv'
<1>1. Gone("down") /\ UNCHANGED <<disk, strikes, ctl>>
    BY DEF Reexec, outside, history
<1>2. faults' \in 0 .. MaxFaults
    BY FaultType DEF Reexec, SInv, TypeOK
<1> QED
    BY <1>1, <1>2, GoneStep DEF Reexec, outside, history, SInv, TypeOK

\* A stranded turn is one of a session.
LEMMA StrandType ==
    ASSUME SInv, Strand
    PROVE  orphans' \subseteq Sids
BY DEF SInv, TypeOK, Planned, ChildOK, Strand

LEMMA CrashStep ==
    ASSUME SInv, Crash
    PROVE  SInv'
<1>1. Gone("down") /\ UNCHANGED <<disk, strikes, ctl>>
    BY DEF Crash, history
<1>2. faults' \in 0 .. MaxFaults /\ orphans' \subseteq Sids
    BY FaultType, StrandType DEF Crash, SInv, TypeOK
<1> QED
    BY <1>1, <1>2, GoneStep DEF Crash, history, SInv, TypeOK

LEMMA TerminateStep ==
    ASSUME SInv, Terminate
    PROVE  SInv'
<1>1. Gone("off") /\ UNCHANGED <<disk, strikes, ctl>>
    BY DEF Terminate, history
<1>2. faults' \in 0 .. MaxFaults /\ orphans' \subseteq Sids
    BY FaultType, StrandType DEF Terminate, SInv, TypeOK
<1> QED
    BY <1>1, <1>2, GoneStep DEF Terminate, history, SInv, TypeOK

LEMMA RaisesStep ==
    ASSUME SInv, Raises
    PROVE  SInv'
<1>1. /\ At("note") \/ At("launch") \/ Finishing
      /\ IF cur # 0 \/ phase = "boot"
         THEN Gone("down")
         ELSE /\ todo' = <<"engine">> /\ child' = NoChild
              /\ UNCHANGED <<phase, mem, work, cur>>
      /\ UNCHANGED <<disk, orphans, known, order, ctl, moved, inbox, used, acted, owed, strikes>>
    BY DEF Raises, outside, history
<1>2. faults' \in 0 .. MaxFaults
    BY FaultType DEF Raises, SInv, TypeOK
<1>3. CASE cur # 0 \/ phase = "boot"
    <2>1. Gone("down") /\ UNCHANGED <<disk, strikes, ctl>>
        BY <1>1, <1>3
    <2> QED
        BY <1>1, <1>2, <2>1, GoneStep DEF SInv, TypeOK
<1>4. CASE ~(cur # 0 \/ phase = "boot")
    <2>1. /\ todo' = <<"engine">> /\ child' = NoChild /\ UNCHANGED <<phase, mem, work, cur>>
        BY <1>1, <1>4
    <2>2. /\ phase = "run" /\ work # <<>> /\ RoutinesFiled(work, ctl)
          /\ ~At("restored") /\ ~At("persist")
        <3>1. CASE At("note")
            <4>1. todo # <<>> /\ Head(todo) = "note" /\ todo \in Seq(Steps) /\ phase = "run"
                BY <1>4, <3>1, AtStep
            <4>2. "note" \in In(todo)
                BY <4>1, HeadIn
            <4> QED
                BY <1>4, <4>1, <4>2 DEF SInv, Planned, WorkOK, At
        <3>2. CASE At("launch")
            BY <3>2, LaunchLast
        <3>3. CASE Finishing
            BY <3>3, FinishContext
        <3> QED
            BY <1>1, <3>1, <3>2, <3>3
    <2>3. child' \in Children /\ child'.st = "none"
        BY <2>1 DEF NoChild, Children
    <2>4. ~Process'
        BY <2>3 DEF Process
    <2>5. Planned' /\ todo' \in Seq(Steps) /\ ~At("restored")' /\ ~At("persist")'
        BY <1>1, <2>1, <2>2, <2>3, <2>4, OneStepPlan
    <2>6. TypeOK'
        BY <1>1, <1>2, <2>1, <2>3, <2>5 DEF SInv, TypeOK
    <2>7. Agreed'
        BY <1>1, <2>1, <2>2, <2>5, SameAgreed DEF SInv, Alive
    <2> QED
        BY <2>5, <2>6, <2>7 DEF SInv
<1> QED
    BY <1>3, <1>4

\* What is left after an engine error is for the same work, and nothing else.
LEMMA engineErrorStep ==
    ASSUME SInv, _message_engine_error
    PROVE  SInv'
<1> DEFINE spent == ErrsOf(Current) + 1 >= EngineErrors
           pre == CASE spent /\ Current.id \in Ids -> <<"fail">>
                    [] spent /\ Current.id \notin Ids -> <<"drop">>
                    [] OTHER -> <<>>
<1>1. /\ At("engine") /\ disk' = EngineError(disk, Current.id)
      /\ work' = IF Current.id \in Ids THEN work ELSE [work EXCEPT ![1].errs = @ + 1]
      /\ Then(pre)
      /\ UNCHANGED <<phase, mem, child, orphans, known, order, ctl, moved, inbox, faults,
                     used, acted, owed, strikes>>
    BY DEF _message_engine_error, outside, history
<1>2. pre \in {<<>>, <<"fail">>, <<"drop">>}
    OBVIOUS
<1> HIDE DEF pre
<1>3. /\ todo # <<>> /\ Head(todo) = "engine" /\ Alive /\ phase \in {"boot", "run"}
      /\ child.st = "none" /\ mem \in Counters /\ disk \in Journals
      /\ work \in Seq(Items) /\ todo \in Seq(Steps)
    BY <1>1, AtStep
<1>4. TypeOK /\ Planned /\ Agreed
    BY DEF SInv
<1>5. work # <<>> /\ RoutinesFiled(work, ctl) /\ phase = "run"
    BY <1>3, <1>4, HeadIn DEF Planned, TodoOK, WorkOK, WorkSteps
<1>6. Rest = <<>>
    <2>1. /\ Tail(todo) \in Seq(Steps)
          /\ \A y \in In(Tail(todo)) : MayPrecede("engine", y)
        BY <1>3, <1>4, TailOrdered DEF Planned, TodoOK
    <2>2. In(Tail(todo)) = {}
        BY <2>1 DEF MayPrecede
    <2> QED
        BY <1>3, <2>1, <2>2, InEmpty DEF Rest
<1>7. todo' = pre /\ cur' \in {0, cur}
    <2>1. \A s : s \in {<<>>, <<"fail">>, <<"drop">>} => s \o <<>> = s
        OBVIOUS
    <2> QED
        BY <1>1, <1>2, <1>6, <2>1 DEF Then
<1>8. work' \in Seq(Items) /\ work' # <<>> /\ RoutinesFiled(work', ctl)
    <2>1. CASE Current.id \in Ids
        BY <1>1, <1>3, <1>5, <2>1
    <2>2. CASE Current.id \notin Ids
        <3>1. Current \in Items /\ Current = work[1]
            BY <1>3, <1>5, HeadTailProperties DEF Current
        <3> DEFINE it == [Current EXCEPT !.errs = Current.errs + 1]
        <3>2. it \in Items /\ it.kind = Current.kind /\ it.req = Current.req
            BY <3>1 DEF Items
        <3>3. work' = [work EXCEPT ![1] = it]
            BY <1>1, <2>2, <3>1
        <3> HIDE DEF it
        <3> QED
            BY <1>3, <1>5, <3>1, <3>2, <3>3, WorkCount
    <2> QED
        BY <2>1, <2>2
<1>9. disk' \in Journals /\ disk'.c = disk.c
    BY <1>1, <1>3, EngineErrorType
<1>10. In(todo') \subseteq {"fail", "drop"} /\ Ordered(todo') /\ todo' \in Seq(Steps)
       /\ todo' # <<"start", "launch">> /\ (todo' # <<>> => Head(todo') \in {"fail", "drop"})
    <2>1. CASE todo' = <<>>
        BY <2>1 DEF In, Ordered
    <2>2. CASE todo' = <<"fail">>
        BY <2>2 DEF In, Ordered, Steps
    <2>3. CASE todo' = <<"drop">>
        BY <2>3 DEF In, Ordered, Steps
    <2> QED
        BY <1>2, <1>7, <2>1, <2>2, <2>3
<1>11. Planned'
    <2>1. TodoOK'
        BY <1>1, <1>5, <1>10 DEF TodoOK, ControlSteps
    <2>2. WorkOK'
        BY <1>1, <1>8, <1>10 DEF WorkOK
    <2>3. ChildOK' /\ StartOK'
        BY <1>1, <1>3, <1>10 DEF ChildOK, StartOK, At, Process
    <2> QED
        BY <2>1, <2>2, <2>3 DEF Planned
<1>12. TypeOK'
    <2>1. cur' \in 0 .. MaxReqs
        BY <1>4, <1>7, SupervisorAssumption DEF TypeOK
    <2> QED
        BY <1>1, <1>4, <1>8, <1>9, <1>10, <2>1 DEF TypeOK
<1>13. Agreed'
    BY <1>1, <1>3, <1>4, <1>9, <1>10 DEF Agreed, Alive, At
<1> QED
    BY <1>11, <1>12, <1>13 DEF SInv

\* A request that may be accepted or rejected is on file.
LEMMA PendingType ==
    ASSUME NEW r, Pending(r), ctl \in Seq(Requests)
    PROVE  r \in DOMAIN ctl /\ r # 0 /\ ctl[r] \in Requests
BY LenProperties DEF Pending

LEMMA reject_controlStep ==
    ASSUME SInv, NEW r \in 1 .. MaxReqs, reject_control(r)
    PROVE  SInv'
<1>1. /\ disk' = Consumed(disk, r)
      /\ UNCHANGED <<phase, mem, work, todo, cur, child, orphans, known, order, ctl, moved,
                     inbox, faults, used, acted, owed, strikes>>
    BY DEF reject_control, outside, history
<1>2. disk \in Journals /\ TypeOK /\ Planned /\ Agreed
    BY DEF SInv, TypeOK
<1>3. disk' \in Journals /\ disk'.c = disk.c
    BY <1>1, <1>2, ConsumedType
<1>4. TypeOK'
    BY <1>1, <1>2, <1>3 DEF TypeOK
<1>5. Planned'
    BY <1>1, <1>2 DEF Planned, TodoOK, WorkOK, ChildOK, StartOK, At, Process
<1>6. Agreed'
    BY <1>1, <1>2, <1>3 DEF Agreed, Alive, At
<1> QED
    BY <1>4, <1>5, <1>6 DEF SInv

\* What a request leads to.
LEMMA EffectPlan ==
    ASSUME NEW v \in Requests
    PROVE  LET e == Effect(v) IN
           /\ e \in Seq(Steps) /\ Ordered(e) /\ e # <<>>
           /\ Head(e) \in {"clear", "routine", "duty", "stop"}
           /\ \/ In(e) \subseteq Afters
              \/ v.verb \in {"feierabend", "standup"} /\ In(e) \subseteq {"duty", "routine"}
           /\ In(e) \cap ControlSteps # {}
           /\ v.verb = "reset-brake" => e = <<"clear">>
<1> DEFINE e == Effect(v)
           Fits == /\ e \in Seq(Steps) /\ Ordered(e) /\ e # <<>>
                   /\ Head(e) \in {"clear", "routine", "duty", "stop"}
                   /\ \/ In(e) \subseteq Afters
                      \/ v.verb \in {"feierabend", "standup"} /\ In(e) \subseteq {"duty", "routine"}
                   /\ In(e) \cap ControlSteps # {}
                   /\ v.verb = "reset-brake" => e = <<"clear">>
<1> SUFFICES Fits
    OBVIOUS
<1>1. v.verb \in {"reset-brake", "neustart", "feierabend", "standup", "abschalten"}
    BY DEF Requests
<1>2. ASSUME NEW a \in Steps
      PROVE  <<a>> \in Seq(Steps) /\ Ordered(<<a>>) /\ In(<<a>>) = {a} /\ <<a>> # <<>>
             /\ Head(<<a>>) = a
    BY DEF Ordered, In
<1>3. CASE v.verb = "reset-brake"
    <2>1. e = <<"clear">>
        BY <1>3 DEF Effect
    <2> HIDE DEF e
    <2>2. "clear" \in Steps
        BY DEF Steps
    <2> QED
        BY <1>2, <1>3, <2>1, <2>2 DEF Afters, ControlSteps
<1>4. CASE v.verb = "feierabend"
    <2>1. e = <<"routine">>
        BY <1>4 DEF Effect
    <2> HIDE DEF e
    <2>2. "routine" \in Steps
        BY DEF Steps
    <2> QED
        BY <1>2, <1>4, <2>1, <2>2 DEF ControlSteps
<1>5. CASE v.verb = "abschalten"
    <2>1. e = <<"stop">>
        BY <1>5 DEF Effect
    <2> HIDE DEF e
    <2>2. "stop" \in Steps
        BY DEF Steps
    <2> QED
        BY <1>2, <1>5, <2>1, <2>2 DEF Afters, ControlSteps
<1>6. CASE v.verb = "standup"
    <2>1. e = <<"duty", "routine">>
        BY <1>6 DEF Effect
    <2> HIDE DEF e
    <2>2. /\ e \in Seq(Steps) /\ Ordered(e) /\ e # <<>> /\ Head(e) = "duty"
          /\ In(e) = {"duty", "routine"}
        BY <2>1 DEF Steps, Ordered, MayPrecede, In
    <2> QED
        BY <1>6, <2>2 DEF ControlSteps
<1>7. CASE v.verb = "neustart"
    <2> DEFINE m == IF v.fresh THEN <<"note", "fresh">> ELSE <<>>
    <2>1. e = <<"clear">> \o m \o <<"restart">>
        BY <1>7 DEF Effect
    <2>2. /\ m \in Seq(Steps) /\ Ordered(m) /\ In(m) \subseteq {"note", "fresh"}
        <3>1. /\ <<"note", "fresh">> \in Seq(Steps) /\ Ordered(<<"note", "fresh">>)
              /\ In(<<"note", "fresh">>) = {"note", "fresh"}
            BY DEF Steps, Ordered, MayPrecede, In, Afters
        <3>2. <<>> \in Seq(Steps) /\ Ordered(<<>>) /\ In(<<>>) = {}
            BY DEF Ordered, In
        <3> QED
            BY <3>1, <3>2
    <2>3. "clear" \in Steps /\ "restart" \in Steps
        BY DEF Steps
    <2> DEFINE c == <<"clear">>
               r == <<"restart">>
    <2>4. c \in Seq(Steps) /\ Ordered(c) /\ In(c) = {"clear"} /\ c # <<>> /\ Head(c) = "clear"
        BY <1>2, <2>3
    <2>5. r \in Seq(Steps) /\ Ordered(r) /\ In(r) = {"restart"}
        BY <1>2, <2>3
    <2>6. \A x \in {"clear", "note", "fresh"}, y \in Afters : MayPrecede(x, y)
        BY DEF MayPrecede
    <2> DEFINE cm == c \o m
    <2>7. e = cm \o r
        BY <2>1
    <2> HIDE DEF m, c, r, e
    <2>8. /\ cm \in Seq(Steps) /\ Ordered(cm) /\ In(cm) = In(c) \cup In(m)
          /\ cm # <<>> /\ Head(cm) = Head(c)
        BY <2>2, <2>4, <2>6, Joined DEF Afters
    <2> HIDE DEF cm
    <2>9. /\ e \in Seq(Steps) /\ Ordered(e) /\ In(e) = In(cm) \cup In(r)
          /\ e # <<>> /\ Head(e) = Head(cm)
        BY <2>2, <2>4, <2>5, <2>6, <2>7, <2>8, Joined DEF Afters
    <2> QED
        BY <1>7, <2>2, <2>4, <2>5, <2>8, <2>9 DEF Afters, ControlSteps
<1> QED
    BY <1>1, <1>3, <1>4, <1>5, <1>6, <1>7

LEMMA accept_controlStep ==
    ASSUME SInv, NEW r \in 1 .. MaxReqs, accept_control(r)
    PROVE  SInv'
<1> DEFINE e == Effect(ctl[r])
<1>1. /\ phase = "run" /\ todo = <<>> /\ Pending(r) /\ ~Busy(ctl[r])
      /\ disk' = Consumed(disk, r) /\ cur' = r
      /\ todo' = (IF Process /\ ctl[r].force THEN <<"cancel">> ELSE <<>>) \o e
      /\ UNCHANGED <<phase, mem, work, child, orphans, known, order, ctl, moved,
                     inbox, faults, used, acted, owed, strikes>>
    BY DEF accept_control, outside, history
<1>2. disk \in Journals /\ TypeOK /\ Planned /\ Agreed /\ ctl \in Seq(Requests)
    BY DEF SInv, TypeOK
<1>3. disk' \in Journals /\ disk'.c = disk.c
    BY <1>1, <1>2, ConsumedType
<1>4. r \in DOMAIN ctl /\ r # 0 /\ ctl[r] \in Requests
    BY <1>1, <1>2, PendingType
<1>5. /\ e \in Seq(Steps) /\ Ordered(e) /\ e # <<>>
      /\ Head(e) \in {"clear", "routine", "duty", "stop"}
      /\ \/ In(e) \subseteq Afters
         \/ ctl[r].verb \in {"feierabend", "standup"} /\ In(e) \subseteq {"duty", "routine"}
      /\ ctl[r].verb = "reset-brake" => e = <<"clear">>
    BY <1>4, EffectPlan
<1> HIDE DEF e
<1>6. child.st # "prepared"
    BY <1>1, <1>2 DEF Planned, ChildOK, At
<1>7. /\ todo' \in Seq(Steps) /\ Ordered(todo') /\ todo' # <<>>
      /\ Head(todo') \in {"cancel", "clear", "routine", "duty", "stop"}
      /\ In(todo') \subseteq {"cancel"} \cup In(e)
      /\ Process => Head(todo') = "cancel" \/ todo' = <<"clear">>
    <2>1. CASE Process /\ ctl[r].force
        <3>1. todo' = <<"cancel">> \o e
            BY <1>1, <2>1
        <3>2. ctl[r].verb \notin {"feierabend", "standup"}
            BY <1>1, <2>1 DEF Busy
        <3>3. \A y \in In(e) : MayPrecede("cancel", y)
            BY <1>5, <3>2 DEF MayPrecede
        <3>4. "cancel" \in Steps
            BY DEF Steps
        <3> QED
            BY <1>5, <3>1, <3>3, <3>4, Prepend
    <2>2. CASE ~(Process /\ ctl[r].force)
        <3>1. todo' = e
            BY <1>1, <1>5, <2>2, ConcatEmptySeq
        <3>2. Process => ctl[r].verb = "reset-brake"
            BY <1>1, <1>4, <2>2 DEF Busy, Requests
        <3> QED
            BY <1>5, <3>1, <3>2
    <2> QED
        BY <2>1, <2>2
<1>8. In(todo') \subseteq {"cancel", "duty", "routine"} \cup Afters
      /\ ("routine" \in In(todo') => ctl[r].verb \in {"feierabend", "standup"})
    BY <1>5, <1>7 DEF Afters
<1>9. todo' # <<"start", "launch">>
    BY <1>7
<1>10. Planned'
    <2>1. TodoOK'
        BY <1>1, <1>4, <1>7, <1>8 DEF TodoOK, Afters
    <2>2. WorkOK'
        BY <1>1, <1>2, <1>4, <1>8 DEF WorkOK, WorkSteps, Afters, Planned
    <2>3. ChildOK'
        BY <1>1, <1>2, <1>6, <1>7 DEF ChildOK, Planned, At, Process
    <2>4. StartOK'
        BY <1>8, <1>9 DEF StartOK, Afters
    <2> QED
        BY <2>1, <2>2, <2>3, <2>4 DEF Planned
<1>11. TypeOK'
    <2>1. cur' \in 0 .. MaxReqs
        BY <1>1, SupervisorAssumption
    <2> QED
        BY <1>1, <1>2, <1>3, <1>7, <2>1 DEF TypeOK
<1>12. Agreed'
    BY <1>1, <1>2, <1>3, <1>7 DEF Agreed, Alive, At
<1> QED
    BY <1>10, <1>11, <1>12 DEF SInv

LEMMA CancelCollectsStep ==
    ASSUME SInv, CancelCollects
    PROVE  SInv'
<1>1. /\ At("cancel") /\ Exited /\ Then(<<"finish">>)
      /\ UNCHANGED <<phase, mem, disk, work, child, orphans, known, order, ctl, moved,
                     inbox, faults, used, acted, owed, strikes>>
    BY DEF CancelCollects, outside, history
<1>2. TypeOK /\ Planned /\ Agreed
    BY DEF SInv
<1>3. /\ todo # <<>> /\ Head(todo) = "cancel" /\ todo \in Seq(Steps)
      /\ phase \in {"boot", "run"} /\ Alive
    BY <1>1, AtStep
<1>4. /\ Tail(todo) \in Seq(Steps) /\ Ordered(Tail(todo)) /\ In(Tail(todo)) \subseteq In(todo)
      /\ \A y \in In(Tail(todo)) : MayPrecede("cancel", y)
    BY <1>2, <1>3, TailOrdered DEF Planned, TodoOK
<1>5. In(Tail(todo)) \subseteq Afters
    BY <1>4 DEF MayPrecede
<1>6. \A y \in In(Tail(todo)) : MayPrecede("finish", y)
    BY <1>5 DEF MayPrecede
<1>7. /\ todo' = <<"finish">> \o Tail(todo) /\ todo' \in Seq(Steps) /\ todo' # <<>>
      /\ Head(todo') = "finish" /\ Ordered(todo') /\ In(todo') = {"finish"} \cup In(Tail(todo))
      /\ cur' = cur
    <2>1. "finish" \in Steps
        BY DEF Steps
    <2>2. todo' = <<"finish">> \o Tail(todo) /\ cur' = IF todo' = <<>> THEN 0 ELSE cur
        BY <1>1, <1>3 DEF Then, Rest
    <2> QED
        BY <1>4, <1>6, <2>1, <2>2, Prepend
<1>8. child.st \notin {"none", "prepared"} /\ phase = "run" /\ work # <<>> /\ cur # 0
    <2>1. child.st \notin {"none", "prepared"}
        BY <1>1 DEF Exited, Results
    <2>2. cur # 0
        BY <1>1, ActingFor DEF ControlSteps
    <2> QED
        BY <1>2, <2>1, <2>2 DEF Planned, ChildOK
<1>9. todo' # <<"start", "launch">>
    <2>1. "start" \notin In(todo')
        BY <1>5, <1>7 DEF Afters
    <2> QED
        BY <2>1, FixedPlans
<1>10. Planned'
    <2>1. TodoOK'
        BY <1>1, <1>2, <1>4, <1>5, <1>7, <1>8 DEF TodoOK, Planned, Afters
    <2>2. WorkOK'
        BY <1>1, <1>2, <1>7, <1>8 DEF WorkOK, Planned
    <2>3. ChildOK'
        BY <1>1, <1>2, <1>7, <1>8 DEF ChildOK, Planned, At, Process
    <2>4. StartOK'
        BY <1>5, <1>7, <1>9 DEF StartOK, Afters
    <2> QED
        BY <2>1, <2>2, <2>3, <2>4 DEF Planned
<1>11. TypeOK'
    BY <1>1, <1>2, <1>7 DEF TypeOK
<1>12. Agreed'
    BY <1>1, <1>2, <1>3, <1>7 DEF Agreed, Alive, At
<1> QED
    BY <1>10, <1>11, <1>12 DEF SInv

LEMMA CancelKillsStep ==
    ASSUME SInv, CancelKills
    PROVE  SInv'
<1>1. /\ At("cancel") /\ child.st = "running" /\ Then(<<>>)
      /\ UNCHANGED <<phase, mem, work, known, inbox, order, ctl, moved, used, acted, owed, strikes>>
    BY DEF CancelKills, history
<1>2. PICK class \in {"cancelled", "provider_failure"} : Ends(class, mem.brake, mem.tripped)
    BY DEF CancelKills
<1>3. TypeOK /\ Planned /\ Agreed /\ mem \in Counters /\ disk \in Journals
    BY DEF SInv, TypeOK
<1>4. /\ EndsTurn(disk', disk, class, Current.id, mem.sid, mem, mem.tripped)
      /\ child' = NoChild /\ child'.st = "none" /\ disk' \in Journals
    BY <1>2, <1>3, EndRecord
<1>5. todo # <<>> /\ Head(todo) = "cancel" /\ Alive /\ ~At("restored") /\ ~At("persist")
    BY <1>1, AtStep DEF At
<1>6. /\ Planned' /\ todo' \in Seq(Steps) /\ cur' \in 0 .. MaxReqs
      /\ ~At("restored")' /\ ~At("persist")'
    <2>1. todo \notin LaunchPlans
        BY <1>5, NotLaunch
    <2> QED
        BY <1>1, <1>3, <1>4, <1>5, <2>1, PlanStep
<1>7. orphans' \subseteq Sids
    <2>1. orphans \subseteq Sids /\ child.sid \in Sids
        BY <1>1, <1>3 DEF TypeOK, Planned, ChildOK
    <2> QED
        BY <2>1 DEF CancelKills
<1>8. faults' \in 0 .. MaxFaults
    BY <1>3, FaultType DEF CancelKills, TypeOK
<1>9. TypeOK'
    <2>1. child' \in Children
        BY <1>4 DEF NoChild, Children
    <2> QED
        BY <1>1, <1>3, <1>4, <1>6, <1>7, <1>8, <2>1 DEF TypeOK
<1>10. strikes' = mem'.brake /\ (mem'.brake >= Burst => mem'.tripped)
    BY <1>1, <1>3, <1>5 DEF Agreed
<1>11. Agreed'
    BY <1>1, <1>3, <1>4, <1>5, <1>6, <1>10, EndAgrees
<1> QED
    BY <1>6, <1>9, <1>11 DEF SInv

LEMMA clear_brakeStep ==
    ASSUME SInv, clear_brake
    PROVE  SInv'
<1>1. /\ At("clear") /\ mem' = BrakeReset(mem) /\ strikes' = 0 /\ acted' = acted \cup {cur}
      /\ (disk' = [disk EXCEPT !.c = BrakeReset(@)] \/ (mem = BrakeReset(mem) /\ disk' = disk))
      /\ Then(<<>>)
      /\ UNCHANGED <<phase, work, child, orphans, known, order, ctl, moved, inbox,
                     faults, used, owed>>
    BY DEF clear_brake, outside
<1>2. /\ TypeOK /\ Planned /\ Agreed /\ mem \in Counters /\ disk \in Journals
      /\ disk.c \in Counters
    BY JournalFields DEF SInv, TypeOK
<1>3. /\ todo # <<>> /\ Head(todo) = "clear" /\ todo \in Seq(Steps) /\ Alive
      /\ ~At("restored") /\ ~At("persist")
    BY <1>1, AtStep DEF At
<1>4. child.st # "prepared"
    BY <1>2, <1>3 DEF Planned, ChildOK, At
<1>5. /\ Planned' /\ todo' \in Seq(Steps) /\ cur' \in 0 .. MaxReqs
      /\ ~At("restored")' /\ ~At("persist")'
    <2>1. CASE child.st = "none"
        <3>1. child'.st = "none" /\ UNCHANGED <<phase, ctl>>
            BY <1>1, <2>1
        <3> QED
            BY <1>1, <1>2, <1>3, <3>1, PlanStep, NotLaunch
    <2>2. CASE child.st # "none"
        <3>1. Process
            BY <1>4, <2>2 DEF Process
        <3>2. todo = <<"clear">>
            BY <1>2, <1>3, <3>1 DEF Planned, ChildOK, At
        <3>3. todo' = <<>> /\ cur' = 0
            BY <1>1, <1>2, <1>3, <3>2, StepDone, FixedPlans DEF Planned
        <3>4. Planned'
            <4>1. /\ phase = "run" /\ work # <<>> /\ child.sid \in Sids
                  /\ RoutinesFiled(work, ctl)
                BY <1>2, <2>2 DEF Planned, ChildOK, WorkOK
            <4> QED
                BY <1>1, <1>4, <3>3, <4>1, IdlePlan
        <3> QED
            BY <3>3, <3>4, SupervisorAssumption DEF At
    <2> QED
        BY <2>1, <2>2
<1>6. /\ mem' \in Counters
      /\ mem'.sid = mem.sid /\ mem'.fresh = mem.fresh /\ mem'.turns = mem.turns
      /\ mem'.off = mem.off /\ mem'.brake = 0 /\ mem'.tripped = FALSE
      /\ mem'.losses = Zero /\ mem'.streak = 0
    BY <1>1, <1>2, BrakeResetType
<1>7. /\ disk' \in Journals
      /\ disk'.c.sid = disk.c.sid /\ disk'.c.fresh = disk.c.fresh /\ disk'.c.turns = disk.c.turns
      /\ disk'.c.off = disk.c.off /\ disk'.c.brake = 0 /\ disk'.c.streak = 0
      /\ \A i \in Ids : disk'.c.losses[i] <= mem'.losses[i]
    <2>1. CASE disk' = [disk EXCEPT !.c = BrakeReset(@)]
        <3> DEFINE d == BrakeReset(disk.c)
        <3>1. /\ d \in Counters /\ d.sid = disk.c.sid /\ d.fresh = disk.c.fresh
              /\ d.turns = disk.c.turns /\ d.off = disk.c.off /\ d.brake = 0
              /\ d.losses = Zero /\ d.streak = 0
            BY <1>2, BrakeResetType
        <3>2. disk' = [disk EXCEPT !.c = d]
            BY <2>1
        <3> HIDE DEF d
        <3>3. disk' \in Journals /\ disk'.c = d
            BY <1>2, <3>1, <3>2, CounterRecord
        <3> QED
            BY <1>6, <3>1, <3>3, ZeroCounts
    <2>2. CASE mem = BrakeReset(mem) /\ disk' = disk
        <3>1. mem' = mem
            BY <1>1, <2>2
        <3> QED
            BY <1>2, <1>3, <1>6, <2>2, <3>1 DEF Agreed
    <2> QED
        BY <1>1, <2>1, <2>2
<1>8. TypeOK'
    <2>1. cur \in 1 .. MaxReqs
        BY <1>1, ActingFor DEF ControlSteps
    <2> QED
        BY <1>1, <1>2, <1>5, <1>6, <1>7, <2>1 DEF TypeOK
<1>9. ~(mem'.brake >= Burst)
    BY <1>6, SupervisorAssumption
<1>10. /\ mem.sid = disk.c.sid /\ mem.fresh = disk.c.fresh /\ mem.turns = disk.c.turns
       /\ mem.off = disk.c.off
    BY <1>2, <1>3 DEF Agreed
<1>11. Agreed'
    BY <1>1, <1>5, <1>6, <1>7, <1>9, <1>10 DEF Agreed
<1> QED
    BY <1>5, <1>8, <1>11 DEF SInv

LEMMA RotateFreshStep ==
    ASSUME SInv, RotateFresh
    PROVE  SInv'
<1>1. /\ At("fresh") /\ mem' = NoSession(mem) /\ disk' = [disk EXCEPT !.c = NoSession(disk.c)]
      /\ owed' = TRUE /\ Then(<<>>)
      /\ UNCHANGED <<phase, work, child, orphans, known, order, ctl, moved, inbox,
                     faults, used, acted, strikes>>
    BY DEF RotateFresh, RotatedFresh, outside
<1>2. /\ Planned' /\ todo' \in Seq(Steps) /\ cur' \in 0 .. MaxReqs
      /\ ~At("restored")' /\ ~At("persist")' /\ ~At("restored") /\ ~At("persist") /\ Alive
    BY <1>1, QuietStep
<1>3. disk \in Journals /\ mem \in Counters /\ disk.c \in Counters /\ TypeOK /\ Agreed
    BY JournalFields DEF SInv, TypeOK
<1>4. /\ mem' \in Counters /\ mem'.sid = None /\ mem'.fresh = FALSE /\ mem'.turns = 0
      /\ mem'.brake = mem.brake /\ mem'.tripped = mem.tripped /\ mem'.losses = mem.losses
      /\ mem'.streak = mem.streak /\ mem'.off = mem.off
    BY <1>1, <1>3, NoSessionType
<1>5. /\ disk' \in Journals /\ disk'.c.sid = None /\ disk'.c.fresh = FALSE /\ disk'.c.turns = 0
      /\ disk'.c.brake = disk.c.brake /\ disk'.c.tripped = disk.c.tripped
      /\ disk'.c.losses = disk.c.losses /\ disk'.c.streak = disk.c.streak
      /\ disk'.c.off = disk.c.off
    <2> DEFINE d == NoSession(disk.c)
    <2>1. /\ d \in Counters /\ d.sid = None /\ d.fresh = FALSE /\ d.turns = 0
          /\ d.brake = disk.c.brake /\ d.tripped = disk.c.tripped
          /\ d.losses = disk.c.losses /\ d.streak = disk.c.streak /\ d.off = disk.c.off
        BY <1>3, NoSessionType
    <2>2. disk' = [disk EXCEPT !.c = d]
        BY <1>1
    <2> HIDE DEF d
    <2>3. disk' \in Journals /\ disk'.c = d
        BY <1>3, <2>1, <2>2, CounterRecord
    <2> QED
        BY <2>1, <2>3
<1>6. TypeOK'
    BY <1>1, <1>2, <1>3, <1>4, <1>5 DEF TypeOK
<1>7. Agreed'
    BY <1>1, <1>2, <1>3, <1>4, <1>5 DEF Agreed, Alive
<1> QED
    BY <1>2, <1>6, <1>7 DEF SInv

LEMMA begin_control_routineStep ==
    ASSUME SInv, begin_control_routine
    PROVE  SInv'
<1> DEFINE it == Item("ctl", None, cur)
<1>1. /\ At("routine") /\ work' = <<it>> /\ acted' = acted \cup {cur} /\ Then(StartSteps)
      /\ UNCHANGED <<phase, mem, disk, child, orphans, known, order, ctl, moved, inbox,
                     faults, used, owed, strikes>>
    BY DEF begin_control_routine, outside
<1>2. TypeOK /\ Planned /\ Agreed /\ cur \in 0 .. MaxReqs
    BY DEF SInv, TypeOK
<1>3. /\ todo # <<>> /\ Head(todo) = "routine" /\ todo \in Seq(Steps) /\ child.st = "none"
      /\ phase \in {"boot", "run"} /\ Alive /\ ~At("restored") /\ ~At("persist")
    BY <1>1, AtStep DEF At
<1>4. "routine" \in In(todo)
    BY <1>3, HeadIn
<1>5. phase = "run" /\ cur \in DOMAIN ctl /\ ctl[cur].verb \in {"feierabend", "standup"}
    BY <1>2, <1>3, <1>4 DEF Planned, TodoOK
<1>6. Rest = <<>>
    <2>1. /\ Tail(todo) \in Seq(Steps)
          /\ \A y \in In(Tail(todo)) : MayPrecede("routine", y)
        BY <1>2, <1>3, TailOrdered DEF Planned, TodoOK
    <2>2. In(Tail(todo)) = {}
        BY <2>1 DEF MayPrecede
    <2> QED
        BY <1>3, <2>1, <2>2, InEmpty DEF Rest
<1>7. /\ todo' = StartSteps /\ cur' \in {0, cur}
      /\ todo' \in {<<"start", "launch">>, <<"bind", "start", "launch">>}
      /\ todo' = <<"start", "launch">> => mem.sid # None
    <2>1. <<"start", "launch">> \o <<>> = <<"start", "launch">>
        OBVIOUS
    <2>2. <<"bind", "start", "launch">> \o <<>> = <<"bind", "start", "launch">>
        OBVIOUS
    <2>3. <<"bind", "start", "launch">> # <<"start", "launch">>
        OBVIOUS
    <2>4. StartSteps \in {<<"start", "launch">>, <<"bind", "start", "launch">>}
        BY StartStepsPlan
    <2>5. todo' = StartSteps /\ cur' \in {0, cur}
        BY <1>1, <1>6, <2>1, <2>2, <2>4 DEF Then
    <2> QED
        BY <2>3, <2>4, <2>5, StartStepsPlan
<1>8. it \in Items /\ it.kind = "ctl" /\ it.req = cur
    BY <1>2, ItemType DEF Kinds
<1> HIDE DEF it
<1>9. /\ work' \in Seq(Items) /\ work' # <<>> /\ Head(work') = it
      /\ RoutinesFiled(work', ctl)
    BY <1>1, <1>5, <1>8, FirstWork
<1>10. Planned' /\ todo' \in Seq(Steps) /\ ~At("restored")' /\ ~At("persist")'
    <2>1. phase' = "run" /\ child'.st = "none" /\ mem' = mem /\ ctl' = ctl
        BY <1>1, <1>3, <1>5
    <2> QED
        BY <1>7, <1>8, <1>9, <2>1, LaunchPlanned
<1>11. TypeOK'
    <2>1. cur \in 1 .. MaxReqs
        BY <1>1, ActingFor DEF ControlSteps
    <2>2. cur' \in 0 .. MaxReqs
        BY <1>2, <1>7, SupervisorAssumption
    <2> QED
        BY <1>1, <1>2, <1>9, <1>10, <2>1, <2>2 DEF TypeOK
<1>12. Agreed'
    BY <1>1, <1>2, <1>3, <1>10, SameAgreed DEF Alive
<1> QED
    BY <1>10, <1>11, <1>12 DEF SInv

LEMMA StartStep ==
    ASSUME SInv, Start
    PROVE  SInv'
<1>1. /\ phase \in {"down", "off"} /\ phase' = "boot" /\ mem' = Restored(disk)
      /\ todo' = (IF Restored(disk).sid # None /\ moved THEN <<"note", "rebind">> ELSE <<>>)
                   \o <<"boot">>
      /\ UNCHANGED <<disk, work, cur, child, orphans, known, order, ctl, moved, inbox, faults,
                     used, acted, owed, strikes>>
    BY DEF Start, outside, history
<1>2. /\ TypeOK /\ Planned /\ Agreed /\ disk \in Journals /\ disk.c \in Counters
      /\ Burst \in Nat
    BY JournalFields, SupervisorAssumption DEF SInv, TypeOK
<1>3. child.st = "none"
    BY <1>1, <1>2 DEF Planned, ChildOK
<1>4. todo' \in {<<"boot">>, <<"note", "rebind", "boot">>}
    <2>1. <<>> \o <<"boot">> = <<"boot">>
        OBVIOUS
    <2>2. <<"note", "rebind">> \o <<"boot">> = <<"note", "rebind", "boot">>
        <3> DEFINE p == <<"note", "rebind">> \o <<"boot">>
                   q == <<"note", "rebind", "boot">>
        <3>1. q \in Seq(Steps) /\ Len(q) = 3 /\ q[1] = "note" /\ q[2] = "rebind" /\ q[3] = "boot"
            BY DEF Steps
        <3>2. p \in Seq(Steps) /\ Len(p) = 3 /\ p[1] = "note" /\ p[2] = "rebind" /\ p[3] = "boot"
            <4>1. <<"note", "rebind">> \in Seq(Steps) /\ <<"boot">> \in Seq(Steps)
                BY DEF Steps
            <4> QED
                BY <4>1, ConcatProperties
        <3> HIDE DEF p, q
        <3>3. p = q
            BY <3>1, <3>2, SeqEqual
        <3> QED
            BY <3>3 DEF p, q
    <2> QED
        BY <1>1, <2>1, <2>2
<1>5. /\ todo' \in Seq(Steps) /\ Ordered(todo') /\ In(todo') \subseteq {"note", "rebind", "boot"}
      /\ todo' # <<>> /\ Head(todo') \in {"note", "boot"}
    <2>1. CASE todo' = <<"boot">>
        BY <2>1 DEF Steps, Ordered, In
    <2>2. CASE todo' = <<"note", "rebind", "boot">>
        BY <2>2 DEF Steps, Ordered, In, MayPrecede
    <2> QED
        BY <1>4, <2>1, <2>2
<1>6. todo' # <<"start", "launch">>
    <2>1. "start" \notin In(todo')
        BY <1>5
    <2> QED
        BY <2>1, FixedPlans
<1>7. Planned'
    <2>1. TodoOK'
        BY <1>1, <1>5 DEF TodoOK, ControlSteps
    <2>2. WorkOK'
        BY <1>1, <1>2, <1>5 DEF WorkOK, WorkSteps, Planned
    <2>3. ChildOK' /\ StartOK'
        BY <1>1, <1>3, <1>5, <1>6 DEF ChildOK, StartOK, At, Process
    <2> QED
        BY <2>1, <2>2, <2>3 DEF Planned
<1>8. /\ mem' \in Counters
      /\ mem'.sid = disk.c.sid /\ mem'.fresh = disk.c.fresh /\ mem'.turns = disk.c.turns
      /\ mem'.brake = disk.c.brake /\ mem'.streak = disk.c.streak /\ mem'.off = disk.c.off
      /\ mem'.losses = disk.c.losses /\ mem'.tripped = (disk.c.tripped \/ disk.c.brake >= Burst)
    BY <1>1, <1>2, RestoredType
<1>9. TypeOK'
    BY <1>1, <1>2, <1>5, <1>8 DEF TypeOK, Phases
<1>10. \A i \in Ids : disk'.c.losses[i] <= mem'.losses[i]
    BY <1>1, <1>2, <1>8, CountersFields
<1>11. ~At("restored")' /\ ~At("persist")'
    BY <1>5 DEF At
<1>12. Agreed'
    BY <1>1, <1>2, <1>8, <1>10, <1>11 DEF Agreed
<1> QED
    BY <1>7, <1>9, <1>12 DEF SInv

LEMMA BootStep ==
    ASSUME SInv, Boot
    PROVE  SInv'
<1>1. /\ At("boot") /\ phase' \in {"run", "orphaned"} /\ Then(<<>>)
      /\ UNCHANGED <<mem, disk, work, child, orphans, known, order, ctl, moved, inbox, faults,
                     used, acted, owed, strikes>>
    BY DEF Boot, outside, history
<1>2. TypeOK /\ Planned /\ Agreed
    BY DEF SInv
<1>3. /\ todo # <<>> /\ Head(todo) = "boot" /\ todo \in Seq(Steps) /\ child.st = "none"
      /\ Alive /\ ~At("restored") /\ ~At("persist")
    BY <1>1, AtStep DEF At
<1>4. todo' = <<>> /\ cur' = 0
    <2>1. /\ todo' \in Seq(Steps) /\ (todo' = <<>> => cur' = 0)
          /\ \A y \in In(todo') : MayPrecede("boot", y)
        BY <1>1, <1>2, <1>3, StepDone DEF Planned
    <2>2. In(todo') = {}
        BY <2>1 DEF MayPrecede
    <2> QED
        BY <2>1, <2>2, InEmpty
<1>5. Planned'
    BY <1>1, <1>2, <1>3, <1>4, IdlePlan DEF Planned, WorkOK
<1>6. ~At("restored")' /\ ~At("persist")'
    BY <1>4 DEF At
<1>7. TypeOK'
    BY <1>1, <1>2, <1>4, SupervisorAssumption DEF TypeOK, Phases
<1>8. Agreed'
    BY <1>1, <1>2, <1>3, <1>6, SameAgreed
<1> QED
    BY <1>5, <1>7, <1>8 DEF SInv

LEMMA handle_orphanStep ==
    ASSUME SInv, handle_orphan
    PROVE  SInv'
<1>1. /\ phase = "orphaned" /\ phase' = "run"
      /\ disk' = TurnEnded(disk, "orphan_gone", None, disk.open, mem.brake, FALSE)
      /\ UNCHANGED <<mem, work, todo, cur, child, orphans, known, order, ctl, moved, inbox,
                     used, acted, owed, strikes>>
    BY DEF handle_orphan, outside, history
<1>2. TypeOK /\ Planned /\ Agreed /\ mem \in Counters /\ disk \in Journals /\ Alive
    BY <1>1 DEF SInv, TypeOK, Alive
<1>3. todo = <<>> /\ child.st = "none"
    BY <1>1, <1>2 DEF Planned, TodoOK, ChildOK
<1>4. EndsTurn(disk', disk, "orphan_gone", None, disk.open, mem, FALSE)
    BY <1>1, <1>2, TurnEndedType
<1>5. /\ disk' \in Journals
      /\ disk'.c.sid = disk.c.sid /\ disk'.c.fresh = disk.c.fresh /\ disk'.c.turns = disk.c.turns
      /\ disk'.c.brake = mem.brake /\ disk'.c.tripped = (disk.c.tripped \/ FALSE)
      /\ disk'.c.streak = disk.c.streak /\ disk'.c.off = disk.c.off
    BY <1>4 DEF EndsTurn
<1>6. \A i \in Ids : disk'.c.losses[i] = disk.c.losses[i]
    BY <1>4 DEF EndsTurn
<1>7. faults' \in 0 .. MaxFaults
    BY <1>2, FaultType DEF handle_orphan, TypeOK
<1>8. Planned'
    BY <1>1, <1>2, <1>3, IdlePlan DEF Planned, WorkOK
<1>9. TypeOK'
    BY <1>1, <1>2, <1>5, <1>7 DEF TypeOK, Phases
<1>10. ~At("restored")' /\ ~At("persist")' /\ ~At("restored") /\ ~At("persist")
    BY <1>1, <1>3 DEF At
<1>11. Agreed'
    BY <1>1, <1>2, <1>5, <1>6, <1>10 DEF Agreed
<1> QED
    BY <1>8, <1>9, <1>11 DEF SInv

\* Steps of the world around the supervisor that its plan does not look at.
LEMMA OutsideStep ==
    ASSUME SInv, UNCHANGED <<phase, mem, disk, work, todo, cur, child, ctl, strikes>>
    PROVE  Planned' /\ Agreed'
<1>1. Planned /\ Agreed
    BY DEF SInv
<1>2. Planned'
    BY <1>1 DEF Planned, TodoOK, WorkOK, ChildOK, StartOK, At, Process
<1>3. Agreed'
    BY <1>1 DEF Agreed, Alive, At
<1> QED
    BY <1>2, <1>3

LEMMA ReceiveStep ==
    ASSUME SInv, NEW m \in Msgs, Receive(m)
    PROVE  SInv'
<1>1. order \subseteq Ids \X Ids /\ order' = order \cup Listed(m)
    BY DEF SInv, TypeOK, Receive
<1>2. order' \subseteq Ids \X Ids
    BY <1>1 DEF Listed, Ids
<1>3. Planned' /\ Agreed'
    BY OutsideStep DEF Receive, history
<1>4. TypeOK'
    BY <1>2 DEF SInv, TypeOK, Receive, history
<1> QED
    BY <1>3, <1>4 DEF SInv

LEMMA FileStep ==
    ASSUME SInv, NEW v \in Verbs, File(v)
    PROVE  SInv'
<1>1. /\ ctl' = Append(ctl, v)
      /\ UNCHANGED <<phase, mem, disk, work, todo, cur, child, orphans, known, inbox, order,
                     moved, faults, used, acted, owed, strikes>>
    BY DEF File, history
<1>2. TypeOK /\ Planned /\ Agreed /\ ctl \in Seq(Requests) /\ v \in Requests
    BY SupervisorAssumption DEF SInv, TypeOK
<1>3. /\ ctl' \in Seq(Requests) /\ Len(ctl') = Len(ctl) + 1 /\ Len(ctl) \in Nat
      /\ \A i \in 1 .. Len(ctl) : ctl'[i] = ctl[i]
    BY <1>1, <1>2, AppendProperties, LenProperties
<1>4. /\ DOMAIN ctl = 1 .. Len(ctl) /\ DOMAIN ctl' = 1 .. Len(ctl')
    BY <1>2, <1>3, LenProperties
<1>5. \A r \in DOMAIN ctl : r \in DOMAIN ctl' /\ ctl'[r] = ctl[r]
    BY <1>3, <1>4
<1>6. TypeOK'
    BY <1>1, <1>2, <1>3 DEF TypeOK
<1>7. TodoOK'
    <2>1. TodoOK
        BY <1>2 DEF Planned
    <2> QED
        BY <1>1, <1>5, <2>1 DEF TodoOK
<1>8. WorkOK'
    <2>1. RoutinesFiled(work, ctl')
        BY <1>2, <1>5 DEF Planned, WorkOK, RoutinesFiled
    <2> QED
        BY <1>1, <1>2, <2>1 DEF Planned, WorkOK
<1>9. ChildOK' /\ StartOK'
    BY <1>1, <1>2 DEF Planned, ChildOK, StartOK, At, Process
<1>10. Agreed'
    BY <1>1, <1>2 DEF Agreed, Alive, At
<1> QED
    BY <1>6, <1>7, <1>8, <1>9, <1>10 DEF SInv, Planned

\* The launcher exits.
LEMMA ExitStep ==
    ASSUME SInv, NEW st \in Results, Exit(st), known' \subseteq Sids,
           faults' \in 0 .. MaxFaults
    PROVE  SInv'
<1>1. /\ child.st = "running" /\ child' = [child EXCEPT !.st = st]
      /\ UNCHANGED <<phase, mem, disk, work, todo, cur, orphans, inbox, order, ctl, moved,
                     used, acted, owed, strikes>>
    BY DEF Exit, history
<1>2. TypeOK /\ Planned /\ Agreed /\ child \in Children
    BY DEF SInv, TypeOK
<1>3. child' \in Children /\ child'.st = st /\ child'.sid = child.sid
    BY <1>1, <1>2, ChildStatus
<1>4. st \notin {"none", "prepared"}
    BY DEF Results
<1>5. TypeOK'
    BY <1>1, <1>2, <1>3 DEF TypeOK
<1>6. TodoOK' /\ WorkOK' /\ StartOK'
    BY <1>1, <1>2 DEF Planned, TodoOK, WorkOK, StartOK
<1>7. ChildOK'
    <2>1. Process /\ ~At("launch") /\ phase = "run" /\ work # <<>> /\ child.sid \in Sids
        BY <1>1, <1>2 DEF Planned, ChildOK, Process
    <2> QED
        BY <1>1, <1>2, <1>3, <1>4, <2>1 DEF Planned, ChildOK, At, Process
<1>8. Agreed'
    BY <1>1, <1>2 DEF Agreed, Alive, At
<1> QED
    BY <1>5, <1>6, <1>7, <1>8 DEF SInv, Planned

\* The session of a running turn.
LEMMA RunningSid ==
    ASSUME SInv, child.st = "running"
    PROVE  child.sid \in Sids
BY DEF SInv, Planned, ChildOK

LEMMA AnswersStep ==
    ASSUME SInv, Answers
    PROVE  SInv'
<1>1. known' \subseteq Sids /\ faults' \in 0 .. MaxFaults
    BY RunningSid DEF Answers, Exit, SInv, TypeOK
<1> QED
    BY <1>1, ExitStep DEF Answers, Results

LEMMA LosesStep ==
    ASSUME SInv, Loses
    PROVE  SInv'
<1>1. known' \subseteq Sids /\ faults' \in 0 .. MaxFaults
    BY DEF Loses, SInv, TypeOK
<1> QED
    BY <1>1, ExitStep DEF Loses, Results

LEMMA FailsStep ==
    ASSUME SInv, NEW st \in {"infra", "failure"}, Fails(st)
    PROVE  SInv'
<1>1. known' \subseteq Sids
    BY RunningSid DEF Fails, Exit, SInv, TypeOK
<1>2. faults' \in 0 .. MaxFaults
    BY FaultType DEF Fails, SInv, TypeOK
<1> QED
    BY <1>1, <1>2, ExitStep DEF Fails, Results

LEMMA RefusesStep ==
    ASSUME SInv, Refuses
    PROVE  SInv'
<1>1. known' \subseteq Sids
    BY RunningSid DEF Refuses, Exit, SInv, TypeOK
<1>2. faults' \in 0 .. MaxFaults
    BY FaultType DEF Refuses, SInv, TypeOK
<1> QED
    BY <1>1, <1>2, ExitStep DEF Refuses, Results

LEMMA ForgetStep ==
    ASSUME SInv, NEW s \in known, Forget(s)
    PROVE  SInv'
<1>1. Planned' /\ Agreed'
    BY OutsideStep DEF Forget, history
<1>2. faults' \in 0 .. MaxFaults
    BY FaultType DEF Forget, SInv, TypeOK
<1>3. TypeOK'
    BY <1>2 DEF SInv, TypeOK, Forget, history
<1> QED
    BY <1>1, <1>3 DEF SInv

LEMMA OrphanEndsStep ==
    ASSUME SInv, NEW s \in orphans, OrphanEnds(s)
    PROVE  SInv'
<1>1. Planned' /\ Agreed'
    BY OutsideStep DEF OrphanEnds, history
<1>2. TypeOK'
    BY DEF SInv, TypeOK, OrphanEnds, history
<1> QED
    BY <1>1, <1>2 DEF SInv

LEMMA RehomeStep ==
    ASSUME SInv, Rehome
    PROVE  SInv'
<1>1. Planned' /\ Agreed'
    BY OutsideStep DEF Rehome, history
<1>2. faults' \in 0 .. MaxFaults
    BY FaultType DEF Rehome, SInv, TypeOK
<1>3. TypeOK'
    BY <1>2 DEF SInv, TypeOK, Rehome, history
<1> QED
    BY <1>1, <1>3 DEF SInv

-----------------------------------------------------------------------------
(***************************************************************************)
(* The specification.                                                      *)
(***************************************************************************)
LEMMA InitSInv == Init => SInv
<1> SUFFICES ASSUME Init PROVE SInv
    OBVIOUS
<1>1. Unset \in Counters
    BY ZeroCounts DEF Unset, Counters
<1>2. EmptyJournal \in Journals /\ EmptyJournal.c = Unset
    BY <1>1, ZeroCounts DEF EmptyJournal, Journals
<1>3. NoChild \in Children /\ NoChild.st = "none"
    BY DEF NoChild, Children
<1>4. TypeOK
    <2>1. /\ phase \in Phases /\ mem \in Counters /\ disk \in Journals /\ child \in Children
          /\ inbox \in [Ids -> {"absent", "PERSISTED", "SEEN", "PROCESSED", "FAILED"}]
        BY <1>1, <1>2, <1>3 DEF Init, Phases
    <2>2. /\ work \in Seq(Items) /\ todo \in Seq(Steps) /\ order \subseteq Ids \X Ids
          /\ ctl \in Seq(Requests)
        BY DEF Init
    <2>3. cur \in 0 .. MaxReqs /\ faults \in 0 .. MaxFaults /\ strikes \in Nat
        BY SupervisorAssumption DEF Init
    <2>4. /\ orphans \subseteq Sids /\ known \subseteq Sids /\ used \subseteq Sids
          /\ acted \subseteq 1 .. MaxReqs /\ moved \in BOOLEAN /\ owed \in BOOLEAN
        BY DEF Init
    <2> QED
        BY <2>1, <2>2, <2>3, <2>4 DEF TypeOK
<1>5. Planned
    <2>1. In(todo) = {} /\ Ordered(todo) /\ todo # <<"start", "launch">> /\ todo = <<>>
        BY InEmpty, FixedPlans DEF Ordered, Init
    <2> QED
        BY <1>3, <2>1 DEF Init, Planned, TodoOK, WorkOK, ChildOK, StartOK, At, Process,
                          RoutinesFiled
<1>6. Agreed
    BY <1>2 DEF Init, Agreed, Alive, Unset
<1> QED
    BY <1>4, <1>5, <1>6 DEF SInv

\* Every step of the specification keeps the plan, and memory and journal agreed.
LEMMA NextSInv == SInv /\ [Next]_vars => SInv'
<1> SUFFICES ASSUME SInv, [Next]_vars PROVE SInv'
    OBVIOUS
<1>1. CASE Poll
    BY <1>1, PollRetryStep, PollMessageStep DEF Poll
<1>2. CASE Turn
    BY <1>2, start_turnStep, LaunchStep, LaunchFailsStep, bind_sessionStep DEF Turn
<1>3. CASE Finish
    BY <1>3, FinishOkStep, FinishRetryStep, FinishLostStep, FinishLostAgainStep,
       FinishFailureStep DEF Finish
<1>4. CASE FollowUp
    BY <1>4, RestoreStep, PersistStep, OffDutyStep, DropStep, CloseStep,
       add_handover_noteStep, RaisesStep, engineErrorStep DEF FollowUp
<1>5. CASE Control
    BY <1>5, accept_controlStep, reject_controlStep, CancelCollectsStep, CancelKillsStep,
       clear_brakeStep, RotateFreshStep, RestartStep, OnDutyStep, begin_control_routineStep,
       ShutDownStep DEF Control
<1>6. CASE Environment
    BY <1>6, ReceiveStep, FileStep, FailsStep, RefusesStep, RehomeStep, CrashStep,
       TerminateStep, ReexecStep, ForgetStep DEF Environment
<1>7. CASE UNCHANGED vars
    <2>1. Planned' /\ Agreed'
        BY <1>7, OutsideStep DEF vars
    <2>2. TypeOK'
        BY <1>7 DEF vars, SInv, TypeOK
    <2> QED
        BY <2>1, <2>2 DEF SInv
<1> QED
    BY <1>1, <1>2, <1>3, <1>4, <1>5, <1>6, <1>7, BootStep, handle_orphanStep, StartStep,
       AnswersStep, LosesStep, OrphanEndsStep DEF Next, Steady

\* The plan is always somebody's, and memory and journal always agreed.
THEOREM PlannedAndAgreed == Spec => []SInv
BY InitSInv, NextSInv, PTL DEF Spec
=============================================================================
