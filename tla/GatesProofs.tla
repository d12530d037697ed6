----------------------------- MODULE GatesProofs -----------------------------
(***************************************************************************)
(* What the verdicts before main stand on.  The gate on open alerts: for   *)
(* any languages, pushes and length of the wait, in whatever order         *)
(* analyses land or never do.  The gate on licences: for any releases,     *)
(* spellings, files and licences, wherever the forge goes away and         *)
(* whatever upstream withdraws.  The judgement of a candidate: for any     *)
(* project, any thresholds and any size of a page.  Nothing passes between *)
(* the three.                                                              *)
(***************************************************************************)
EXTENDS CodeqlGate, LicenceGate, Candidate, FiniteSetTheorems, WellFoundedInduction, TLAPS

-----------------------------------------------------------------------------
(***************************************************************************)
(* The gate on open alerts.                                                *)
(***************************************************************************)
Began(c) == job[c].pc # "none"

\* A ref is at its last commit, and only that one is still asked about: a push
\* cancels the run before it, and the queue has one commit at a time.
InOrder(j) == \A c, d \in Commit : j[d].pc # "none" /\ c < d => j[c].pc # "none"
AtLast(j, r, n) ==
    /\ j[n].pc # "none" /\ j[n].ref = r
    /\ \A c \in Commit : j[c].pc # "none" /\ j[c].ref = r => c <= n
LastIsHead ==
    /\ InOrder(job)
    /\ \A r \in Ref : head[r] # 0 => AtLast(job, r, head[r])
    /\ \A c \in Commit : job[c].pc \in Going => head[job[c].ref] = c

\* CodeQL says one thing of a language at a commit, and only once it was asked.
SaidOnce ==
    /\ \A a \in pending : a.tool = "CodeQL" /\ a \notin analyses
    /\ \A a \in pending \union analyses :
        /\ Began(a.commit)
        /\ a.tool = "CodeQL" => job[a.commit].pc # "analyze"
    /\ \A a, b \in pending \union analyses :
        a.tool = "CodeQL" /\ b.tool = "CodeQL" /\ a.commit = b.commit /\ Named(a.category) = Named(b.category) => a = b

\* What a run has read was there, and is all there is to wait for or the wait was
\* over.
WaitedEnough ==
    \A c \in Commit :
        /\ job[c].pc = "wait" => job[c].polls < MaxPolls
        /\ job[c].pc = "read" => job[c].polls = MaxPolls \/ Complete(c)
        /\ job[c].pc = "judge" => /\ job[c].here \subseteq At(analyses, c)
                                  /\ job[c].polls = MaxPolls \/ Missing(job[c].here, job[c].wanted) = {}

AlertInv == TypeOK /\ LastIsHead /\ SaidOnce /\ WaitedEnough /\ GreenMeansLooked /\ NotRefusedForNothing
-----------------------------------------------------------------------------
\* What another tool uploads is an analysis like any other.
LEMMA OthersAreAnalyses ==
    ASSUME NEW c \in Commit
    PROVE  Others(c) \subseteq Analysis
  <1>1. ASSUME NEW l \in Elsewhere
        PROVE  [commit |-> c, category |-> <<"written", l>>, tool |-> "Other", found |-> FALSE] \in Analysis
    BY LanguageAssumption DEF Analysis, Categories, Tools
  <1>2. QED
    BY <1>1 DEF Others

\* A run of the workflow, and what a step makes of it.
Job == [ref: Ref, wanted: SUBSET Language, pc: Pc, polls: 0..MaxPolls, here: SUBSET Categories]

LEMMA JobGoesOn ==
    ASSUME NEW j \in Job
    PROVE  /\ \A pc \in Pc : [j EXCEPT !.pc = pc] \in Job
           /\ \A pc \in Pc, n \in 0..MaxPolls : [j EXCEPT !.pc = pc, !.polls = n] \in Job
           /\ \A pc \in Pc, n \in 0..MaxPolls : [j EXCEPT !.polls = n, !.pc = pc] \in Job
           /\ \A pc \in Pc, read \in SUBSET Categories : [j EXCEPT !.here = read, !.pc = pc] \in Job
  BY DEF Job

LEMMA JobBegins ==
    ASSUME NEW r \in Ref, NEW wanted \in SUBSET Language
    PROVE  Run(r, wanted, "analyze") \in Job
  BY BoundsAssumption DEF Job, Run, Pc, Going

LEMMA AlertInvInit == Init => AlertInv
  <1> SUFFICES ASSUME Init PROVE AlertInv
    OBVIOUS
  <1> USE BoundsAssumption DEF Init, Run, Commit
  <1>1. TypeOK
    BY DEF TypeOK, Ref, Pc, Going
  <1>2. LastIsHead /\ SaidOnce /\ WaitedEnough
    BY DEF LastIsHead, InOrder, SaidOnce, WaitedEnough, Began, Going
  <1>3. GreenMeansLooked /\ NotRefusedForNothing
    BY DEF GreenMeansLooked, NotRefusedForNothing
  <1>4. QED
    BY <1>1, <1>2, <1>3 DEF AlertInv

\* Whatever a step is, the state keeps its type.
LEMMA AlertTypeKept ==
    ASSUME TypeOK, WaitedEnough, [Next]_vars
    PROVE  TypeOK'
  <1> DEFINE Typed == job' \in [Commit -> Job]
  <1>1. job \in [Commit -> Job] /\ (\A c \in Commit : job[c] \in Job)
    BY DEF TypeOK, Job
  <1>2. {"cancelled", "wait", "read", "judge", "passed", "refused"} \subseteq Pc
    BY DEF Pc, Going
  <1>3. ASSUME NEW n \in Commit, Push(n) PROVE Typed /\ TypeOK'
    <2>1. PICK matrix \in SUBSET Language, init \in SUBSET Language :
            job' = [c \in Commit |-> IF c = n THEN Run("pull", Expected(matrix, init), "analyze")
                                     ELSE IF Cancelled(c) THEN [job[c] EXCEPT !.pc = "cancelled"]
                                     ELSE job[c]]
      BY <1>3 DEF Push
    <2>2. Run("pull", Expected(matrix, init), "analyze") \in Job
      BY JobBegins DEF Expected, Ref
    <2>3. Typed
      BY <1>1, <1>2, <2>1, <2>2, JobGoesOn
    <2>4. QED
      BY <1>3, <2>3, OthersAreAnalyses DEF Push, TypeOK, Job, Ref
  <1>4. ASSUME NEW n \in Commit, Enqueue(n) PROVE Typed /\ TypeOK'
    <2>1. head["pull"] \in Commit
      BY <1>4 DEF Enqueue, TypeOK, Ref
    <2>2. job[head["pull"]].wanted \subseteq Language
      BY <1>1, <2>1 DEF Job
    <2>3. Run("queue", job[head["pull"]].wanted, "analyze") \in Job
      BY <2>2, JobBegins DEF Ref
    <2>4. Typed
      BY <1>1, <1>4, <2>3 DEF Enqueue
    <2>5. QED
      BY <1>4, <2>4, OthersAreAnalyses DEF Enqueue, TypeOK, Job, Ref
  <1>5. ASSUME NEW c \in Commit, Analyze(c) PROVE Typed /\ TypeOK'
    <2>1. PICK up \in SUBSET job[c].wanted : \E found \in SUBSET up : pending' = pending \union
            {[commit |-> c, category |-> Category(l), tool |-> "CodeQL", found |-> l \in found] : l \in up}
      BY <1>5 DEF Analyze
    <2>2. PICK found \in SUBSET up : pending' = pending \union
            {[commit |-> c, category |-> Category(l), tool |-> "CodeQL", found |-> l \in found] : l \in up}
      BY <2>1
    <2>3. ASSUME NEW l \in up
          PROVE  [commit |-> c, category |-> Category(l), tool |-> "CodeQL", found |-> l \in found] \in Analysis
      <3>1. l \in Language
        BY <1>1, <2>3 DEF Job
      <3>2. QED
        BY <3>1 DEF Analysis, Category, Categories, Tools
    <2>4. pending' \subseteq Analysis
      <3>1. ASSUME NEW a \in pending', a \notin pending PROVE a \in Analysis
        BY <2>2, <2>3, <3>1
      <3>2. pending \subseteq Analysis
        BY DEF TypeOK
      <3>3. QED
        BY <3>1, <3>2
    <2>5. job' = [job EXCEPT ![c] = [job[c] EXCEPT !.pc = "wait", !.polls = 0]]
      BY <1>5 DEF Analyze
    <2>6. Typed
      <3>1. 0 \in 0..MaxPolls
        BY BoundsAssumption
      <3>2. QED
        BY <1>1, <1>2, <2>5, <3>1, JobGoesOn
    <2>7. QED
      BY <1>5, <2>4, <2>6 DEF Analyze, TypeOK, Job
  <1>6. ASSUME NEW c \in Commit, Poll(c) PROVE Typed /\ TypeOK'
    <2>1. job[c].polls + 1 \in 0..MaxPolls
      BY <1>1, <1>6, BoundsAssumption DEF Poll, WaitedEnough, Job
    <2>2. job' = [job EXCEPT ![c] = [job[c] EXCEPT !.polls = job[c].polls + 1, !.pc = IF Waited(c) THEN "read" ELSE "wait"]]
      BY <1>6 DEF Poll
    <2>3. Typed
      BY <1>1, <1>2, <2>1, <2>2, JobGoesOn
    <2>4. QED
      BY <1>6, <2>3 DEF Poll, TypeOK, Job
  <1>7. ASSUME NEW c \in Commit, Read(c) PROVE Typed /\ TypeOK'
    <2>1. At(analyses, c) \in SUBSET Categories
      BY DEF At, Analysis, TypeOK
    <2>2. job' = [job EXCEPT ![c] = [job[c] EXCEPT !.here = At(analyses, c), !.pc = "judge"]]
      BY <1>7 DEF Read
    <2>3. Typed
      BY <1>1, <1>2, <2>1, <2>2, JobGoesOn
    <2>4. QED
      BY <1>7, <2>3 DEF Read, TypeOK, Job
  <1>8. ASSUME NEW c \in Commit, Judge(c) PROVE Typed /\ TypeOK'
    <2>1. job' = [job EXCEPT ![c] = [job[c] EXCEPT !.pc =
                    IF Allows(job[c].here, job[c].wanted, Open(job[c].ref)) THEN "passed" ELSE "refused"]]
      BY <1>8 DEF Judge
    <2>2. Typed
      BY <1>1, <1>2, <2>1, JobGoesOn
    <2>3. QED
      BY <1>8, <2>2 DEF Judge, TypeOK, Job
  <1>9. ASSUME Merge \/ Drop PROVE TypeOK'
    BY <1>9 DEF Merge, Drop, Ref, TypeOK
  <1>10. ASSUME NEW a \in pending, Land(a) PROVE TypeOK'
    BY <1>10 DEF Land, TypeOK
  <1>11. ASSUME NEW l \in Language, Dismiss(l) PROVE TypeOK'
    BY <1>11 DEF Dismiss, TypeOK
  <1>12. ASSUME UNCHANGED vars PROVE TypeOK'
    BY <1>12 DEF vars, TypeOK
  <1>13. QED
    BY <1>3, <1>4, <1>5, <1>6, <1>7, <1>8, <1>9, <1>10, <1>11, <1>12 DEF Next, Step
-----------------------------------------------------------------------------
\* What a push or the queue begins, and what it cancels.
Starts(n, r) ==
    /\ ~Began(n) /\ \A m \in Commit : m < n => Began(m)
    /\ head' = [head EXCEPT ![r] = n]
    /\ job'[n].ref = r /\ job'[n].pc = "analyze"
    /\ \A k \in Commit \ {n} :
        \/ job'[k] = job[k] /\ (job[k].pc \in Going => job[k].ref # r)
        \/ /\ job[k].pc \in Going /\ job'[k].pc = "cancelled"
           /\ job'[k].ref = job[k].ref /\ job'[k].wanted = job[k].wanted
    /\ pending' = pending /\ dismissed' = dismissed
    /\ analyses' = analyses \union Others(n)

LEMMA PushOrQueue ==
    ASSUME TypeOK, LastIsHead, NEW n \in Commit, Push(n) \/ Enqueue(n)
    PROVE  \E r \in Ref : Starts(n, r)
  <1>1. Fresh(n) => ~Began(n) /\ \A m \in Commit : m < n => Began(m)
    BY DEF Fresh, Began, Commit
  <1>2. CASE Push(n)
    <2>1. PICK matrix \in SUBSET Language, init \in SUBSET Language :
            job' = [c \in Commit |-> IF c = n THEN Run("pull", Expected(matrix, init), "analyze")
                                     ELSE IF Cancelled(c) THEN [job[c] EXCEPT !.pc = "cancelled"]
                                     ELSE job[c]]
      BY <1>2 DEF Push
    <2>2. job'[n].ref = "pull" /\ job'[n].pc = "analyze"
      BY <2>1 DEF Run
    <2>3. ASSUME NEW k \in Commit \ {n}
          PROVE  \/ job'[k] = job[k] /\ (job[k].pc \in Going => job[k].ref # "pull")
                 \/ /\ job[k].pc \in Going /\ job'[k].pc = "cancelled"
                    /\ job'[k].ref = job[k].ref /\ job'[k].wanted = job[k].wanted
      <3>1. CASE Cancelled(k)
        BY <2>1, <3>1 DEF Cancelled, TypeOK
      <3>2. CASE ~Cancelled(k)
        BY <2>1, <3>2 DEF Cancelled
      <3>3. QED
        BY <3>1, <3>2
    <2>4. Starts(n, "pull")
      BY <1>1, <1>2, <2>2, <2>3 DEF Starts, Push
    <2>5. QED
      BY <2>4 DEF Ref
  <1>3. CASE Enqueue(n)
    <2>1. job'[n].ref = "queue" /\ job'[n].pc = "analyze"
      BY <1>3 DEF Enqueue, Run, TypeOK
    <2>2. ASSUME NEW k \in Commit \ {n}
          PROVE  job'[k] = job[k] /\ (job[k].pc \in Going => job[k].ref # "queue")
      <3>1. job'[k] = job[k]
        BY <1>3 DEF Enqueue, TypeOK
      <3>2. job[k].pc \in Going => head[job[k].ref] = k
        BY DEF LastIsHead
      <3>3. head["queue"] = 0 /\ k # 0
        BY <1>3 DEF Enqueue, Commit
      <3>4. QED
        BY <3>1, <3>2, <3>3
    <2>3. Starts(n, "queue")
      BY <1>1, <1>3, <2>1, <2>2 DEF Starts, Enqueue
    <2>4. QED
      BY <2>3 DEF Ref
  <1>4. QED
    BY <1>2, <1>3

\* What a job of the workflow leaves alone.
LEMMA StepFrame ==
    ASSUME TypeOK, NEW c \in Commit, Step(c)
    PROVE  /\ head' = head /\ analyses' = analyses /\ dismissed' = dismissed
           /\ \A k \in Commit \ {c} : job'[k] = job[k]
           /\ job'[c].ref = job[c].ref /\ job'[c].wanted = job[c].wanted
           /\ job[c].pc \in Going /\ job'[c].pc \notin {"none", "analyze"}
  <1>1. \A k \in Commit : job[k] \in Job
    BY DEF TypeOK, Job
  <1>2. CASE Analyze(c)
    BY <1>1, <1>2 DEF Analyze, Going, TypeOK, Job
  <1>3. CASE Poll(c)
    BY <1>1, <1>3 DEF Poll, Going, TypeOK, Job
  <1>4. CASE Read(c)
    BY <1>1, <1>4 DEF Read, Going, TypeOK, Job
  <1>5. CASE Judge(c)
    BY <1>1, <1>5 DEF Judge, Going, TypeOK, Job
  <1>6. QED
    BY <1>2, <1>3, <1>4, <1>5 DEF Step

\* The other steps of Next.
LEMMA Cases ==
    ASSUME TypeOK, LastIsHead, [Next]_vars
    PROVE  \/ \E n \in Commit, r \in Ref : Starts(n, r)
           \/ \E c \in Commit : Step(c)
           \/ Merge \/ Drop
           \/ \E a \in pending : Land(a)
           \/ \E l \in Language : Dismiss(l)
           \/ UNCHANGED vars
  BY PushOrQueue DEF Next

LEMMA HeadsKept ==
    ASSUME TypeOK, LastIsHead, [Next]_vars
    PROVE  LastIsHead'
  <1>0. /\ \A k \in Commit : job[k].ref \in Ref
        /\ head \in [Ref -> {0} \union Commit] /\ 0 \notin Commit
    BY DEF TypeOK, Commit
  <1>1. ASSUME NEW n \in Commit, NEW r \in Ref, Starts(n, r) PROVE LastIsHead'
    <2>1. head'[r] = n /\ \A q \in Ref \ {r} : head'[q] = head[q]
      BY <1>0, <1>1 DEF Starts
    <2>2. \A k \in Commit : job'[k].pc # "none" <=> (k = n \/ job[k].pc # "none")
      BY <1>1 DEF Starts, Going
    <2>3. \A k \in Commit \ {n} : /\ job'[k].ref = job[k].ref
                                  /\ job'[k].pc \in Going => job[k].pc \in Going /\ job[k].ref # r
      BY <1>1 DEF Starts, Going
    <2>4. /\ job'[n].ref = r /\ job[n].pc = "none"
          /\ \A m \in Commit : m < n => job[m].pc # "none"
      BY <1>1 DEF Starts, Began
    <2>5. \A k \in Commit : job[k].pc # "none" => k < n
      BY <2>4 DEF LastIsHead, InOrder, Commit
    <2>6. InOrder(job')
      BY <2>2, <2>4, <2>5 DEF LastIsHead, InOrder, Commit
    <2>7. AtLast(job', r, n)
      BY <2>2, <2>4, <2>5 DEF AtLast, Commit
    <2>8. ASSUME NEW q \in Ref \ {r}, head[q] # 0 PROVE AtLast(job', q, head[q])
      <3>1. AtLast(job, q, head[q]) /\ head[q] \in Commit
        BY <1>0, <2>8 DEF LastIsHead
      <3>2. head[q] # n
        BY <2>4, <3>1 DEF AtLast
      <3>3. QED
        BY <2>2, <2>3, <2>4, <2>8, <3>1, <3>2 DEF AtLast
    <2>9. ASSUME NEW c \in Commit, job'[c].pc \in Going PROVE head'[job'[c].ref] = c
      <3>1. CASE c = n
        BY <2>1, <2>4, <3>1
      <3>2. CASE c # n
        <4>1. job'[c].ref = job[c].ref /\ job[c].pc \in Going /\ job[c].ref # r /\ job[c].ref \in Ref
          BY <1>0, <2>3, <2>9, <3>2
        <4>2. QED
          BY <2>1, <4>1 DEF LastIsHead
      <3>3. QED
        BY <3>1, <3>2
    <2>10. ASSUME NEW q \in Ref, head'[q] # 0 PROVE AtLast(job', q, head'[q])
      <3>1. CASE q = r
        BY <2>1, <2>7, <3>1
      <3>2. CASE q # r
        BY <2>1, <2>8, <2>10, <3>2
      <3>3. QED
        BY <3>1, <3>2
    <2>11. QED
      BY <2>6, <2>9, <2>10 DEF LastIsHead
  <1>2. ASSUME NEW c \in Commit, Step(c) PROVE LastIsHead'
    <2>1. /\ head' = head /\ \A k \in Commit : job'[k].ref = job[k].ref
          /\ \A k \in Commit : job'[k].pc # "none" <=> job[k].pc # "none"
          /\ \A k \in Commit : job'[k].pc \in Going => job[k].pc \in Going
      BY <1>2, StepFrame DEF Going
    <2>2. InOrder(job')
      BY <2>1 DEF LastIsHead, InOrder
    <2>3. ASSUME NEW q \in Ref, head'[q] # 0 PROVE AtLast(job', q, head'[q])
      <3>1. AtLast(job, q, head[q]) /\ head'[q] = head[q] /\ head[q] \in Commit
        BY <1>0, <2>1, <2>3 DEF LastIsHead
      <3>2. QED
        BY <2>1, <3>1 DEF AtLast
    <2>4. QED
      BY <2>1, <2>2, <2>3 DEF LastIsHead
  <1>3. CASE Merge \/ Drop
    <2>1. /\ job' = job /\ head' = [head EXCEPT !["queue"] = 0] /\ head["queue"] # 0
          /\ job[head["queue"]].pc \in {"passed", "refused"}
      BY <1>3 DEF Merge, Drop
    <2>2. ASSUME NEW q \in Ref, head'[q] # 0 PROVE AtLast(job, q, head'[q])
      BY <1>0, <2>1, <2>2 DEF LastIsHead
    <2>3. ASSUME NEW c \in Commit, job[c].pc \in Going PROVE head'[job[c].ref] = c
      BY <1>0, <2>1, <2>3 DEF LastIsHead, Going
    <2>4. QED
      BY <2>1, <2>2, <2>3 DEF LastIsHead
  <1>4. ASSUME UNCHANGED <<head, job>> PROVE LastIsHead'
    BY <1>4 DEF LastIsHead
  <1>5. QED
    BY Cases, <1>1, <1>2, <1>3, <1>4 DEF Land, Dismiss, vars

\* Once begun, a run keeps its ref; once decided, everything.
LEMMA JobsStay ==
    ASSUME TypeOK, LastIsHead, [Next]_vars, NEW c \in Commit, job[c].pc # "none"
    PROVE  /\ job'[c].pc # "none" /\ job'[c].ref = job[c].ref
           /\ job'[c].pc = "analyze" => job[c].pc = "analyze"
           /\ job[c].pc \in {"passed", "refused"} => job'[c] = job[c]
           /\ analyses \subseteq analyses'
  <1>1. ASSUME NEW n \in Commit, NEW r \in Ref, Starts(n, r)
        PROVE  /\ job'[c].pc # "none" /\ job'[c].ref = job[c].ref
               /\ job'[c].pc = "analyze" => job[c].pc = "analyze"
               /\ job[c].pc \in {"passed", "refused"} => job'[c] = job[c]
               /\ analyses \subseteq analyses'
    <2>1. c \in Commit \ {n}
      BY <1>1 DEF Starts, Began
    <2>2. QED
      BY <1>1, <2>1 DEF Starts, Going
  <1>2. ASSUME NEW d \in Commit, Step(d)
        PROVE  /\ job'[c].pc # "none" /\ job'[c].ref = job[c].ref
               /\ job'[c].pc = "analyze" => job[c].pc = "analyze"
               /\ job[c].pc \in {"passed", "refused"} => job'[c] = job[c]
               /\ analyses \subseteq analyses'
    <2>1. CASE c = d
      BY <1>2, <2>1, StepFrame DEF Going
    <2>2. CASE c # d
      BY <1>2, <2>2, StepFrame
    <2>3. QED
      BY <2>1, <2>2
  <1>3. ASSUME job' = job, analyses \subseteq analyses'
        PROVE  /\ job'[c].pc # "none" /\ job'[c].ref = job[c].ref
               /\ job'[c].pc = "analyze" => job[c].pc = "analyze"
               /\ job[c].pc \in {"passed", "refused"} => job'[c] = job[c]
               /\ analyses \subseteq analyses'
    BY <1>3
  <1>4. QED
    BY Cases, <1>1, <1>2, <1>3 DEF Merge, Drop, Land, Dismiss, vars

LEMMA SaidOnceKept ==
    ASSUME TypeOK, LastIsHead, SaidOnce, [Next]_vars
    PROVE  SaidOnce'
  <1>0. /\ \A a \in pending \union analyses : a.commit \in Commit /\ job[a.commit].pc # "none"
        /\ \A a \in pending \union analyses : a.tool = "CodeQL" => job[a.commit].pc # "analyze"
    BY DEF TypeOK, Analysis, SaidOnce, Began
  <1>1. \A a \in pending \union analyses :
            /\ job'[a.commit].pc # "none"
            /\ a.tool = "CodeQL" => job'[a.commit].pc # "analyze"
    BY <1>0, JobsStay
  <1>2. ASSUME NEW n \in Commit, NEW r \in Ref, Starts(n, r) PROVE SaidOnce'
    <2>1. /\ pending' = pending /\ analyses' = analyses \union Others(n)
          /\ job'[n].pc = "analyze"
      BY <1>2 DEF Starts
    <2>2. \A a \in Others(n) : a.commit = n /\ a.tool = "Other"
      BY DEF Others
    <2>3. \A a \in pending' : a.tool = "CodeQL" /\ a \notin analyses'
      BY <2>1, <2>2 DEF SaidOnce
    <2>4. \A a \in pending' \union analyses' :
            job'[a.commit].pc # "none" /\ (a.tool = "CodeQL" => job'[a.commit].pc # "analyze")
      BY <1>1, <2>1, <2>2
    <2>5. \A a, b \in pending' \union analyses' :
            a.tool = "CodeQL" /\ b.tool = "CodeQL" /\ a.commit = b.commit /\ Named(a.category) = Named(b.category) => a = b
      BY <2>1, <2>2 DEF SaidOnce
    <2>6. QED
      BY <2>3, <2>4, <2>5 DEF SaidOnce, Began
  <1>3. ASSUME NEW c \in Commit, Analyze(c) PROVE SaidOnce'
    <2>1. PICK up \in SUBSET job[c].wanted : \E found \in SUBSET up : pending' = pending \union
            {[commit |-> c, category |-> Category(l), tool |-> "CodeQL", found |-> l \in found] : l \in up}
      BY <1>3 DEF Analyze
    <2>2. PICK found \in SUBSET up : pending' = pending \union
            {[commit |-> c, category |-> Category(l), tool |-> "CodeQL", found |-> l \in found] : l \in up}
      BY <2>1
    <2> DEFINE New(a) == \E l \in up : a = [commit |-> c, category |-> Category(l), tool |-> "CodeQL", found |-> l \in found]
    <2>3. ASSUME NEW a, New(a) PROVE a.commit = c /\ a.tool = "CodeQL"
      BY <2>3
    <2>4. ASSUME NEW a, New(a), NEW b, New(b), Named(a.category) = Named(b.category) PROVE a = b
      BY <2>4 DEF Named, Category
    <2>5. \A a \in pending' : a \in pending \/ New(a)
      BY <2>2
    <2> HIDE DEF New
    <2>6. analyses' = analyses /\ job[c].pc = "analyze" /\ job'[c].pc = "wait"
      BY <1>3 DEF Analyze, TypeOK
    <2>7. \A a \in pending \union analyses : ~(a.tool = "CodeQL" /\ a.commit = c)
      BY <1>0, <2>6
    <2>8. \A a \in pending' : a.tool = "CodeQL" /\ a \notin analyses'
      BY <2>3, <2>5, <2>6, <2>7 DEF SaidOnce
    <2>9. \A a \in pending' \union analyses' :
            job'[a.commit].pc # "none" /\ (a.tool = "CodeQL" => job'[a.commit].pc # "analyze")
      BY <1>1, <2>3, <2>5, <2>6
    <2>10. ASSUME NEW a \in pending' \union analyses', NEW b \in pending' \union analyses',
                  a.tool = "CodeQL", b.tool = "CodeQL", a.commit = b.commit, Named(a.category) = Named(b.category)
           PROVE  a = b
      <3>1. CASE New(a) /\ New(b)
        BY <2>4, <2>10, <3>1
      <3>2. CASE a \in pending \union analyses /\ b \in pending \union analyses
        BY <2>10, <3>2 DEF SaidOnce
      <3>3. ~(New(a) /\ b \in pending \union analyses) /\ ~(New(b) /\ a \in pending \union analyses)
        BY <2>3, <2>7, <2>10
      <3>4. QED
        BY <2>5, <2>6, <3>1, <3>2, <3>3
    <2>11. QED
      BY <2>8, <2>9, <2>10 DEF SaidOnce, Began
  <1>4. ASSUME NEW a \in pending, Land(a) PROVE SaidOnce'
    <2>1. pending' \union analyses' = pending \union analyses /\ pending' = pending \ {a} /\ analyses' = analyses \union {a}
      BY <1>4 DEF Land
    <2>2. QED
      BY <1>1, <2>1 DEF SaidOnce, Began
  <1>5. ASSUME UNCHANGED <<pending, analyses>> PROVE SaidOnce'
    BY <1>1, <1>5 DEF SaidOnce, Began
  <1>6. QED
    BY Cases, <1>2, <1>3, <1>4, <1>5 DEF Step, Poll, Read, Judge, Merge, Drop, Dismiss, vars

LEMMA WaitedEnoughKept ==
    ASSUME TypeOK, LastIsHead, WaitedEnough, [Next]_vars
    PROVE  WaitedEnough'
  <1> DEFINE Enough(c, j, read) ==
        /\ j.pc = "wait" => j.polls < MaxPolls
        /\ j.pc = "read" => \/ j.polls = MaxPolls
                            \/ ~Refused(j.wanted) /\ Missing(At(read, c), j.wanted) = {}
        /\ j.pc = "judge" => /\ j.here \subseteq At(read, c)
                             /\ j.polls = MaxPolls \/ Missing(j.here, j.wanted) = {}
  <1>0. \A k \in Commit : job[k] \in Job
    BY DEF TypeOK, Job
  <1>1. \A c \in Commit : Enough(c, job[c], analyses)
    BY DEF WaitedEnough, Complete
  <1>2. ASSUME \A c \in Commit : Enough(c, job'[c], analyses') PROVE WaitedEnough'
    BY <1>2 DEF WaitedEnough, Complete
  <1>3. ASSUME NEW c \in Commit, NEW j, Enough(c, j, analyses), analyses \subseteq analyses'
        PROVE  Enough(c, j, analyses')
    <2>1. At(analyses, c) \subseteq At(analyses', c)
      BY <1>3 DEF At
    <2>2. Missing(At(analyses', c), j.wanted) \subseteq Missing(At(analyses, c), j.wanted)
      BY <2>1 DEF Missing
    <2>3. QED
      BY <1>3, <2>1, <2>2
  <1>4. ASSUME NEW n \in Commit, NEW r \in Ref, Starts(n, r) PROVE WaitedEnough'
    <2>1. analyses \subseteq analyses' /\ job'[n].pc = "analyze"
      BY <1>4 DEF Starts
    <2>2. ASSUME NEW c \in Commit PROVE Enough(c, job'[c], analyses')
      <3>1. job'[c].pc \in {"analyze", "cancelled"} \/ job'[c] = job[c]
        BY <1>4, <2>1 DEF Starts
      <3>2. job'[c].pc \in {"analyze", "cancelled"} => Enough(c, job'[c], analyses')
        OBVIOUS
      <3> HIDE DEF Enough
      <3>3. QED
        BY <1>1, <1>3, <2>1, <3>1, <3>2
    <2> HIDE DEF Enough
    <2>3. QED
      BY <1>2, <2>2
  <1>5. ASSUME NEW c \in Commit, Step(c) PROVE WaitedEnough'
    <2>1. analyses' = analyses /\ \A k \in Commit \ {c} : job'[k] = job[k]
      BY <1>5, StepFrame
    <2>2. CASE Analyze(c)
      <3>1. job'[c].pc = "wait" /\ job'[c].polls = 0
        BY <1>0, <2>2 DEF Analyze, TypeOK, Job
      <3>2. Enough(c, job'[c], analyses)
        BY <3>1, BoundsAssumption
      <3> HIDE DEF Enough
      <3>3. QED
        BY <1>1, <1>2, <2>1, <3>2
    <2>3. CASE Poll(c)
      <3>1. /\ job'[c].pc = IF Waited(c) THEN "read" ELSE "wait"
            /\ job'[c].polls = job[c].polls + 1 /\ job'[c].wanted = job[c].wanted
        BY <1>0, <2>3 DEF Poll, TypeOK, Job
      <3>2. job[c].polls < MaxPolls /\ job[c].polls \in Nat
        BY <1>0, <1>1, <2>3 DEF Poll, Job
      <3>3. Enough(c, job'[c], analyses)
        BY <3>1, <3>2, BoundsAssumption DEF Waited, Complete
      <3> HIDE DEF Enough
      <3>4. QED
        BY <1>1, <1>2, <2>1, <3>3
    <2>4. CASE Read(c)
      <3>1. /\ job[c].pc = "read" /\ job'[c].pc = "judge" /\ job'[c].here = At(analyses, c)
            /\ job'[c].polls = job[c].polls /\ job'[c].wanted = job[c].wanted
        BY <1>0, <2>4 DEF Read, TypeOK, Job
      <3>2. Enough(c, job'[c], analyses)
        BY <1>1, <3>1
      <3> HIDE DEF Enough
      <3>3. QED
        BY <1>1, <1>2, <2>1, <3>2
    <2>5. CASE Judge(c)
      <3>1. job'[c].pc \in {"passed", "refused"}
        BY <1>0, <2>5 DEF Judge, TypeOK, Job
      <3>2. Enough(c, job'[c], analyses)
        BY <3>1
      <3> HIDE DEF Enough
      <3>3. QED
        BY <1>1, <1>2, <2>1, <3>2
    <2>6. QED
      BY <1>5, <2>2, <2>3, <2>4, <2>5 DEF Step
  <1>6. ASSUME job' = job, analyses \subseteq analyses' PROVE WaitedEnough'
    <2> HIDE DEF Enough
    <2>1. QED
      BY <1>1, <1>2, <1>3, <1>6
  <1> HIDE DEF Enough
  <1>7. QED
    BY Cases, <1>4, <1>5, <1>6 DEF Merge, Drop, Land, Dismiss, vars
-----------------------------------------------------------------------------
\* A run that judges is on the last commit of its ref, so what is open against
\* the ref is what its own analyses found, where they are all there.
LEMMA JudgesItsOwn ==
    ASSUME TypeOK, LastIsHead, SaidOnce, NEW c \in Commit, job[c].pc \in Going,
           NEW l \in Language, StandsAgainst(c, l)
    PROVE  l \in Open(job[c].ref)
  <1> DEFINE Of == {a \in analyses : /\ a.tool = "CodeQL"
                                     /\ Named(a.category) = l
                                     /\ job[a.commit].ref = job[c].ref}
  <1>1. PICK a \in analyses : a.commit = c /\ a.tool = "CodeQL" /\ Named(a.category) = l /\ a.found
    BY DEF StandsAgainst
  <1>2. AtLast(job, job[c].ref, c)
    BY DEF LastIsHead, TypeOK, Commit
  <1>3. \A b \in Of : b.commit <= c
    BY <1>2 DEF AtLast, SaidOnce, Began, TypeOK, Analysis
  <1>4. a \in Of /\ a.found /\ \A b \in Of : b.commit <= a.commit
    BY <1>1, <1>3
  <1>5. l \notin dismissed
    BY DEF StandsAgainst
  <1>6. QED
    BY <1>4, <1>5 DEF Open

LEMMA GreenKept ==
    ASSUME TypeOK, LastIsHead, SaidOnce, WaitedEnough, GreenMeansLooked, [Next]_vars
    PROVE  GreenMeansLooked'
  <1> DEFINE Looked(c, read, no) ==
        /\ job'[c].wanted # {}
        /\ \A l \in job'[c].wanted :
            /\ \E a \in read : a.commit = c /\ a.tool = "CodeQL" /\ Named(a.category) = l
            /\ l \in no \/ \A a \in read : ~(a.commit = c /\ a.tool = "CodeQL" /\ Named(a.category) = l /\ a.found)
  <1>1. ASSUME \A c \in Commit : job'[c].pc = "passed" => Looked(c, analyses', dismissed') PROVE GreenMeansLooked'
    BY <1>1 DEF GreenMeansLooked, Analysed, StandsAgainst
  <1>2. ASSUME NEW c \in Commit, job[c].pc = "passed", job'[c] = job[c] PROVE Looked(c, analyses, dismissed)
    BY <1>2 DEF GreenMeansLooked, Analysed, StandsAgainst
  <1>3. ASSUME NEW n \in Commit, NEW r \in Ref, Starts(n, r) PROVE GreenMeansLooked'
    <2>1. \A a \in Others(n) : a.tool = "Other"
      BY DEF Others
    <2>2. analyses' = analyses \union Others(n) /\ dismissed' = dismissed
      BY <1>3 DEF Starts
    <2>3. ASSUME NEW c \in Commit, job'[c].pc = "passed" PROVE Looked(c, analyses', dismissed')
      <3>1. job[c].pc = "passed" /\ job'[c] = job[c]
        BY <1>3, <2>3 DEF Starts
      <3>2. Looked(c, analyses, dismissed)
        BY <1>2, <3>1
      <3>3. QED
        BY <2>1, <2>2, <3>2
    <2>4. QED
      BY <1>1, <2>3
  <1>4. ASSUME NEW d \in Commit, Step(d) PROVE GreenMeansLooked'
    <2>1. analyses' = analyses /\ dismissed' = dismissed
      BY <1>4, StepFrame
    <2>2. ASSUME NEW c \in Commit, job'[c].pc = "passed" PROVE Looked(c, analyses, dismissed)
      <3>1. CASE job'[c] = job[c]
        BY <1>2, <2>2, <3>1
      <3>2. CASE job'[c] # job[c]
        <4>1. c = d
          BY <1>4, <3>2, StepFrame
        <4>2. Judge(c)
          BY <1>4, <2>2, <4>1 DEF Step, Analyze, Poll, Read, TypeOK
        <4>3. Allows(job[c].here, job[c].wanted, Open(job[c].ref))
          BY <2>2, <4>2 DEF Judge, TypeOK
        <4>4. job'[c].wanted = job[c].wanted
          BY <4>1, <1>4, StepFrame
        <4>5. job[c].wanted # {} /\ Missing(job[c].here, job[c].wanted) = {} /\ Open(job[c].ref) = {}
          BY <4>3 DEF Allows, Refused
        <4>6. job[c].here \subseteq At(analyses, c) /\ job[c].pc \in Going /\ job[c].wanted \subseteq Language
          BY <4>2 DEF WaitedEnough, Judge, Going, TypeOK
        <4>7. ASSUME NEW l \in job[c].wanted
              PROVE  \E a \in analyses : a.commit = c /\ a.tool = "CodeQL" /\ Named(a.category) = l
          <5>1. PICK one \in job[c].here : Named(one) = l
            BY <4>5 DEF Missing
          <5>2. one \in At(analyses, c)
            BY <4>6
          <5>3. QED
            BY <5>1, <5>2 DEF At
        <4>8. ASSUME NEW l \in job[c].wanted PROVE ~StandsAgainst(c, l)
          BY <4>5, <4>6, JudgesItsOwn
        <4>9. QED
          BY <4>4, <4>5, <4>7, <4>8 DEF StandsAgainst
      <3>3. QED
        BY <3>1, <3>2
    <2>3. QED
      BY <1>1, <2>1, <2>2
  <1>5. ASSUME NEW a \in pending, Land(a) PROVE GreenMeansLooked'
    <2>1. analyses' = analyses \union {a} /\ dismissed' = dismissed /\ job' = job
      BY <1>5 DEF Land
    <2>2. ASSUME NEW c \in Commit, job'[c].pc = "passed" PROVE Looked(c, analyses', dismissed')
      <3>1. Looked(c, analyses, dismissed)
        BY <1>2, <2>1, <2>2
      <3>2. ASSUME NEW l \in job[c].wanted PROVE ~(a.commit = c /\ a.tool = "CodeQL" /\ Named(a.category) = l)
        <4>1. PICK b \in analyses : b.commit = c /\ b.tool = "CodeQL" /\ Named(b.category) = l
          BY <2>1, <3>1, <3>2
        <4>2. a # b
          BY <4>1 DEF SaidOnce
        <4>3. QED
          BY <4>1, <4>2 DEF SaidOnce
      <3>3. QED
        BY <2>1, <3>1, <3>2
    <2>3. QED
      BY <1>1, <2>2
  <1>6. ASSUME job' = job, analyses' = analyses, dismissed \subseteq dismissed' PROVE GreenMeansLooked'
    BY <1>1, <1>2, <1>6
  <1>7. QED
    BY Cases, <1>3, <1>4, <1>5, <1>6 DEF Merge, Drop, Dismiss, vars

LEMMA NotRefusedKept ==
    ASSUME TypeOK, LastIsHead, SaidOnce, WaitedEnough, NotRefusedForNothing, [Next]_vars
    PROVE  NotRefusedForNothing'
  <1> DEFINE Founded(c, j, read, jobs) ==
        \/ Refused(j.wanted)
        \/ j.polls = MaxPolls /\ \E l \in j.wanted : Category(l) \notin j.here
        \/ \E a \in read : a.tool = "CodeQL" /\ jobs[a.commit].ref = j.ref /\ a.found
  <1>1. ASSUME NEW c \in Commit, NEW j, Founded(c, j, analyses, job) PROVE Founded(c, j, analyses', job')
    <2>1. \A a \in analyses : a.commit \in Commit /\ job[a.commit].pc # "none"
      BY DEF TypeOK, Analysis, SaidOnce, Began
    <2>2. \A a \in analyses : a \in analyses' /\ job'[a.commit].ref = job[a.commit].ref
      BY <2>1, JobsStay
    <2>3. QED
      BY <1>1, <2>2
  <1>2. ASSUME NEW c \in Commit, job'[c].pc = "refused" PROVE Founded(c, job'[c], analyses, job)
    <2>1. CASE job'[c] = job[c]
      BY <1>2, <2>1 DEF NotRefusedForNothing
    <2>2. CASE job'[c] # job[c]
      <3>1. Judge(c)
        <4>1. ASSUME NEW n \in Commit, NEW r \in Ref, Starts(n, r) PROVE FALSE
          BY <1>2, <2>2, <4>1 DEF Starts
        <4>2. ASSUME NEW d \in Commit, Step(d) PROVE c = d
          BY <2>2, <4>2, StepFrame
        <4>3. Step(c)
          BY Cases, <2>2, <4>1, <4>2 DEF Merge, Drop, Land, Dismiss, vars
        <4>4. QED
          BY <1>2, <4>3 DEF Step, Analyze, Poll, Read, TypeOK
      <3>2. ~Allows(job[c].here, job[c].wanted, Open(job[c].ref))
        BY <1>2, <3>1 DEF Judge, TypeOK
      <3>3. /\ job'[c].wanted = job[c].wanted /\ job'[c].polls = job[c].polls
            /\ job'[c].here = job[c].here /\ job'[c].ref = job[c].ref
        BY <3>1 DEF Judge, TypeOK
      <3>4. \A l \in Language : Named(Category(l)) = l
        BY DEF Named, Category
      <3>5. job[c].wanted \subseteq Language
        BY DEF TypeOK
      <3>6. CASE Refused(job[c].wanted)
        BY <3>3, <3>6
      <3>7. ASSUME NEW l \in job[c].wanted, l \in Missing(job[c].here, job[c].wanted) PROVE Founded(c, job'[c], analyses, job)
        <4>1. Category(l) \notin job[c].here
          BY <3>4, <3>5, <3>7 DEF Missing
        <4>2. job[c].polls = MaxPolls
          BY <3>1, <3>7 DEF WaitedEnough, Judge
        <4>3. QED
          BY <3>3, <4>1, <4>2
      <3>8. CASE Open(job[c].ref) # {}
        <4>1. PICK l : l \in Open(job[c].ref)
          BY <3>8
        <4>2. \E a \in analyses : a.tool = "CodeQL" /\ job[a.commit].ref = job[c].ref /\ a.found
          BY <4>1 DEF Open
        <4>3. QED
          BY <3>3, <4>2
      <3>9. Missing(job[c].here, job[c].wanted) \subseteq job[c].wanted
        BY DEF Missing
      <3>10. job[c].here = {} => Missing(job[c].here, job[c].wanted) = job[c].wanted
        BY DEF Missing
      <3> HIDE DEF Founded
      <3>11. QED
        BY <3>2, <3>6, <3>7, <3>8, <3>9, <3>10 DEF Allows, Refused
    <2> HIDE DEF Founded
    <2>3. QED
      BY <2>1, <2>2
  <1>3. \A c \in Commit : job'[c].pc = "refused" => Founded(c, job'[c], analyses', job')
    <2> HIDE DEF Founded
    <2>1. QED
      BY <1>1, <1>2
  <1>4. QED
    BY <1>3 DEF NotRefusedForNothing
-----------------------------------------------------------------------------
\* All of it is kept by every step.
LEMMA AlertInvKept == AlertInv /\ [Next]_vars => AlertInv'
  BY AlertTypeKept, HeadsKept, SaidOnceKept, WaitedEnoughKept, GreenKept, NotRefusedKept DEF AlertInv

LEMMA AlwaysAlertInv == Spec => []AlertInv
  <1>1. Init => AlertInv
    BY AlertInvInit
  <1>2. AlertInv /\ [Next]_vars => AlertInv'
    BY AlertInvKept
  <1>3. QED
    BY <1>1, <1>2, PTL DEF Spec

\* The state of the gate has its type.
THEOREM GateTyping == Spec => []TypeOK
  <1>1. AlertInv => TypeOK
    BY DEF AlertInv
  <1>2. QED
    BY <1>1, AlwaysAlertInv, PTL

\* A run of the workflow that went green had an analysis of its own commit to look
\* at for every language it names, and no finding of them is open, however late
\* each analysis landed and whatever was pushed meanwhile.
THEOREM GreensLooked == Spec => []GreenMeansLooked
  <1>1. AlertInv => GreenMeansLooked
    BY DEF AlertInv
  <1>2. QED
    BY <1>1, AlwaysAlertInv, PTL

\* A run that refused names no language, or lacked an analysis after the last
\* question it may ask, or its ref has a finding.
THEOREM RefusalsAreFounded == Spec => []NotRefusedForNothing
  <1>1. AlertInv => NotRefusedForNothing
    BY DEF AlertInv
  <1>2. QED
    BY <1>1, AlwaysAlertInv, PTL
-----------------------------------------------------------------------------
(***************************************************************************)
(* The gate on licences.                                                   *)
(***************************************************************************)
\* A run of the check is a record of these.
Fields == {"pc", "gated", "compares", "tag", "records", "stated", "asked", "lost", "ref", "at", "now",
           "unanswered", "verdict", "exit"}
IsGate(g) == DOMAIN g = Fields /\ g = [f \in Fields |-> g[f]]

LEMMA IdleIsGate == IsGate(Idle)
  BY DEF IsGate, Fields, Idle

LEMMA GateGoesOn ==
    ASSUME NEW g, IsGate(g), NEW f \in Fields, NEW v
    PROVE  /\ IsGate([g EXCEPT ![f] = v])
           /\ [g EXCEPT ![f] = v][f] = v
           /\ \A h \in Fields \ {f} : [g EXCEPT ![f] = v][h] = g[h]
  BY DEF IsGate

LEMMA EndedIs ==
    ASSUME NEW g, IsGate(g), NEW verdict
    PROVE  /\ IsGate(Ended(g, verdict))
           /\ Ended(g, verdict).pc = "done" /\ Ended(g, verdict).verdict = verdict
           /\ Ended(g, verdict).exit = IF g.gated /\ verdict \in FAILS_WHEN_GATED THEN 1 ELSE 0
           /\ \A h \in Fields \ {"pc", "verdict", "exit"} : Ended(g, verdict)[h] = g[h]
  <1> DEFINE a == [g EXCEPT !.pc = "done"]
             b == [a EXCEPT !.verdict = verdict]
             exit == IF g.gated /\ verdict \in FAILS_WHEN_GATED THEN 1 ELSE 0
             c == [b EXCEPT !.exit = exit]
  <1>1. Ended(g, verdict) = c
    BY DEF Ended
  <1>2. "pc" \in Fields /\ "verdict" \in Fields /\ "exit" \in Fields
    BY DEF Fields
  <1>3. IsGate(a) /\ a.pc = "done" /\ \A h \in Fields \ {"pc"} : a[h] = g[h]
    BY <1>2, GateGoesOn
  <1> HIDE DEF a
  <1>4. IsGate(b) /\ b.verdict = verdict /\ \A h \in Fields \ {"verdict"} : b[h] = a[h]
    BY <1>2, <1>3, GateGoesOn
  <1> HIDE DEF b, exit
  <1>5. IsGate(c) /\ c.exit = exit /\ \A h \in Fields \ {"exit"} : c[h] = b[h]
    BY <1>2, <1>4, GateGoesOn
  <1> HIDE DEF c
  <1>6. QED
    BY <1>1, <1>2, <1>3, <1>4, <1>5 DEF exit

LEMMA AskIs ==
    ASSUME NEW g, IsGate(g), NEW tag
    PROVE  /\ IsGate(Ask(g, tag))
           /\ Ask(g, tag).at = tag /\ Ask(g, tag).ref = 1 /\ Ask(g, tag).asked = g.asked \union {tag}
           /\ \A h \in Fields \ {"at", "ref", "asked"} : Ask(g, tag)[h] = g[h]
  <1> DEFINE a == [g EXCEPT !.at = tag]
             b == [a EXCEPT !.ref = 1]
             asked == g.asked \union {tag}
             c == [b EXCEPT !.asked = asked]
  <1>1. "at" \in Fields /\ "ref" \in Fields /\ "asked" \in Fields
    BY DEF Fields
  <1>2. IsGate(a) /\ a.at = tag /\ \A h \in Fields \ {"at"} : a[h] = g[h]
    BY <1>1, GateGoesOn
  <1>3. Ask(g, tag) = c
    BY <1>1 DEF Ask, IsGate
  <1> HIDE DEF a
  <1>4. IsGate(b) /\ b.ref = 1 /\ \A h \in Fields \ {"ref"} : b[h] = a[h]
    BY <1>1, <1>2, GateGoesOn
  <1> HIDE DEF b, asked
  <1>5. IsGate(c) /\ c.asked = asked /\ \A h \in Fields \ {"asked"} : c[h] = b[h]
    BY <1>1, <1>4, GateGoesOn
  <1> HIDE DEF c
  <1>6. QED
    BY <1>1, <1>2, <1>3, <1>4, <1>5 DEF asked
-----------------------------------------------------------------------------
\* What each step makes of the run.
LEMMA AfterStart ==
    ASSUME Start
    PROVE  /\ gate.pc = "idle" /\ pinned # <<>> /\ UNCHANGED <<upstream, pinned>>
           /\ IsGate(gate') /\ gate'.tag \in Tag /\ gate'.at = 1 /\ gate'.ref = 1
           /\ gate'.gated \in BOOLEAN /\ gate'.compares \in BOOLEAN /\ gate'.unanswered = FALSE
           /\ gate'.lost = {}
           /\ \/ gate'.pc = "stated" /\ (gate'.compares => gate'.gated)
              \/ gate'.pc = "done" /\ gate'.verdict = "none" /\ gate'.exit = 2
  <1>1. PICK t \in Tag, records \in Records, all \in BOOLEAN :
            LET moved == t # Last(pinned).tag
            IN  gate' \in {[Idle EXCEPT !.pc = "stated", !.gated = all \/ moved, !.compares = ~all /\ moved,
                                        !.tag = t, !.records = records],
                           [Idle EXCEPT !.pc = "done", !.exit = 2]}
    BY DEF Start
  <1>2. gate.pc = "idle" /\ pinned # <<>> /\ UNCHANGED <<upstream, pinned>> /\ 1 \in Tag
    BY LicenceAssumption DEF Start, Tag
  <1> DEFINE moved == t # Last(pinned).tag
  <1>3. CASE gate' = [Idle EXCEPT !.pc = "stated", !.gated = all \/ moved, !.compares = ~all /\ moved,
                                  !.tag = t, !.records = records]
    <2>1. gate' = [Idle EXCEPT !.pc = "stated", !.gated = gate'.gated, !.compares = gate'.compares,
                               !.tag = t, !.records = records]
      BY <1>3 DEF Idle
    <2>2. gate'.gated = (all \/ moved) /\ gate'.compares = (~all /\ moved)
      BY <1>3 DEF Idle
    <2>3. gate'.gated \in BOOLEAN /\ gate'.compares \in BOOLEAN /\ (gate'.compares => gate'.gated)
      BY <2>2
    <2>4. IsGate(gate') /\ gate'.pc = "stated" /\ gate'.tag = t /\ gate'.at = 1 /\ gate'.ref = 1 /\ gate'.unanswered = FALSE
      BY <2>1 DEF Idle, IsGate, Fields
    <2>5. gate'.lost = {}
      BY <2>1 DEF Idle
    <2>6. QED
      BY <1>2, <2>3, <2>4, <2>5
  <1>4. CASE gate' = [Idle EXCEPT !.pc = "done", !.exit = 2]
    BY <1>2, <1>4 DEF Idle, IsGate, Fields
  <1>5. QED
    BY <1>1, <1>3, <1>4

LEMMA AfterStated ==
    ASSUME IsGate(gate), AskStated
    PROVE  /\ gate.pc = "stated" /\ UNCHANGED <<upstream, pinned>>
           /\ IsGate(gate')
           /\ \A h \in {"gated", "compares", "tag", "records", "lost", "now"} : gate'[h] = gate[h]
           /\ gate'.stated \in Stated /\ gate'.unanswered \in BOOLEAN
           /\ \/ /\ gate'.pc = "now" /\ gate.compares /\ gate'.stated = "other" /\ ~gate'.unanswered
                 /\ Assess(gate.records, "other", FALSE) # "moved"
                 /\ gate'.at = gate.tag /\ gate'.ref = 1 /\ gate'.asked = {}
              \/ /\ gate'.pc = "done" /\ gate'.at = gate.at /\ gate'.ref = gate.ref
                 /\ gate'.verdict = Assess(gate.records, gate'.stated, gate'.unanswered)
                 /\ gate'.stated = "other" /\ gate'.verdict # "moved" => ~gate.compares \/ gate'.unanswered
                 /\ gate'.exit = IF gate.gated /\ gate'.verdict \in FAILS_WHEN_GATED THEN 1 ELSE 0
  <1>1. PICK stated \in Stated, problem \in BOOLEAN :
        LET g == [gate EXCEPT !.stated = stated, !.unanswered = problem]
            verdict == Assess(gate.records, stated, problem)
        IN  /\ problem => stated = "nothing"
            /\ gate' = IF gate.compares /\ ~problem /\ stated = "other" /\ verdict # "moved"
                       THEN [Ask(g, gate.tag) EXCEPT !.pc = "now", !.asked = {}]
                       ELSE Ended(g, verdict)
    BY DEF AskStated
  <1>2. gate.pc = "stated" /\ UNCHANGED <<upstream, pinned>>
    BY DEF AskStated
  <1> DEFINE f == [gate EXCEPT !.stated = stated]
             g == [f EXCEPT !.unanswered = problem]
             verdict == Assess(gate.records, stated, problem)
             compare == gate.compares /\ ~problem /\ stated = "other" /\ verdict # "moved"
             q == Ask(g, gate.tag)
             a == [q EXCEPT !.pc = "now"]
             b == [a EXCEPT !.asked = {}]
  <1>3. gate' = IF compare THEN b ELSE Ended(g, verdict)
    BY <1>1
  <1> HIDE DEF verdict
  <1>4. "stated" \in Fields /\ "unanswered" \in Fields /\ "pc" \in Fields /\ "asked" \in Fields
    BY DEF Fields
  <1>5. IsGate(f) /\ f.stated = stated /\ \A h \in Fields \ {"stated"} : f[h] = gate[h]
    BY <1>4, GateGoesOn
  <1> HIDE DEF f
  <1>6. IsGate(g) /\ g.unanswered = problem /\ \A h \in Fields \ {"unanswered"} : g[h] = f[h]
    BY <1>4, <1>5, GateGoesOn
  <1> HIDE DEF g
  <1>7. g.stated = stated /\ g.unanswered = problem /\ \A h \in Fields \ {"stated", "unanswered"} : g[h] = gate[h]
    BY <1>4, <1>5, <1>6
  <1>8. CASE compare
    <2>1. IsGate(a) /\ a.pc = "now" /\ \A h \in Fields \ {"pc"} : a[h] = q[h]
      <3>1. IsGate(q)
        BY <1>6, AskIs
      <3> HIDE DEF q
      <3>2. QED
        BY <1>4, <3>1, GateGoesOn
    <2> HIDE DEF a
    <2>2. IsGate(b) /\ b.asked = {} /\ \A h \in Fields \ {"asked"} : b[h] = a[h]
      BY <1>4, <2>1, GateGoesOn
    <2> HIDE DEF b
    <2>3. gate' = b
      BY <1>3, <1>8
    <2>4. gate'.at = gate.tag /\ gate'.ref = 1
      BY <1>6, <2>1, <2>2, <2>3, AskIs DEF Fields
    <2>5. \A h \in {"gated", "compares", "tag", "records", "lost", "now", "stated", "unanswered"} : gate'[h] = g[h]
      BY <1>6, <2>1, <2>2, <2>3, AskIs DEF Fields
    <2>6. gate'.pc = "now" /\ gate'.asked = {}
      BY <2>1, <2>2, <2>3 DEF Fields
    <2>7. \A h \in {"gated", "compares", "tag", "records", "lost", "now"} : gate'[h] = gate[h]
      BY <1>7, <2>5 DEF Fields
    <2>8. problem = FALSE /\ stated = "other"
      BY <1>8
    <2>9. gate'.stated = stated /\ gate'.unanswered = problem
      BY <1>7, <2>5
    <2>10. gate.compares /\ Assess(gate.records, "other", FALSE) # "moved"
      BY <1>8, <2>8 DEF verdict
    <2>11. IsGate(gate')
      BY <2>2, <2>3
    <2> HIDE DEF compare
    <2>12. QED
      BY <1>2, <2>4, <2>6, <2>7, <2>8, <2>9, <2>10, <2>11
  <1>9. CASE ~compare
    <2>1. gate' = Ended(g, verdict)
      BY <1>3, <1>9
    <2>2. /\ IsGate(gate') /\ gate'.pc = "done" /\ gate'.verdict = verdict
          /\ gate'.exit = IF g.gated /\ verdict \in FAILS_WHEN_GATED THEN 1 ELSE 0
          /\ \A h \in Fields \ {"pc", "verdict", "exit"} : gate'[h] = g[h]
      BY <1>6, <2>1, EndedIs
    <2>3. /\ gate'.stated = stated /\ gate'.unanswered = problem /\ g.gated = gate.gated
          /\ \A h \in {"gated", "compares", "tag", "records", "lost", "now", "at", "ref"} : gate'[h] = gate[h]
      BY <1>7, <2>2 DEF Fields
    <2>4. gate'.verdict = Assess(gate.records, gate'.stated, gate'.unanswered)
      BY <2>2, <2>3 DEF verdict
    <2>5. gate'.stated = "other" /\ gate'.verdict # "moved" => ~gate.compares \/ gate'.unanswered
      BY <1>9, <2>2, <2>3
    <2>6. gate'.exit = IF gate.gated /\ gate'.verdict \in FAILS_WHEN_GATED THEN 1 ELSE 0
      BY <2>2, <2>3
    <2> HIDE DEF compare
    <2>7. QED
      BY <1>2, <2>2, <2>3, <2>4, <2>5, <2>6
  <1>10. QED
    BY <1>8, <1>9

\* Going back for an earlier release's file: none is left, or its turn comes.
LEMMA BackIs ==
    ASSUME NEW g, IsGate(g), NEW r, r = Back(g)
    PROVE  /\ IsGate(r)
           /\ \A h \in {"gated", "compares", "tag", "records", "stated", "lost", "now", "unanswered"} : r[h] = g[h]
           /\ \/ /\ NextEarlier(g) = 0 /\ r.pc = "done" /\ r.at = g.at /\ r.ref = g.ref
                 /\ r.verdict = CompareFiles(NoBlob, g.now)
                 /\ r.exit = IF g.gated /\ r.verdict \in FAILS_WHEN_GATED THEN 1 ELSE 0
              \/ /\ NextEarlier(g) # 0 /\ r.pc = "walk" /\ r.at = pinned[NextEarlier(g)].tag /\ r.ref = 1
                 /\ r.asked = g.asked \union {pinned[NextEarlier(g)].tag}
  <1>1. CASE NextEarlier(g) = 0
    <2> DEFINE verdict == CompareFiles(NoBlob, g.now)
    <2>1. r = Ended(g, verdict)
      BY <1>1 DEF Back
    <2> HIDE DEF verdict
    <2>2. /\ IsGate(r) /\ r.pc = "done" /\ r.verdict = verdict
          /\ r.exit = IF g.gated /\ verdict \in FAILS_WHEN_GATED THEN 1 ELSE 0
          /\ \A h \in Fields \ {"pc", "verdict", "exit"} : r[h] = g[h]
      BY <2>1, EndedIs
    <2>3. \A h \in {"gated", "compares", "tag", "records", "stated", "lost", "unanswered", "now", "at", "ref"} : r[h] = g[h]
      BY <2>2 DEF Fields
    <2>4. QED
      BY <1>1, <2>2, <2>3 DEF verdict
  <1>2. CASE NextEarlier(g) # 0
    <2> DEFINE tag == pinned[NextEarlier(g)].tag
               q == Ask(g, tag)
    <2>1. r = [q EXCEPT !.pc = "walk"]
      BY <1>2 DEF Back
    <2> HIDE DEF tag
    <2>2. IsGate(q) /\ q.at = tag /\ q.ref = 1 /\ q.asked = g.asked \union {tag}
      BY AskIs
    <2>3. \A h \in Fields \ {"at", "ref", "asked"} : q[h] = g[h]
      BY AskIs
    <2> HIDE DEF q
    <2>4. IsGate(r) /\ r.pc = "walk" /\ \A h \in Fields \ {"pc"} : r[h] = q[h]
      <3>1. "pc" \in Fields
        BY DEF Fields
      <3>2. QED
        BY <2>1, <2>2, <3>1, GateGoesOn
    <2>5. \A h \in {"gated", "compares", "tag", "records", "stated", "lost", "unanswered", "now"} : r[h] = g[h]
      BY <2>3, <2>4 DEF Fields
    <2>6. r.at = tag /\ r.ref = 1 /\ r.asked = g.asked \union {tag}
      BY <2>2, <2>4 DEF Fields
    <2>7. QED
      BY <1>2, <2>4, <2>5, <2>6 DEF tag
  <1>3. QED
    BY <1>1, <1>2

LEMMA AnsweredIs ==
    ASSUME NEW g, IsGate(g), NEW blob, NEW withdrawn \in BOOLEAN, NEW r, r = Answered(g, blob, withdrawn)
    PROVE  \/ g.pc # "now" /\ g.pc # "was" /\ withdrawn /\ r = Back(g)
           \/ /\ IsGate(r)
              /\ \A h \in {"gated", "compares", "tag", "records", "stated", "lost", "unanswered"} : r[h] = g[h]
              /\ \/ /\ g.pc = "now" /\ r.pc = "was" /\ r.now = blob
                    /\ r.at = Last(pinned).tag /\ r.ref = 1 /\ r.asked = g.asked \union {Last(pinned).tag}
                 \/ /\ g.pc # "now" /\ ~withdrawn /\ r.pc = "done" /\ r.now = g.now /\ r.at = g.at /\ r.ref = g.ref
                    /\ r.verdict = CompareFiles(blob, g.now)
                    /\ r.exit = IF g.gated /\ r.verdict \in FAILS_WHEN_GATED THEN 1 ELSE 0
                 \/ /\ g.pc = "was" /\ withdrawn /\ r.pc = "log"
                    /\ r.now = g.now /\ r.at = g.at /\ r.ref = g.ref /\ r.asked = g.asked
  <1>0. "pc" \in Fields /\ "now" \in Fields
    BY DEF Fields
  <1>1. CASE g.pc = "now"
    <2> DEFINE q == Ask(g, Last(pinned).tag)
               a == [q EXCEPT !.pc = "was"]
    <2>1. r = [a EXCEPT !.now = blob]
      BY <1>1 DEF Answered
    <2>2. IsGate(q) /\ q.at = Last(pinned).tag /\ q.ref = 1 /\ q.asked = g.asked \union {Last(pinned).tag}
      BY AskIs
    <2>3. \A h \in Fields \ {"at", "ref", "asked"} : q[h] = g[h]
      BY AskIs
    <2> HIDE DEF q
    <2>4. IsGate(a) /\ a.pc = "was" /\ \A h \in Fields \ {"pc"} : a[h] = q[h]
      BY <1>0, <2>2, GateGoesOn
    <2> HIDE DEF a
    <2>5. IsGate(r) /\ r.now = blob /\ \A h \in Fields \ {"now"} : r[h] = a[h]
      BY <1>0, <2>1, <2>4, GateGoesOn
    <2>6. \A h \in {"gated", "compares", "tag", "records", "stated", "lost", "unanswered"} : r[h] = g[h]
      BY <2>3, <2>4, <2>5 DEF Fields
    <2>7. r.pc = "was" /\ r.at = q.at /\ r.ref = q.ref /\ r.asked = q.asked
      BY <2>4, <2>5 DEF Fields
    <2>8. QED
      BY <1>1, <2>2, <2>5, <2>6, <2>7
  <1>2. CASE g.pc # "now" /\ ~withdrawn
    <2> DEFINE verdict == CompareFiles(blob, g.now)
    <2>1. r = Ended(g, verdict)
      BY <1>2 DEF Answered
    <2> HIDE DEF verdict
    <2>2. /\ IsGate(r) /\ r.pc = "done" /\ r.verdict = verdict
          /\ r.exit = IF g.gated /\ verdict \in FAILS_WHEN_GATED THEN 1 ELSE 0
          /\ \A h \in Fields \ {"pc", "verdict", "exit"} : r[h] = g[h]
      BY <2>1, EndedIs
    <2>3. \A h \in {"gated", "compares", "tag", "records", "stated", "lost", "unanswered", "now", "at", "ref"} : r[h] = g[h]
      BY <2>2 DEF Fields
    <2>4. QED
      BY <1>2, <2>2, <2>3 DEF verdict
  <1>3. CASE g.pc = "was" /\ withdrawn
    <2>1. r = [g EXCEPT !.pc = "log"]
      BY <1>3 DEF Answered
    <2>2. IsGate(r) /\ r.pc = "log" /\ \A h \in Fields \ {"pc"} : r[h] = g[h]
      BY <1>0, <2>1, GateGoesOn
    <2>3. \A h \in {"gated", "compares", "tag", "records", "stated", "lost", "unanswered", "now", "at", "ref", "asked"} : r[h] = g[h]
      BY <2>2 DEF Fields
    <2>4. QED
      BY <1>3, <2>2, <2>3
  <1>4. CASE g.pc # "now" /\ g.pc # "was" /\ withdrawn
    BY <1>4 DEF Answered
  <1>5. QED
    BY <1>1, <1>2, <1>3, <1>4

\* The file of the release it is at was found under the spelling asked for.
Found == gate.at \notin Unreadable /\ Spelled[gate.at] = REF_SPELLINGS[gate.ref]

LEMMA AfterFile ==
    ASSUME IsGate(gate), AskFile
    PROVE  /\ gate.pc \in {"now", "was", "walk"} /\ UNCHANGED <<upstream, pinned>>
           /\ \/ \E g : /\ IsGate(g) /\ g.unanswered = TRUE
                        /\ \A h \in Fields \ {"unanswered"} : g[h] = gate[h]
                        /\ gate' = Answered(g, NoBlob, FALSE)
              \/ Found /\ gate' = Answered(gate, file[gate.at], FALSE)
              \/ /\ ~Found /\ gate.ref < 3 /\ IsGate(gate') /\ gate'.ref = gate.ref + 1
                 /\ \A h \in Fields \ {"ref"} : gate'[h] = gate[h]
              \/ ~Found /\ ~(gate.ref < 3) /\ gate' = Answered(gate, NoBlob, TRUE)
  <1>1. /\ gate.pc \in {"now", "was", "walk"} /\ UNCHANGED <<upstream, pinned>>
        /\ \/ gate' = Answered([gate EXCEPT !.unanswered = TRUE], NoBlob, FALSE)
           \/ Found /\ gate' = Answered(gate, file[gate.at], FALSE)
           \/ ~Found /\ gate.ref < Len(REF_SPELLINGS) /\ gate' = [gate EXCEPT !.ref = gate.ref + 1]
           \/ ~Found /\ ~(gate.ref < Len(REF_SPELLINGS)) /\ gate' = Answered(gate, NoBlob, TRUE)
    BY DEF AskFile, Found
  <1>2. "unanswered" \in Fields /\ "ref" \in Fields /\ Len(REF_SPELLINGS) = 3
    BY DEF Fields, REF_SPELLINGS
  <1>3. ASSUME gate' = Answered([gate EXCEPT !.unanswered = TRUE], NoBlob, FALSE)
        PROVE  \E g : /\ IsGate(g) /\ g.unanswered = TRUE
                      /\ \A h \in Fields \ {"unanswered"} : g[h] = gate[h]
                      /\ gate' = Answered(g, NoBlob, FALSE)
    <2> DEFINE g == [gate EXCEPT !.unanswered = TRUE]
    <2>1. IsGate(g) /\ g.unanswered = TRUE /\ \A h \in Fields \ {"unanswered"} : g[h] = gate[h]
      BY <1>2, GateGoesOn
    <2>2. gate' = Answered(g, NoBlob, FALSE)
      BY <1>3
    <2> HIDE DEF g
    <2>3. QED
      BY <2>1, <2>2
  <1>4. ASSUME gate' = [gate EXCEPT !.ref = gate.ref + 1]
        PROVE  IsGate(gate') /\ gate'.ref = gate.ref + 1 /\ \A h \in Fields \ {"ref"} : gate'[h] = gate[h]
    <2> DEFINE next == gate.ref + 1
    <2>1. gate' = [gate EXCEPT !.ref = next]
      BY <1>4
    <2> HIDE DEF next
    <2>2. IsGate(gate') /\ gate'.ref = next /\ \A h \in Fields \ {"ref"} : gate'[h] = gate[h]
      BY <1>2, <2>1, GateGoesOn
    <2>3. QED
      BY <2>2 DEF next
  <1>5. QED
    BY <1>1, <1>2, <1>3, <1>4
-----------------------------------------------------------------------------
Pin == [tag: Tag, by: {"added", "named", "unchanged"}, lost: SUBSET Nat]
Kinds ==
    /\ file \in [Tag -> File \union {NoBlob}] /\ gone \subseteq Tag
    /\ pinned \in Seq(Pin)
    /\ IsGate(gate) /\ gate.tag \in Tag /\ gate.at \in Tag /\ gate.ref \in 1..3
    /\ gate.unanswered \in BOOLEAN /\ gate.lost \in SUBSET Nat

\* The walk back goes by all that main pinned after the pin of that place.
AllGoneAfter(m) == m \in DOMAIN pinned /\ \A k \in DOMAIN pinned : k > m => GoneBy(k, gate.lost)

\* A run asks about files only where it compares, one spelling after another of
\* one release after another, and goes past none that is there with a file.
Comparing ==
    gate.pc \in {"now", "was", "log", "walk"} =>
        /\ gate.compares /\ gate.gated /\ gate.stated = "other" /\ Assess(gate.records, "other", FALSE) # "moved"
        /\ \A r \in 1..3 : r < gate.ref => gate.at \in Unreadable \/ Spelled[gate.at] # REF_SPELLINGS[r]
Beginning ==
    /\ pinned = <<>> => gate.pc = "idle"
    /\ gate.pc = "stated" => (gate.compares => gate.gated)
    /\ gate.pc = "now" => gate.at = gate.tag /\ gate.asked = {} /\ ~gate.unanswered
GoingBack ==
    gate.pc \in {"was", "log", "walk"} =>
        /\ gate.now = NoBlob => gate.unanswered \/ gate.tag \in Unreadable
        /\ gate.now # NoBlob => gate.now = file[gate.tag] /\ ~gate.unanswered
        /\ \E m \in DOMAIN pinned : pinned[m].tag = gate.at /\ AllGoneAfter(m)
        /\ gate.asked \subseteq Unreadable \union {gate.at}
        /\ gate.pc \in {"was", "log"} => gate.at = Last(pinned).tag
        /\ gate.pc = "log" => gate.at \in Unreadable
Compared ==
    gate.pc = "done" /\ gate.verdict = "unchanged" =>
        /\ file[gate.tag] # NoBlob
        /\ \E m \in DOMAIN pinned : file[pinned[m].tag] = file[gate.tag] /\ AllGoneAfter(m)

LicenceInv == Kinds /\ Comparing /\ Beginning /\ GoingBack /\ Compared /\ GateBearsOut /\ NoFileUnread

LEMMA LicenceInvInit == GateInit => LicenceInv
  <1> SUFFICES ASSUME GateInit PROVE LicenceInv
    OBVIOUS
  <1>1. 1 \in Tag /\ 1 \in File
    BY LicenceAssumption DEF Tag, File
  <1>2. Kinds
    <2>1. IsGate(gate)
      BY IdleIsGate DEF GateInit
    <2>2. gate.tag = 1 /\ gate.at = 1 /\ gate.ref = 1 /\ gate.unanswered = FALSE /\ gate.lost = {}
      BY DEF GateInit, Idle
    <2>3. pinned \in Seq(Pin)
      BY DEF GateInit
    <2>4. file \in [Tag -> File \union {NoBlob}] /\ gone = {}
      BY <1>1 DEF GateInit
    <2>5. gate.unanswered \in BOOLEAN
      BY <2>2, Zenon
    <2>6. gate.ref \in 1..3
      <3>1. 1 \in 1..3
        OBVIOUS
      <3>2. QED
        BY <2>2, <3>1, Zenon
    <2>7. QED
      BY <1>1, <2>1, <2>2, <2>3, <2>4, <2>5, <2>6 DEF Kinds
  <1>3. gate.pc = "idle" /\ pinned = <<>> /\ Len(pinned) = 0
    BY DEF GateInit, Idle
  <1>4. QED
    BY <1>2, <1>3 DEF LicenceInv, Comparing, Beginning, GoingBack, Compared, GateBearsOut, NoFileUnread

\* Of the pins there are, some have a newest: the one with the fewest after it.
LEMMA NewestIsThere ==
    ASSUME NEW n \in Nat, NEW S \in SUBSET (1..n), S # {}
    PROVE  \E i \in S : \A j \in S : j <= i
  <1> DEFINE after == {n - i : i \in S}
  <1>1. after \subseteq Nat /\ after # {}
    <2>1. ASSUME NEW i \in S PROVE n - i \in Nat
      OBVIOUS
    <2>2. PICK i \in S : TRUE
      OBVIOUS
    <2>3. n - i \in after
      OBVIOUS
    <2>4. QED
      BY <2>1, <2>3
  <1>2. PICK least \in after : \A other \in after : <<other, least>> \notin OpToRel(<, Nat)
    <2>1. \E least \in after : \A other \in after : <<other, least>> \notin OpToRel(<, Nat)
      <3> HIDE DEF after
      <3> QED
        BY <1>1, NatLessThanWellFounded, WFMin, Zenon
    <2>2. QED
      BY <2>1, Zenon
  <1>3. \A other \in after : ~(other < least)
    <2> HIDE DEF after
    <2> QED
      BY <1>1, <1>2 DEF OpToRel
  <1>4. PICK i \in S : least = n - i
    OBVIOUS
  <1>5. ASSUME NEW j \in S PROVE j <= i
    <2>1. n - j \in after /\ i \in Int /\ j \in Int
      OBVIOUS
    <2>2. ~(n - j < n - i)
      BY <1>3, <1>4, <2>1
    <2>3. QED
      BY <2>1, <2>2
  <1>6. QED
    BY <1>5

\* The newest pin git shows and not asked about yet is newer than every other such one.
LEMMA NextEarlierIsNewest ==
    ASSUME Kinds, NEW g
    PROVE  IF NextEarlier(g) = 0 THEN \A i \in DOMAIN pinned : i \in g.lost \/ pinned[i].tag \in g.asked
           ELSE /\ NextEarlier(g) \in DOMAIN pinned
                /\ \A k \in DOMAIN pinned : k > NextEarlier(g) => k \in g.lost \/ pinned[k].tag \in g.asked
  <1> DEFINE left == {i \in DOMAIN pinned \ g.lost : pinned[i].tag \notin g.asked}
  <1>1. DOMAIN pinned = 1..Len(pinned) /\ Len(pinned) \in Nat
    BY DEF Kinds
  <1>2. CASE left = {}
    BY <1>2 DEF NextEarlier
  <1>3. CASE left # {}
    <2>1. \E i \in left : \A j \in left : j <= i
      <3>1. left \in SUBSET (1..Len(pinned))
        BY <1>1
      <3> HIDE DEF left
      <3>2. QED
        BY <1>1, <1>3, <3>1, NewestIsThere
    <2>2. NextEarlier(g) = CHOOSE i \in left : \A j \in left : j <= i
      BY <1>3 DEF NextEarlier
    <2>3. NextEarlier(g) \in left /\ \A j \in left : j <= NextEarlier(g)
      <3> HIDE DEF left
      <3>1. QED
        BY <2>1, <2>2
    <2>4. NextEarlier(g) # 0
      BY <1>1, <2>3
    <2>5. \A k \in DOMAIN pinned : k > NextEarlier(g) => k \notin left
      BY <1>1, <2>3
    <2>6. QED
      BY <2>3, <2>4, <2>5
  <1>4. QED
    BY <1>2, <1>3

\* What is found of a release under no spelling is withdrawn, or ships no file.
LEMMA UnderNoSpelling ==
    ASSUME Kinds, Comparing, gate.pc \in {"now", "was", "walk"}, ~Found, ~(gate.ref < 3)
    PROVE  gate.at \in Unreadable
  <1>1. gate.ref = 3 /\ gate.at \in Tag
    BY DEF Kinds
  <1>2. Spelled[gate.at] \in {REF_SPELLINGS[1], REF_SPELLINGS[2], REF_SPELLINGS[3]}
    <2>1. ToSet(REF_SPELLINGS) = {REF_SPELLINGS[1], REF_SPELLINGS[2], REF_SPELLINGS[3]}
      BY DEF REF_SPELLINGS, ToSet
    <2>2. QED
      BY <1>1, <2>1, LicenceAssumption
  <1>3. gate.at \notin Unreadable => Spelled[gate.at] # REF_SPELLINGS[1] /\ Spelled[gate.at] # REF_SPELLINGS[2]
    <2>1. \A r \in 1..3 : r < gate.ref => gate.at \in Unreadable \/ Spelled[gate.at] # REF_SPELLINGS[r]
      BY DEF Comparing
    <2>2. 1 \in 1..3 /\ 2 \in 1..3 /\ 1 < gate.ref /\ 2 < gate.ref
      BY <1>1
    <2>3. QED
      BY <2>1, <2>2
  <1>4. gate.at \in Unreadable \/ Spelled[gate.at] # REF_SPELLINGS[3]
    BY <1>1 DEF Found
  <1>5. QED
    BY <1>2, <1>3, <1>4
-----------------------------------------------------------------------------
\* While a run is on, main and upstream's files stand.
LEMMA RunStands ==
    ASSUME LicenceInv, UNCHANGED <<upstream, pinned>>, gate.pc \in {"now", "was", "log", "walk"}
    PROVE  /\ file' = file /\ gone' = gone /\ own' = own /\ pinned' = pinned /\ Unreadable' = Unreadable
           /\ Kinds /\ Comparing /\ Beginning /\ GoingBack /\ NoFileUnread'
           /\ pinned # <<>> /\ Len(pinned) \in Nat \ {0} /\ DOMAIN pinned = 1..Len(pinned)
           /\ \A i \in DOMAIN pinned : pinned[i].tag \in Tag
           /\ gate.compares /\ gate.gated /\ gate.stated = "other" /\ Assess(gate.records, "other", FALSE) # "moved"
           /\ own => gate.records = "own"
  <1>1. file' = file /\ gone' = gone /\ own' = own /\ pinned' = pinned /\ Unreadable' = Unreadable
    BY DEF upstream, Unreadable
  <1>2. Kinds /\ Comparing /\ Beginning /\ GoingBack /\ pinned # <<>> /\ pinned \in Seq(Pin)
    BY DEF LicenceInv, Beginning, Kinds
  <1>3. Len(pinned) \in Nat \ {0} /\ DOMAIN pinned = 1..Len(pinned) /\ \A i \in DOMAIN pinned : pinned[i] \in Pin
    BY <1>2
  <1>4. \A i \in DOMAIN pinned : pinned[i].tag \in Tag
    BY <1>3 DEF Pin
  <1>5. gate.compares /\ gate.gated /\ gate.stated = "other" /\ Assess(gate.records, "other", FALSE) # "moved"
    BY <1>2 DEF Comparing
  <1>6. own => gate.records = "own"
    BY <1>5 DEF Assess
  <1>7. NoFileUnread'
    BY <1>1 DEF LicenceInv, NoFileUnread, GoneBy
  <1>8. QED
    BY <1>1, <1>2, <1>3, <1>4, <1>5, <1>6, <1>7

\* Going back: nothing is left that can be read, or the newest that is asked for.
LEMMA BackKeeps ==
    ASSUME LicenceInv, UNCHANGED <<upstream, pinned>>, gate.pc \in {"log", "walk"}, gate.at \in Unreadable,
           NEW g, IsGate(g), g.lost \in SUBSET Nat, \A h \in Fields \ {"lost"} : g[h] = gate[h],
           g.lost = gate.lost \/ gate.pc = "log", gate' = Back(g)
    PROVE  LicenceInv'
  <1>1. /\ file' = file /\ gone' = gone /\ own' = own /\ pinned' = pinned /\ Unreadable' = Unreadable
        /\ Kinds /\ Comparing /\ Beginning /\ GoingBack /\ NoFileUnread'
        /\ pinned # <<>> /\ Len(pinned) \in Nat \ {0} /\ DOMAIN pinned = 1..Len(pinned)
        /\ \A i \in DOMAIN pinned : pinned[i].tag \in Tag
        /\ gate.compares /\ gate.gated /\ gate.stated = "other" /\ Assess(gate.records, "other", FALSE) # "moved"
        /\ own => gate.records = "own"
    BY RunStands
  <1>2. /\ g.pc = gate.pc /\ g.now = gate.now /\ g.at = gate.at /\ g.ref = gate.ref /\ g.asked = gate.asked
        /\ \A h \in {"gated", "compares", "tag", "records", "stated", "unanswered"} : g[h] = gate[h]
    BY DEF Fields
  <1>3. /\ IsGate(gate') /\ gate'.lost = g.lost /\ gate'.now = gate.now
        /\ \A h \in {"gated", "compares", "tag", "records", "stated", "unanswered"} : gate'[h] = gate[h]
    BY <1>2, BackIs
  <1>4. /\ gate.now = NoBlob => gate.unanswered \/ gate.tag \in Unreadable
        /\ gate.now # NoBlob => gate.now = file[gate.tag] /\ ~gate.unanswered
        /\ gate.asked \subseteq Unreadable \union {gate.at}
    BY <1>1 DEF GoingBack
  <1>5. gate.asked \subseteq Unreadable
    BY <1>4
  <1>6. ASSUME NextEarlier(g) = 0, gate'.pc = "done", gate'.at = gate.at, gate'.ref = gate.ref,
               gate'.verdict = CompareFiles(NoBlob, gate.now),
               gate'.exit = IF gate.gated /\ gate'.verdict \in FAILS_WHEN_GATED THEN 1 ELSE 0
        PROVE  LicenceInv'
    <2>1. Kinds'
      BY <1>1, <1>3, <1>6 DEF Kinds
    <2>2. Comparing' /\ Beginning' /\ GoingBack'
      BY <1>1, <1>6 DEF Comparing, Beginning, GoingBack
    <2>3. gate'.verdict = "unstated"
      BY <1>6 DEF CompareFiles
    <2>4. Compared'
      BY <2>3 DEF Compared
    <2>5. \A i \in DOMAIN pinned : i \in g.lost \/ pinned[i].tag \in g.asked
      BY <1>1, <1>6, NextEarlierIsNewest
    <2>6. Wanting'
      <3>1. \A i \in DOMAIN pinned : GoneBy(i, gate.lost)'
        BY <1>1, <1>2, <1>3, <1>5, <2>5 DEF GoneBy
      <3>2. QED
        BY <1>1, <3>1 DEF Wanting
    <2>7. gate'.exit = 1 /\ gate'.gated
      BY <1>1, <1>3, <1>6, <2>3 DEF FAILS_WHEN_GATED
    <2>8. GateBearsOut'
      BY <2>6, <2>7 DEF GateBearsOut
    <2>9. QED
      BY <1>1, <2>1, <2>2, <2>4, <2>8 DEF LicenceInv
  <1>7. ASSUME NextEarlier(g) # 0, gate'.pc = "walk", gate'.at = pinned[NextEarlier(g)].tag, gate'.ref = 1,
               gate'.asked = gate.asked \union {pinned[NextEarlier(g)].tag}
        PROVE  LicenceInv'
    <2>1. PICK n \in DOMAIN pinned :
              /\ n = NextEarlier(g)
              /\ \A k \in DOMAIN pinned : k > n => k \in g.lost \/ pinned[k].tag \in g.asked
      BY <1>1, <1>7, NextEarlierIsNewest
    <2>2. gate'.at = pinned[n].tag /\ gate'.asked = gate.asked \union {gate'.at}
      BY <1>7, <2>1
    <2>3. AllGoneAfter(n)'
      <3>1. \A k \in DOMAIN pinned : k > n => GoneBy(k, gate.lost)'
        BY <1>1, <1>2, <1>3, <1>5, <2>1 DEF GoneBy
      <3>2. QED
        BY <1>1, <3>1 DEF AllGoneAfter
    <2>4. Kinds'
      <3>1. gate'.at \in Tag /\ gate'.ref \in 1..3 /\ gate'.tag \in Tag
        BY <1>1, <1>3, <1>7, <2>1, <2>2 DEF Kinds
      <3>2. QED
        BY <1>1, <1>3, <3>1 DEF Kinds
    <2>5. Comparing'
      BY <1>1, <1>3, <1>7 DEF Comparing, Assess
    <2>6. GoingBack'
      BY <1>1, <1>3, <1>4, <1>5, <1>7, <2>1, <2>2, <2>3 DEF GoingBack
    <2>7. Beginning' /\ Compared' /\ GateBearsOut'
      BY <1>1, <1>7 DEF Beginning, Compared, GateBearsOut
    <2>8. QED
      BY <1>1, <2>4, <2>5, <2>6, <2>7 DEF LicenceInv
  <1>8. QED
    BY <1>2, <1>6, <1>7, BackIs

LEMMA LostIs ==
    ASSUME NEW g, IsGate(g), NEW v
    PROVE  \E r : /\ r = [g EXCEPT !.lost = v] /\ IsGate(r) /\ r.lost = v
                  /\ \A h \in Fields \ {"lost"} : r[h] = g[h]
  <1> DEFINE r == [g EXCEPT !.lost = v]
  <1>1. IsGate(r) /\ r.lost = v /\ \A h \in Fields \ {"lost"} : r[h] = g[h]
    <2>1. "lost" \in Fields
      BY DEF Fields
    <2>2. QED
      BY <2>1, GateGoesOn
  <1> HIDE DEF r
  <1>2. r = [g EXCEPT !.lost = v]
    BY DEF r
  <1>3. QED
    BY <1>1, <1>2

LEMMA LogKeeps ==
    ASSUME LicenceInv, ReadLog
    PROVE  LicenceInv'
  <1>1. gate.pc = "log" /\ UNCHANGED <<upstream, pinned>> /\ IsGate(gate) /\ gate.at \in Unreadable /\ Len(pinned) \in Nat
    BY DEF LicenceInv, Kinds, GoingBack, ReadLog
  <1>2. PICK missed \in SUBSET (1..(Len(pinned) - 1)) : gate' = Back([gate EXCEPT !.lost = missed])
    BY DEF ReadLog
  <1>3. missed \in SUBSET Nat
    BY <1>1
  <1>4. \E g : IsGate(g) /\ g.lost = missed /\ (\A h \in Fields \ {"lost"} : g[h] = gate[h]) /\ gate' = Back(g)
    <2>1. IsGate(gate)
      BY <1>1
    <2>2. \E r : /\ r = [gate EXCEPT !.lost = missed] /\ IsGate(r) /\ r.lost = missed
                 /\ \A h \in Fields \ {"lost"} : r[h] = gate[h]
      BY <2>1, LostIs, Zenon
    <2>3. QED
      BY <1>2, <2>2
  <1>5. QED
    BY <1>1, <1>3, <1>4, BackKeeps

\* An answer about a file: none, the file, or that there is none to read.
LEMMA AnswerKeeps ==
    ASSUME LicenceInv, UNCHANGED <<upstream, pinned>>, gate.pc \in {"now", "was", "walk"},
           NEW g, IsGate(g), \A h \in Fields \ {"unanswered"} : g[h] = gate[h], g.unanswered \in BOOLEAN,
           NEW blob, NEW withdrawn \in BOOLEAN, gate' = Answered(g, blob, withdrawn),
           g.unanswered # gate.unanswered => g.unanswered,
           \/ blob = NoBlob /\ ~withdrawn /\ g.unanswered
           \/ blob = file[gate.at] /\ blob # NoBlob /\ ~withdrawn /\ g = gate
           \/ blob = NoBlob /\ withdrawn /\ gate.at \in Unreadable /\ g = gate
    PROVE  LicenceInv'
  <1>1. /\ file' = file /\ gone' = gone /\ own' = own /\ pinned' = pinned /\ Unreadable' = Unreadable
        /\ Kinds /\ Comparing /\ Beginning /\ GoingBack /\ NoFileUnread'
        /\ pinned # <<>> /\ Len(pinned) \in Nat \ {0} /\ DOMAIN pinned = 1..Len(pinned)
        /\ \A i \in DOMAIN pinned : pinned[i].tag \in Tag
        /\ gate.compares /\ gate.gated /\ gate.stated = "other" /\ Assess(gate.records, "other", FALSE) # "moved"
        /\ own => gate.records = "own"
    BY RunStands
  <1>2. /\ g.pc = gate.pc /\ g.now = gate.now /\ g.at = gate.at /\ g.ref = gate.ref /\ g.asked = gate.asked
        /\ \A h \in {"gated", "compares", "tag", "records", "stated", "lost"} : g[h] = gate[h]
    BY DEF Fields
  <1>3. CASE gate.pc # "now" /\ gate.pc # "was" /\ withdrawn /\ gate' = Back(g)
    <2>1. gate.pc = "walk" /\ gate.at \in Unreadable /\ g = gate
      BY <1>3
    <2>2. gate.lost \in SUBSET Nat
      BY <1>1 DEF Kinds
    <2>3. QED
      BY <1>3, <2>1, <2>2, BackKeeps
  <1>4. ASSUME IsGate(gate'),
               \A h \in {"gated", "compares", "tag", "records", "stated", "lost", "unanswered"} : gate'[h] = g[h],
               \/ /\ gate.pc = "now" /\ gate'.pc = "was" /\ gate'.now = blob
                  /\ gate'.at = Last(pinned).tag /\ gate'.ref = 1 /\ gate'.asked = gate.asked \union {Last(pinned).tag}
               \/ /\ gate.pc # "now" /\ ~withdrawn /\ gate'.pc = "done"
                  /\ gate'.now = gate.now /\ gate'.at = gate.at /\ gate'.ref = gate.ref
                  /\ gate'.verdict = CompareFiles(blob, gate.now)
                  /\ gate'.exit = IF gate.gated /\ gate'.verdict \in FAILS_WHEN_GATED THEN 1 ELSE 0
               \/ /\ gate.pc = "was" /\ withdrawn /\ gate'.pc = "log"
                  /\ gate'.now = gate.now /\ gate'.at = gate.at /\ gate'.ref = gate.ref /\ gate'.asked = gate.asked
        PROVE  LicenceInv'
    <2>1. /\ \A h \in {"gated", "compares", "tag", "records", "stated", "lost"} : gate'[h] = gate[h]
          /\ gate'.unanswered = g.unanswered /\ gate'.lost \in SUBSET Nat
      BY <1>1, <1>2, <1>4 DEF Kinds
    <2>2. \A m : AllGoneAfter(m)' <=> AllGoneAfter(m)
      BY <1>1, <2>1 DEF AllGoneAfter, GoneBy
    <2>3. ASSUME gate.pc = "now", gate'.pc = "was", gate'.now = blob, gate'.at = Last(pinned).tag, gate'.ref = 1,
                 gate'.asked = gate.asked \union {Last(pinned).tag}
          PROVE  LicenceInv'
      <3>1. /\ Len(pinned) \in DOMAIN pinned /\ pinned[Len(pinned)].tag = gate'.at /\ gate'.at = Last(pinned).tag
            /\ AllGoneAfter(Len(pinned))
        BY <1>1, <2>3 DEF Last, AllGoneAfter
      <3>2. Kinds'
        <4>1. gate'.at \in Tag /\ gate'.ref \in 1..3 /\ gate'.tag \in Tag
          BY <1>1, <2>1, <2>3, <3>1 DEF Kinds
        <4>2. QED
          BY <1>1, <1>4, <2>1, <4>1 DEF Kinds
      <3>3. Comparing'
        BY <1>1, <2>1, <2>3 DEF Comparing, Assess
      <3>4. gate.at = gate.tag /\ gate.asked = {} /\ ~gate.unanswered
        BY <1>1, <2>3 DEF Beginning
      <3>5. GoingBack'
        <4>1. gate'.now = NoBlob => gate'.unanswered \/ gate'.tag \in Unreadable
          BY <2>1, <2>3, <3>4
        <4>2. gate'.now # NoBlob => gate'.now = file[gate'.tag] /\ ~gate'.unanswered
          BY <2>1, <2>3, <3>4
        <4>3. gate'.asked \subseteq Unreadable \union {gate'.at}
          BY <2>3, <3>4
        <4>4. \E m \in DOMAIN pinned : pinned[m].tag = gate'.at /\ AllGoneAfter(m)
          BY <3>1
        <4>5. QED
          BY <1>1, <2>2, <2>3, <3>1, <4>1, <4>2, <4>3, <4>4 DEF GoingBack
      <3>6. Beginning' /\ Compared' /\ GateBearsOut'
        BY <1>1, <2>3 DEF Beginning, Compared, GateBearsOut
      <3>7. QED
        BY <1>1, <3>2, <3>3, <3>5, <3>6 DEF LicenceInv
    <2>4. ASSUME gate.pc = "was", withdrawn, gate'.pc = "log",
                 gate'.now = gate.now, gate'.at = gate.at, gate'.ref = gate.ref, gate'.asked = gate.asked
          PROVE  LicenceInv'
      <3>1. gate.at \in Unreadable /\ gate'.unanswered = gate.unanswered
        BY <2>1, <2>4
      <3>2. Kinds'
        BY <1>1, <1>4, <2>1, <2>4, <3>1 DEF Kinds
      <3>3. Comparing'
        BY <1>1, <2>1, <2>4 DEF Comparing, Assess
      <3>4. GoingBack'
        <4>1. /\ gate.now = NoBlob => gate.unanswered \/ gate.tag \in Unreadable
              /\ gate.now # NoBlob => gate.now = file[gate.tag] /\ ~gate.unanswered
              /\ gate.asked \subseteq Unreadable \union {gate.at}
              /\ gate.at = Last(pinned).tag
          BY <1>1, <2>4 DEF GoingBack
        <4>2. PICK m \in DOMAIN pinned : pinned[m].tag = gate.at /\ AllGoneAfter(m)
          BY <1>1, <2>4 DEF GoingBack
        <4>3. pinned[m].tag = gate'.at /\ AllGoneAfter(m)'
          BY <2>2, <2>4, <4>2
        <4>4. gate'.tag = gate.tag /\ gate'.unanswered = gate.unanswered
          BY <2>1, <3>1
        <4>5. gate'.at \in Unreadable
          BY <2>4, <3>1
        <4>6. QED
          BY <1>1, <2>4, <4>1, <4>3, <4>4, <4>5 DEF GoingBack
      <3>5. Beginning' /\ Compared' /\ GateBearsOut'
        BY <1>1, <2>4 DEF Beginning, Compared, GateBearsOut
      <3>6. QED
        BY <1>1, <3>2, <3>3, <3>4, <3>5 DEF LicenceInv
    <2>5. ASSUME gate.pc # "now", ~withdrawn, gate'.pc = "done",
                 gate'.now = gate.now, gate'.at = gate.at, gate'.ref = gate.ref,
                 gate'.verdict = CompareFiles(blob, gate.now),
                 gate'.exit = IF gate.gated /\ gate'.verdict \in FAILS_WHEN_GATED THEN 1 ELSE 0
          PROVE  LicenceInv'
      <3>1. Kinds'
        BY <1>1, <1>4, <2>1, <2>5 DEF Kinds
      <3>2. Comparing' /\ Beginning' /\ GoingBack'
        BY <1>1, <2>5 DEF Comparing, Beginning, GoingBack
      <3>3. PICK m \in DOMAIN pinned : pinned[m].tag = gate.at /\ AllGoneAfter(m)
        BY <1>1, <2>5 DEF GoingBack
      <3>4. /\ gate.now = NoBlob => gate.unanswered \/ gate.tag \in Unreadable
            /\ gate.now # NoBlob => gate.now = file[gate.tag] /\ ~gate.unanswered
        BY <1>1, <2>5 DEF GoingBack
      <3>5. gate'.verdict \in {"unchanged", "unstated"}
        BY <2>5 DEF CompareFiles
      <3>6. gate'.verdict = "unchanged" =>
              blob = file[gate.at] /\ blob = gate.now /\ gate.now # NoBlob /\ g = gate
        BY <2>5 DEF CompareFiles
      <3>7. Compared'
        BY <1>1, <2>1, <2>2, <3>3, <3>4, <3>6 DEF Compared
      <3>8. gate'.exit = 0 => Cleared'
        <4>1. gate'.exit = 0 => gate'.verdict = "unchanged"
          BY <1>1, <2>5, <3>5 DEF FAILS_WHEN_GATED
        <4>2. QED
          BY <1>1, <2>1, <2>5, <3>4, <3>6, <4>1 DEF Cleared
      <3>9. gate'.exit = 1 => Wanting'
        <4>1. CASE blob = NoBlob /\ g.unanswered
          BY <2>1, <4>1 DEF Wanting
        <4>2. CASE blob = file[gate.at] /\ g = gate
          <5>1. CASE gate.now = NoBlob
            BY <1>1, <2>1, <3>4, <4>2, <5>1 DEF Wanting
          <5>2. CASE gate.now # NoBlob /\ gate.now = blob
            <6>1. gate'.verdict = "unchanged"
              BY <2>5, <4>2, <5>2 DEF CompareFiles
            <6>2. QED
              BY <2>5, <6>1 DEF FAILS_WHEN_GATED
          <5>3. CASE gate.now # NoBlob /\ gate.now # blob
            <6>1. file[pinned[m].tag] # file[gate.tag]
              BY <3>3, <3>4, <4>2, <5>3
            <6>2. \A k \in (m + 1)..Len(pinned) : GoneBy(k, gate.lost)'
              BY <1>1, <2>1, <3>3 DEF AllGoneAfter, GoneBy
            <6>3. QED
              BY <1>1, <2>1, <6>1, <6>2 DEF Wanting
          <5>4. QED
            BY <5>1, <5>2, <5>3
        <4>3. QED
          BY <2>5, <4>1, <4>2
      <3>10. GateBearsOut'
        BY <1>1, <2>1, <3>8, <3>9 DEF GateBearsOut
      <3>11. QED
        BY <1>1, <3>1, <3>2, <3>7, <3>10 DEF LicenceInv
    <2>6. QED
      BY <1>4, <2>3, <2>4, <2>5
  <1>5. QED
    BY <1>2, <1>3, <1>4, AnsweredIs

LEMMA FileKeeps ==
    ASSUME LicenceInv, AskFile
    PROVE  LicenceInv'
  <1>1. IsGate(gate) /\ Kinds /\ Comparing /\ gate.unanswered \in BOOLEAN
    BY DEF LicenceInv, Kinds
  <1>2. gate.pc \in {"now", "was", "walk"} /\ UNCHANGED <<upstream, pinned>>
    BY <1>1, AfterFile
  <1>3. ASSUME NEW g, IsGate(g), g.unanswered = TRUE, \A h \in Fields \ {"unanswered"} : g[h] = gate[h],
               gate' = Answered(g, NoBlob, FALSE)
        PROVE  LicenceInv'
    <2>1. g.unanswered \in BOOLEAN /\ g.unanswered
      BY <1>3, Zenon
    <2>2. FALSE \in BOOLEAN
      OBVIOUS
    <2>3. QED
      BY <1>2, <1>3, <2>1, <2>2, AnswerKeeps
  <1>4. CASE Found /\ gate' = Answered(gate, file[gate.at], FALSE)
    <2>1. FALSE \in BOOLEAN
      OBVIOUS
    <2>2. file[gate.at] # NoBlob
      BY <1>1, <1>4 DEF Found, Unreadable, Kinds
    <2>3. QED
      BY <1>1, <1>2, <1>4, <2>1, <2>2, AnswerKeeps
  <1>5. CASE ~Found /\ ~(gate.ref < 3) /\ gate' = Answered(gate, NoBlob, TRUE)
    <2>1. TRUE \in BOOLEAN
      OBVIOUS
    <2>2. gate.at \in Unreadable
      BY <1>1, <1>2, <1>5, UnderNoSpelling
    <2>3. QED
      BY <1>1, <1>2, <1>5, <2>1, <2>2, AnswerKeeps
  <1>6. ASSUME ~Found, gate.ref < 3, IsGate(gate'), gate'.ref = gate.ref + 1,
               \A h \in Fields \ {"ref"} : gate'[h] = gate[h]
        PROVE  LicenceInv'
    <2>1. file' = file /\ gone' = gone /\ own' = own /\ pinned' = pinned /\ Unreadable' = Unreadable
      BY <1>2 DEF upstream, Unreadable
    <2>2. /\ gate'.pc = gate.pc /\ gate'.gated = gate.gated /\ gate'.compares = gate.compares
          /\ gate'.tag = gate.tag /\ gate'.records = gate.records /\ gate'.stated = gate.stated
          /\ gate'.asked = gate.asked /\ gate'.at = gate.at /\ gate'.now = gate.now /\ gate'.lost = gate.lost
          /\ gate'.unanswered = gate.unanswered
      BY <1>6 DEF Fields
    <2>3. Kinds'
      <3>1. gate'.ref \in 1..3
        BY <1>1, <1>6 DEF Kinds
      <3>2. QED
        BY <1>1, <1>6, <2>1, <2>2, <3>1 DEF Kinds
    <2>4. Comparing'
      <3>1. gate.ref \in 1..3
        BY <1>1 DEF Kinds
      <3>2. \A r \in 1..3 : r < gate.ref + 1 => r < gate.ref \/ r = gate.ref
        BY <3>1
      <3>3. gate.at \in Unreadable \/ Spelled[gate.at] # REF_SPELLINGS[gate.ref]
        BY <1>6 DEF Found
      <3>4. \A r \in 1..3 : r < gate.ref => gate.at \in Unreadable \/ Spelled[gate.at] # REF_SPELLINGS[r]
        BY <1>1, <1>2 DEF Comparing
      <3>5. \A r \in 1..3 : r < gate'.ref => gate'.at \in Unreadable \/ Spelled[gate'.at] # REF_SPELLINGS[r]
        BY <1>6, <2>2, <3>2, <3>3, <3>4
      <3>6. QED
        BY <1>1, <1>2, <2>1, <2>2, <3>5 DEF Comparing, Assess
    <2>5. GoingBack'
      <3>1. \A m : AllGoneAfter(m)' <=> AllGoneAfter(m)
        BY <2>1, <2>2 DEF AllGoneAfter, GoneBy
      <3>2. GoingBack
        BY DEF LicenceInv
      <3>3. QED
        BY <2>1, <2>2, <3>1, <3>2 DEF GoingBack
    <2>6. Beginning'
      BY <2>1, <2>2 DEF LicenceInv, Beginning
    <2>7. Compared' /\ GateBearsOut'
      BY <1>2, <2>2 DEF Compared, GateBearsOut
    <2>8. NoFileUnread'
      BY <2>1 DEF LicenceInv, NoFileUnread, GoneBy
    <2>9. QED
      BY <2>3, <2>4, <2>5, <2>6, <2>7, <2>8 DEF LicenceInv
  <1>7. QED
    BY <1>1, <1>3, <1>4, <1>5, <1>6, AfterFile

LEMMA StatedKeeps ==
    ASSUME LicenceInv, AskStated
    PROVE  LicenceInv'
  <1>1. IsGate(gate) /\ Kinds /\ Beginning /\ gate.tag \in Tag /\ gate.at \in Tag /\ gate.ref \in 1..3
    BY DEF LicenceInv, Kinds
  <1>2. /\ gate.pc = "stated" /\ IsGate(gate') /\ UNCHANGED <<upstream, pinned>>
        /\ gate'.stated \in Stated /\ gate'.unanswered \in BOOLEAN
        /\ gate'.gated = gate.gated /\ gate'.compares = gate.compares /\ gate'.tag = gate.tag
        /\ gate'.records = gate.records /\ gate'.lost = gate.lost
    BY <1>1, AfterStated
  <1>3. file' = file /\ gone' = gone /\ own' = own /\ pinned' = pinned /\ Unreadable' = Unreadable
    BY <1>2 DEF upstream, Unreadable
  <1>4. NoFileUnread'
    BY <1>3 DEF LicenceInv, NoFileUnread, GoneBy
  <1>5. ASSUME gate'.pc = "now", gate.compares, gate'.stated = "other", ~gate'.unanswered,
               Assess(gate.records, "other", FALSE) # "moved",
               gate'.at = gate.tag, gate'.ref = 1, gate'.asked = {}
        PROVE  LicenceInv'
    <2>1. Kinds'
      <3>1. gate'.ref \in 1..3
        BY <1>5
      <3>2. gate'.at \in Tag /\ gate'.tag \in Tag
        BY <1>1, <1>2, <1>5
      <3>3. QED
        BY <1>1, <1>2, <1>3, <3>1, <3>2 DEF Kinds
    <2>2. Comparing'
      <3>1. gate.gated
        BY <1>1, <1>2, <1>5 DEF Beginning
      <3>2. \A r \in 1..3 : ~(r < gate'.ref)
        BY <1>5
      <3>3. QED
        BY <1>2, <1>3, <1>5, <3>1, <3>2 DEF Comparing, Assess
    <2>3. Beginning'
      BY <1>1, <1>2, <1>3, <1>5 DEF Beginning
    <2>4. GoingBack' /\ Compared' /\ GateBearsOut'
      BY <1>5 DEF GoingBack, Compared, GateBearsOut
    <2>5. QED
      BY <1>4, <2>1, <2>2, <2>3, <2>4 DEF LicenceInv
  <1>6. ASSUME gate'.pc = "done", gate'.at = gate.at, gate'.ref = gate.ref,
               gate'.verdict = Assess(gate.records, gate'.stated, gate'.unanswered),
               gate'.stated = "other" /\ gate'.verdict # "moved" => ~gate.compares \/ gate'.unanswered,
               gate'.exit = IF gate.gated /\ gate'.verdict \in FAILS_WHEN_GATED THEN 1 ELSE 0
        PROVE  LicenceInv'
    <2>1. Kinds'
      BY <1>1, <1>2, <1>3, <1>6 DEF Kinds
    <2>2. Comparing' /\ GoingBack' /\ Beginning'
      BY <1>1, <1>2, <1>3, <1>6 DEF Comparing, GoingBack, Beginning
    <2>3. Compared'
      BY <1>6 DEF Compared, Assess
    <2>4. gate'.stated \in DOMAIN Key \/ gate'.stated = "other" \/ gate'.stated = "nothing"
      BY <1>2 DEF Stated
    <2>5. gate'.verdict \notin FAILS_WHEN_GATED => Cleared'
      BY <1>2, <1>3, <1>6, <2>4 DEF Assess, FAILS_WHEN_GATED, Cleared
    <2>6. gate'.verdict \in FAILS_WHEN_GATED => Wanting'
      <3>1. CASE gate'.unanswered \/ gate'.stated = "nothing" \/ (own /\ gate.records # "own")
        BY <1>2, <1>3, <3>1 DEF Wanting
      <3>2. CASE gate'.stated = "other"
        BY <1>2, <1>3, <1>6, <3>2 DEF Wanting, Assess
      <3>3. CASE gate'.stated \in DOMAIN Key /\ gate'.stated # "other" /\ gate'.stated # "nothing" /\ ~gate'.unanswered /\ ~(own /\ gate.records # "own")
        BY <1>2, <1>3, <1>6, <3>3 DEF Wanting, Assess, FAILS_WHEN_GATED
      <3>4. QED
        BY <2>4, <3>1, <3>2, <3>3, Zenon
    <2>7. GateBearsOut'
      <3>1. gate'.exit = 0 /\ gate'.gated => gate'.verdict \notin FAILS_WHEN_GATED
        BY <1>2, <1>6
      <3>2. gate'.exit = 1 => gate'.gated /\ gate'.verdict \in FAILS_WHEN_GATED
        BY <1>2, <1>6
      <3>3. QED
        BY <2>5, <2>6, <3>1, <3>2 DEF GateBearsOut
    <2>8. QED
      BY <1>4, <2>1, <2>2, <2>3, <2>7 DEF LicenceInv
  <1>7. QED
    BY <1>1, <1>5, <1>6, AfterStated

LEMMA StartKeeps ==
    ASSUME LicenceInv, Start
    PROVE  LicenceInv'
  <1>1. /\ Kinds /\ pinned # <<>> /\ UNCHANGED <<upstream, pinned>>
        /\ IsGate(gate') /\ gate'.tag \in Tag /\ gate'.at = 1 /\ gate'.ref = 1 /\ gate'.unanswered = FALSE
        /\ gate'.lost = {}
        /\ \/ gate'.pc = "stated" /\ (gate'.compares => gate'.gated)
           \/ gate'.pc = "done" /\ gate'.verdict = "none" /\ gate'.exit = 2
    BY AfterStart DEF LicenceInv
  <1>2. file' = file /\ gone' = gone /\ own' = own /\ pinned' = pinned
    BY <1>1 DEF upstream
  <1>3. Kinds'
    <2>1. 1 \in Tag /\ 1 \in 1..3
      BY LicenceAssumption DEF Tag
    <2>2. gate'.unanswered \in BOOLEAN
      BY <1>1, Zenon
    <2>3. gate'.at \in Tag /\ gate'.ref \in 1..3
      BY <1>1, <2>1
    <2>4. QED
      BY <1>1, <1>2, <2>2, <2>3 DEF Kinds
  <1>4. Comparing' /\ GoingBack' /\ Beginning'
    BY <1>1, <1>2 DEF Comparing, GoingBack, Beginning
  <1>5. gate'.pc = "done" => gate'.verdict = "none" /\ gate'.exit = 2
    BY <1>1
  <1>6. Compared' /\ GateBearsOut'
    BY <1>5 DEF Compared, GateBearsOut
  <1>7. NoFileUnread'
    BY <1>2 DEF LicenceInv, NoFileUnread, GoneBy, Unreadable
  <1>8. QED
    BY <1>3, <1>4, <1>6, <1>7 DEF LicenceInv

\* With no run there is nothing to say of one.
LEMMA NoRun ==
    ASSUME Kinds', NoFileUnread', gate'.pc = "idle"
    PROVE  LicenceInv'
  BY DEF LicenceInv, Comparing, Beginning, GoingBack, Compared, GateBearsOut

LEMMA AdmitKeeps ==
    ASSUME LicenceInv, Admit
    PROVE  LicenceInv'
  <1>1. gate' = gate /\ gate.pc = "idle" /\ Kinds
    BY DEF LicenceInv, Beginning, Admit
  <1>2. PICK t \in Tag : pinned' = <<[tag |-> t, by |-> "added", lost |-> {}]>>
    BY DEF Admit
  <1>3. pinned' \in Seq(Pin) /\ Len(pinned') = 1
    BY <1>2 DEF Pin
  <1>4. Kinds'
    BY <1>1, <1>3 DEF Kinds, Admit
  <1>5. NoFileUnread'
    BY <1>3 DEF NoFileUnread
  <1>6. QED
    BY <1>1, <1>4, <1>5, NoRun

LEMMA WithdrawKeeps ==
    ASSUME LicenceInv, Withdraw
    PROVE  LicenceInv'
  <1>1. /\ gone \subseteq gone' /\ gone' \subseteq Tag /\ Unreadable \subseteq Unreadable'
        /\ file' = file /\ own' = own /\ pinned' = pinned /\ gate' = gate
    BY DEF LicenceInv, Kinds, Withdraw, Unreadable
  <1>2. Kinds'
    BY <1>1 DEF LicenceInv, Kinds
  <1>3. Comparing'
    BY <1>1 DEF LicenceInv, Comparing, Assess
  <1>4. Beginning'
    BY <1>1 DEF LicenceInv, Beginning
  <1>5. \A m : AllGoneAfter(m) => AllGoneAfter(m)'
    BY <1>1 DEF AllGoneAfter, GoneBy
  <1>6. GoingBack'
    BY <1>1, <1>5 DEF LicenceInv, GoingBack
  <1>7. Compared'
    BY <1>1, <1>5 DEF LicenceInv, Compared
  <1>8. GateBearsOut'
    <2>1. Cleared => Cleared'
      BY <1>1 DEF Cleared
    <2>2. Wanting => Wanting'
      BY <1>1 DEF Wanting, GoneBy
    <2>3. QED
      BY <1>1, <2>1, <2>2 DEF LicenceInv, GateBearsOut
  <1>9. NoFileUnread'
    BY <1>1 DEF LicenceInv, NoFileUnread, GoneBy
  <1>10. QED
    BY <1>2, <1>3, <1>4, <1>6, <1>7, <1>8, <1>9 DEF LicenceInv

LEMMA TakeKeeps ==
    ASSUME LicenceInv, Take
    PROVE  LicenceInv'
  <1>1. /\ gate' = Idle /\ gate'.pc = "idle" /\ IsGate(gate')
        /\ gate'.tag = 1 /\ gate'.at = 1 /\ gate'.ref = 1 /\ gate'.unanswered = FALSE /\ gate'.lost = {}
    BY IdleIsGate DEF Take, Idle
  <1>2. /\ gate.pc = "done" /\ file' = file /\ gone' = gone /\ Unreadable' = Unreadable
        /\ Kinds /\ NoFileUnread /\ Compared
    BY DEF LicenceInv, Take, upstream, Unreadable
  <1>3. pinned \in Seq(Pin) /\ Len(pinned) \in Nat /\ DOMAIN pinned = 1..Len(pinned)
    BY <1>2 DEF Kinds
  <1> DEFINE pin == IF gate.verdict = "unchanged" THEN [tag |-> gate.tag, by |-> "unchanged", lost |-> gate.lost]
                    ELSE [tag |-> gate.tag, by |-> "named", lost |-> {}]
  <1>4. pin \in Pin /\ pin.tag = gate.tag
    BY <1>2 DEF Kinds, Pin
  <1>5. pinned' = pinned \/ pinned' = Append(pinned, pin)
    BY DEF Take
  <1>6. pin.by = "unchanged" => gate.verdict = "unchanged" /\ pin.lost = gate.lost
    OBVIOUS
  <1> HIDE DEF pin
  <1>7. Kinds'
    <2>1. pinned' \in Seq(Pin)
      BY <1>3, <1>4, <1>5
    <2>2. 1 \in Tag /\ 1 \in 1..3
      BY LicenceAssumption DEF Tag
    <2>3. gate'.tag \in Tag /\ gate'.at \in Tag /\ gate'.ref \in 1..3
      BY <1>1, <2>2
    <2>4. gate'.unanswered \in BOOLEAN
      BY <1>1, Zenon
    <2>5. QED
      BY <1>1, <1>2, <2>1, <2>3, <2>4 DEF Kinds
  <1>8. ASSUME pinned' = Append(pinned, pin)
        PROVE  NoFileUnread'
    <2>1. /\ Len(pinned') = Len(pinned) + 1 /\ pinned'[Len(pinned) + 1] = pin
          /\ \A i \in 1..Len(pinned) : pinned'[i] = pinned[i]
      BY <1>3, <1>4, <1>8
    <2> SUFFICES ASSUME NEW i \in 2..(Len(pinned) + 1), pinned'[i].by = "unchanged"
                 PROVE  /\ file[pinned'[i].tag] # NoBlob
                        /\ \E j \in 1..(i - 1) :
                               /\ file[pinned'[j].tag] = file[pinned'[i].tag]
                               /\ \A k \in (j + 1)..(i - 1) : pinned'[k].tag \in Unreadable \/ k \in pinned'[i].lost
      BY <1>2, <2>1 DEF NoFileUnread, GoneBy
    <2>2. CASE i = Len(pinned) + 1
      <3>1. PICK m \in DOMAIN pinned : file[pinned[m].tag] = file[gate.tag] /\ AllGoneAfter(m)
        BY <1>2, <1>6, <2>1, <2>2 DEF Compared
      <3>2. file[gate.tag] # NoBlob
        BY <1>2, <1>6, <2>1, <2>2 DEF Compared
      <3>3. m \in 1..(i - 1) /\ pinned'[m] = pinned[m] /\ pinned'[i].tag = gate.tag /\ pinned'[i].lost = gate.lost
        BY <1>3, <1>4, <1>6, <2>1, <2>2, <3>1
      <3>4. ASSUME NEW k \in (m + 1)..(i - 1) PROVE pinned'[k].tag \in Unreadable \/ k \in pinned'[i].lost
        <4>1. k \in DOMAIN pinned /\ k > m /\ pinned'[k] = pinned[k]
          BY <1>3, <2>1, <2>2, <3>1
        <4>2. QED
          BY <3>1, <3>3, <4>1 DEF AllGoneAfter, GoneBy
      <3>5. QED
        BY <3>1, <3>2, <3>3, <3>4
    <2>3. CASE i # Len(pinned) + 1
      <3>1. i \in 2..Len(pinned) /\ pinned'[i] = pinned[i]
        BY <1>3, <2>1, <2>3
      <3>2. /\ file[pinned[i].tag] # NoBlob
            /\ \E j \in 1..(i - 1) : /\ file[pinned[j].tag] = file[pinned[i].tag]
                                     /\ \A k \in (j + 1)..(i - 1) : pinned[k].tag \in Unreadable \/ k \in pinned[i].lost
        BY <1>2, <2>1, <2>3, <3>1 DEF NoFileUnread, GoneBy
      <3>3. PICK j \in 1..(i - 1) : /\ file[pinned[j].tag] = file[pinned[i].tag]
                                    /\ \A k \in (j + 1)..(i - 1) : pinned[k].tag \in Unreadable \/ k \in pinned[i].lost
        BY <3>2
      <3>4. pinned'[j] = pinned[j] /\ \A k \in (j + 1)..(i - 1) : pinned'[k] = pinned[k]
        BY <1>3, <2>1, <3>1, <3>3
      <3>5. QED
        BY <3>1, <3>2, <3>3, <3>4
    <2>4. QED
      BY <2>2, <2>3
  <1>9. NoFileUnread'
    <2>1. pinned' = pinned => NoFileUnread'
      BY <1>2 DEF NoFileUnread, GoneBy
    <2>2. QED
      BY <1>5, <1>8, <2>1
  <1>10. QED
    BY <1>1, <1>7, <1>9, NoRun

LEMMA LicenceInvKept == LicenceInv /\ [GateNext]_gateVars => LicenceInv'
  <1> SUFFICES ASSUME LicenceInv, [GateNext]_gateVars PROVE LicenceInv'
    OBVIOUS
  <1>1. CASE Admit
    BY <1>1, AdmitKeeps
  <1>2. CASE Withdraw
    BY <1>2, WithdrawKeeps
  <1>3. CASE Start
    BY <1>3, StartKeeps
  <1>4. CASE AskStated
    BY <1>4, StatedKeeps
  <1>5. CASE AskFile
    BY <1>5, FileKeeps
  <1>6. CASE Take
    BY <1>6, TakeKeeps
  <1>8. CASE ReadLog
    BY <1>8, LogKeeps
  <1>7. CASE UNCHANGED gateVars
    <2>1. file' = file /\ gone' = gone /\ own' = own /\ pinned' = pinned /\ gate' = gate /\ Unreadable' = Unreadable
      BY <1>7 DEF gateVars, upstream, Unreadable
    <2>2. Kinds' /\ Comparing' /\ Beginning'
      BY <2>1 DEF LicenceInv, Kinds, Comparing, Beginning, Assess
    <2>3. GoingBack' /\ Compared' /\ NoFileUnread'
      BY <2>1 DEF LicenceInv, GoingBack, Compared, AllGoneAfter, NoFileUnread, GoneBy
    <2>4. GateBearsOut'
      BY <2>1 DEF LicenceInv, GateBearsOut, Cleared, Wanting, GoneBy
    <2>5. QED
      BY <2>2, <2>3, <2>4 DEF LicenceInv
  <1>9. QED
    BY <1>1, <1>2, <1>3, <1>4, <1>5, <1>6, <1>7, <1>8 DEF GateNext
-----------------------------------------------------------------------------
\* Whatever upstream withdraws between the requests, and over any number of
\* bumps, a pin taken because its licence file had not changed ships the file of
\* an earlier one that is the newest left to read, of those git showed
\* (compare_files, last_shipped, earlier_tags).
THEOREM NoFileSlipsIn == GateSpec => []NoFileUnread
  <1>1. LicenceInv => NoFileUnread
    BY DEF LicenceInv
  <1>2. QED
    BY <1>1, LicenceInvInit, LicenceInvKept, PTL DEF GateSpec

\* At whichever request the forge goes away, what the gate lets by was answered
\* for, and what it refuses wants something (assess, judged, main).
THEOREM GateVerdictsBearOut == GateSpec => []GateBearsOut
  <1>1. LicenceInv => GateBearsOut
    BY DEF LicenceInv
  <1>2. QED
    BY <1>1, LicenceInvInit, LicenceInvKept, PTL DEF GateSpec
-----------------------------------------------------------------------------
(***************************************************************************)
(* The judgement of a candidate.                                           *)
(***************************************************************************)
\* What was asked so far, and what it left in the evidence.
Looked ==
    /\ look.at > 1 /\ look.exit # 2 => project \in Project
    /\ look.at < 8 => look.exit = 0 /\ look.verdict = "none"
    /\ look.exit = 2 => look.at = 8 /\ look.verdict = "none"
ReleasesRead ==
    IF "releases" \in look.unanswered THEN look.releases = {} /\ look.latest = {}
    ELSE look.releases = {Cardinality(project.released)} /\ look.latest = project.released
HistoryRead == look.days = IF "history" \in look.unanswered THEN {} ELSE OwnDays
ImageRead ==
    /\ look.image = {TRUE} => project.image = "there"
    /\ "image" \notin look.unanswered /\ project.image = "there" => look.image = {TRUE}
TagsRead ==
    /\ look.tags <= project.tags
    /\ "tags" \notin look.unanswered => look.tags = project.tags
Evidence ==
    /\ look.at <= 3 => look.latest = {} /\ "releases" \notin look.unanswered
    /\ look.at <= 4 => look.days = {} /\ "history" \notin look.unanswered
    /\ look.at <= 5 => "image" \notin look.unanswered
    /\ look.at <= 6 => "tags" \notin look.unanswered
    /\ look.exit # 2 => /\ "project" \notin look.unanswered
                        /\ look.at > 3 => ReleasesRead
                        /\ look.at > 4 => HistoryRead
                        /\ look.at > 5 => ImageRead
                        /\ look.at > 6 => TagsRead
Judged ==
    look.at = 8 /\ look.exit # 2 =>
        /\ look.exit = IF "disqualifying" \in Findings(look) THEN 1 ELSE 0
        /\ look.verdict = CASE "disqualifying" \in Findings(look) -> "reject"
                            [] Findings(look) = {"caution"} -> "watch"
                            [] OTHER -> "admit"

CandidateInv == CandidateTypeOK /\ Looked /\ Evidence /\ Judged
-----------------------------------------------------------------------------
LEMMA EightSteps == Len(Steps) = 8
  BY DEF Steps

LEMMA StepsInOrder ==
    ASSUME NEW n \in 1..8
    PROVE  /\ Steps[n] = "propose" <=> n = 1
           /\ Steps[n] = "project" <=> n = 2
           /\ Steps[n] = "releases" <=> n = 3
           /\ Steps[n] = "history" <=> n = 4
           /\ Steps[n] = "image" <=> n = 5
           /\ Steps[n] = "tags" <=> n = 6
           /\ Steps[n] = "judge" <=> n = 7
           /\ Steps[n] = "done" <=> n = 8
  BY DEF Steps

\* How many latest releases there are is one, or none.
LEMMA LatestCounted ==
    ASSUME NEW p \in Project
    PROVE  /\ p \in ProjectType /\ p.released \in Optional(Nat)
           /\ p.released = {} => Cardinality(p.released) = 0
           /\ p.released # {} => Cardinality(p.released) = 1
  <1>1. p \in ProjectType /\ p.released \in Optional(p.released) /\ p.released \subseteq Nat
    BY CandidateAssumption DEF ProjectType
  <1>2. p.released = {} \/ \E v \in p.released : p.released = {v}
    BY <1>1 DEF Optional
  <1>3. QED
    BY <1>1, <1>2, FS_EmptySet, FS_Singleton DEF Optional

LEMMA CandidateInvInit == CandidateInit => CandidateInv
  <1> SUFFICES ASSUME CandidateInit PROVE CandidateInv
    OBVIOUS
  <1>1. CandidateTypeOK
    <2>1. project \in ProjectType
      BY DEF CandidateInit, NoProject, ProjectType
    <2>2. {} \in Optional(Nat) /\ {} \in Optional(0..1) /\ {} \in Optional(BOOLEAN)
      BY DEF Optional
    <2>3. 1 \in 1..Len(Steps)
      BY EightSteps
    <2>4. QED
      BY <2>1, <2>2, <2>3 DEF CandidateInit, CandidateTypeOK
  <1>2. Looked /\ Evidence /\ Judged
    BY DEF CandidateInit, Looked, Evidence, Judged
  <1>3. QED
    BY <1>1, <1>2 DEF CandidateInv

\* A question is answered, or it is not, and the next is put.
Evidences == [at: 1..8, unanswered: SUBSET Questions, days: Optional(Nat), releases: Optional(0..1),
              latest: Optional(Nat), image: Optional(BOOLEAN), tags: 0..1,
              verdict: {"none", "reject", "watch", "admit"}, exit: 0..2]

LEMMA AtKept == ASSUME NEW e \in Evidences, NEW n \in 1..8 PROVE [e EXCEPT !.at = n] \in Evidences
  BY DEF Evidences
LEMMA ExitKept == ASSUME NEW e \in Evidences, NEW n \in 0..2 PROVE [e EXCEPT !.exit = n] \in Evidences
  BY DEF Evidences
LEMMA VerdictKept == ASSUME NEW e \in Evidences, NEW v \in {"reject", "watch", "admit"} PROVE [e EXCEPT !.verdict = v] \in Evidences
  BY DEF Evidences
LEMMA UnansweredKept == ASSUME NEW e \in Evidences, NEW u \in SUBSET Questions PROVE [e EXCEPT !.unanswered = u] \in Evidences
  BY DEF Evidences
LEMMA ReleasesKept == ASSUME NEW e \in Evidences, NEW v \in Optional(0..1) PROVE [e EXCEPT !.releases = v] \in Evidences
  BY DEF Evidences
LEMMA LatestKept == ASSUME NEW e \in Evidences, NEW v \in Optional(Nat) PROVE [e EXCEPT !.latest = v] \in Evidences
  BY DEF Evidences
LEMMA DaysKept == ASSUME NEW e \in Evidences, NEW v \in Optional(Nat) PROVE [e EXCEPT !.days = v] \in Evidences
  BY DEF Evidences
LEMMA ImageKept == ASSUME NEW e \in Evidences, NEW v \in Optional(BOOLEAN) PROVE [e EXCEPT !.image = v] \in Evidences
  BY DEF Evidences
LEMMA TagsKept == ASSUME NEW e \in Evidences, NEW n \in 0..1 PROVE [e EXCEPT !.tags = n] \in Evidences
  BY DEF Evidences

LEMMA NextField ==
    ASSUME NEW e \in Evidences, e.at < 8, NEW what \in Questions
    PROVE  /\ [e EXCEPT !.at = @ + 1] \in Evidences
           /\ [e EXCEPT !.at = @ + 1, !.unanswered = @ \union {what}] \in Evidences
  <1>1. e.at + 1 \in 1..8 /\ e.unanswered \union {what} \in SUBSET Questions
    BY DEF Evidences
  <1> DEFINE f == [e EXCEPT !.at = e.at + 1]
  <1>2. f \in Evidences /\ f.unanswered = e.unanswered
    BY <1>1, AtKept DEF Evidences
  <1>3. [f EXCEPT !.unanswered = e.unanswered \union {what}] \in Evidences
    <2> HIDE DEF f
    <2>1. QED
      BY <1>1, <1>2, UnansweredKept
  <1>4. QED
    BY <1>2, <1>3

LEMMA RequestTyped ==
    ASSUME CandidateTypeOK, NEW what \in Questions, NEW e \in Evidences, NEW f \in Evidences,
           e.at < 8, f.at < 8, Request(what, e, f)
    PROVE  CandidateTypeOK'
  <1>1. look' \in Evidences /\ project' = project
    BY NextField DEF Request
  <1>2. QED
    BY <1>1, EightSteps DEF CandidateTypeOK, Evidences

LEMMA WhichStep ==
    ASSUME CandidateTypeOK
    PROVE  /\ look.at \in 1..8
           /\ Steps[look.at] = "propose" <=> look.at = 1
           /\ Steps[look.at] = "project" <=> look.at = 2
           /\ Steps[look.at] = "releases" <=> look.at = 3
           /\ Steps[look.at] = "history" <=> look.at = 4
           /\ Steps[look.at] = "image" <=> look.at = 5
           /\ Steps[look.at] = "tags" <=> look.at = 6
           /\ Steps[look.at] = "judge" <=> look.at = 7
           /\ Steps[look.at] = "done" <=> look.at = 8
  <1>1. look.at \in 1..8
    BY EightSteps DEF CandidateTypeOK
  <1>2. QED
    BY <1>1, StepsInOrder

LEMMA CandidateTypeKept ==
    ASSUME CandidateTypeOK, Looked, [CandidateNext]_candidateVars
    PROVE  CandidateTypeOK'
  <1>1. look \in Evidences /\ project \in ProjectType
    BY EightSteps DEF CandidateTypeOK, Evidences
  <1>2. ASSUME project' \in ProjectType, look' \in Evidences PROVE CandidateTypeOK'
    BY <1>2, EightSteps DEF CandidateTypeOK, Evidences
  <1>3. 2 \in 1..8 /\ 7 \in 1..8 /\ 8 \in 1..8 /\ 2 \in 0..2 /\ 7 < 8
    OBVIOUS
  <1>4. /\ "project" \in Questions /\ "releases" \in Questions /\ "history" \in Questions
        /\ "image" \in Questions /\ "tags" \in Questions
    BY DEF Questions
  <1>5. \A v : /\ [look EXCEPT !.latest = v].at = look.at /\ [look EXCEPT !.releases = v].at = look.at
               /\ [look EXCEPT !.days = v].at = look.at /\ [look EXCEPT !.image = v].at = look.at
               /\ [look EXCEPT !.tags = v].at = look.at
    BY <1>1 DEF Evidences
  <1>6. CASE Propose
    <2>1. CASE project' \in Project /\ look' = [look EXCEPT !.at = 2]
      BY <1>1, <1>2, <1>3, <2>1, AtKept, LatestCounted
    <2>2. CASE project' = NoProject /\ look' = [look EXCEPT !.exit = 2, !.at = Len(Steps)]
      <3>1. NoProject \in ProjectType
        BY DEF NoProject, ProjectType
      <3>2. [look EXCEPT !.exit = 2] \in Evidences
        BY <1>1, <1>3, ExitKept
      <3>3. look' = [[look EXCEPT !.exit = 2] EXCEPT !.at = 8]
        BY <2>2, EightSteps
      <3>4. look' \in Evidences
        BY <1>3, <3>2, <3>3, AtKept
      <3>5. QED
        BY <1>2, <2>2, <3>1, <3>4
    <2>3. QED
      BY <1>6, <2>1, <2>2 DEF Propose
  <1>7. CASE AskProject
    <2> DEFINE without == [look EXCEPT !.exit = 2, !.at = Len(Steps) - 1]
    <2>1. look.at = 2 /\ look.at < 8
      BY <1>7, WhichStep DEF AskProject, Request
    <2>2. without \in Evidences /\ without.at < 8
      <3>1. [look EXCEPT !.exit = 2] \in Evidences
        BY <1>1, <1>3, ExitKept
      <3>2. without = [[look EXCEPT !.exit = 2] EXCEPT !.at = 7]
        BY EightSteps
      <3>3. without \in Evidences
        <4> HIDE DEF without
        <4>1. QED
          BY <1>3, <3>1, <3>2, AtKept
      <3>4. without.at = 7
        BY <1>1, EightSteps DEF Evidences
      <3>5. QED
        BY <1>3, <3>3, <3>4
    <2>3. Request("project", look, without)
      BY <1>7 DEF AskProject
    <2> HIDE DEF without
    <2>4. QED
      BY <1>1, <2>1, <2>2, <2>3, <1>4, RequestTyped
  <1>8. CASE AskReleases
    <2> DEFINE first == [look EXCEPT !.releases = {Cardinality(project.released)}]
               with == [first EXCEPT !.latest = project.released]
               without == [look EXCEPT !.releases = {}]
    <2>1. look.at = 3 /\ project \in Project /\ look.at < 8
      BY <1>8, WhichStep DEF AskReleases, Request, Looked
    <2>2. {Cardinality(project.released)} \in Optional(0..1) /\ project.released \in Optional(Nat) /\ {} \in Optional(0..1)
      BY <2>1, LatestCounted DEF Optional
    <2>3. without \in Evidences /\ without.at < 8 /\ first \in Evidences /\ first.at < 8
      BY <1>1, <1>5, <2>1, <2>2, ReleasesKept
    <2>4. with \in Evidences /\ with.at < 8
      <3> HIDE DEF first
      <3>1. with.at = first.at
        BY <2>3 DEF Evidences
      <3>2. QED
        BY <2>2, <2>3, <3>1, LatestKept
    <2>5. Request("releases", with, without)
      BY <1>8 DEF AskReleases
    <2> HIDE DEF with, without
    <2>6. QED
      BY <2>3, <2>4, <2>5, <1>4, RequestTyped
  <1>9. CASE AskHistory
    <2> DEFINE with == [look EXCEPT !.days = OwnDays]
    <2>1. look.at = 4 /\ look.at < 8
      BY <1>9, WhichStep DEF AskHistory, Request
    <2>2. OwnDays \in Optional(Nat)
      BY <1>1 DEF OwnDays, Optional, ProjectType
    <2>3. with \in Evidences /\ with.at < 8
      BY <1>1, <1>5, <2>1, <2>2, DaysKept
    <2>4. Request("history", with, look)
      BY <1>9 DEF AskHistory
    <2> HIDE DEF with
    <2>5. QED
      BY <1>1, <2>1, <2>3, <2>4, <1>4, RequestTyped
  <1>10. CASE AskImage
    <2> DEFINE offered == project.image # "unoffered"
               with == [look EXCEPT !.image = IF offered THEN {project.image = "there"} ELSE {}]
               without == [look EXCEPT !.image = IF offered THEN {FALSE} ELSE {}]
    <2>1. look.at = 5 /\ look.at < 8
      BY <1>10, WhichStep DEF AskImage, Request
    <2>2. /\ (IF offered THEN {project.image = "there"} ELSE {}) \in Optional(BOOLEAN)
          /\ (IF offered THEN {FALSE} ELSE {}) \in Optional(BOOLEAN)
      BY DEF Optional
    <2>3. with \in Evidences /\ with.at < 8 /\ without \in Evidences /\ without.at < 8
      BY <1>1, <1>5, <2>1, <2>2, ImageKept
    <2>4. Request("image", with, without)
      BY <1>10 DEF AskImage
    <2> HIDE DEF with, without
    <2>5. QED
      BY <2>3, <2>4, <1>4, RequestTyped
  <1>11. CASE AskTags
    <2> DEFINE with == [look EXCEPT !.tags = project.tags]
               without == [look EXCEPT !.tags = 0]
    <2>1. look.at = 6 /\ look.at < 8
      BY <1>11, WhichStep DEF AskTags, Request
    <2>2. project.tags \in 0..1 /\ 0 \in 0..1
      BY <1>1 DEF ProjectType
    <2>3. with \in Evidences /\ with.at < 8 /\ without \in Evidences /\ without.at < 8
      BY <1>1, <1>5, <2>1, <2>2, TagsKept
    <2>4. Request("tags", with, without)
      BY <1>11 DEF AskTags
    <2> HIDE DEF with, without
    <2>5. QED
      BY <2>3, <2>4, <1>4, RequestTyped
  <1>12. CASE JudgeCandidate
    <2> DEFINE exit == IF "disqualifying" \in Findings(look) THEN 1 ELSE 0
               verdict == CASE "disqualifying" \in Findings(look) -> "reject"
                            [] Findings(look) = {"caution"} -> "watch"
                            [] OTHER -> "admit"
               one == [look EXCEPT !.at = look.at + 1]
               two == [one EXCEPT !.exit = exit]
    <2>1. look.at = 7
      BY <1>12, WhichStep DEF JudgeCandidate
    <2>2. exit \in 0..2 /\ verdict \in {"reject", "watch", "admit"}
      OBVIOUS
    <2>3. look' = [two EXCEPT !.verdict = verdict] /\ project' = project
      BY <1>12 DEF JudgeCandidate
    <2>7. look.at + 1 = 8
      BY <2>1
    <2> HIDE DEF exit, verdict
    <2>4. one \in Evidences
      BY <1>1, <1>3, <2>7, AtKept
    <2> HIDE DEF one
    <2>5. two \in Evidences
      BY <2>2, <2>4, ExitKept
    <2> HIDE DEF two
    <2>6. QED
      BY <1>1, <1>2, <2>2, <2>3, <2>5, VerdictKept
  <1>13. CASE UNCHANGED candidateVars
    BY <1>13 DEF candidateVars, CandidateTypeOK
  <1>14. QED
    BY <1>6, <1>7, <1>8, <1>9, <1>10, <1>11, <1>12, <1>13 DEF CandidateNext

\* What each step makes of the evidence.
LEMMA AfterPropose ==
    ASSUME CandidateTypeOK, Propose
    PROVE  /\ look.at = 1
           /\ look'.unanswered = look.unanswered /\ look'.days = look.days /\ look'.latest = look.latest
           /\ look'.verdict = look.verdict
           /\ \/ look'.at = 2 /\ project' \in Project /\ look'.exit = look.exit
              \/ look'.at = 8 /\ look'.exit = 2
  BY WhichStep, EightSteps DEF Propose, CandidateTypeOK

LEMMA AfterProject ==
    ASSUME CandidateTypeOK, AskProject
    PROVE  /\ look.at = 2 /\ project' = project
           /\ look'.days = look.days /\ look'.latest = look.latest /\ look'.verdict = look.verdict
           /\ \/ look'.at = 3 /\ look'.unanswered = look.unanswered /\ look'.exit = look.exit
              \/ look'.at = 8 /\ look'.unanswered = look.unanswered \union {"project"} /\ look'.exit = 2
  <1> DEFINE with == look
             without == [look EXCEPT !.exit = 2, !.at = Len(Steps) - 1]
  <1>1. /\ Steps[look.at] = "project" /\ project' = project
        /\ \/ look' = [with EXCEPT !.at = with.at + 1]
           \/ look' = [without EXCEPT !.at = without.at + 1, !.unanswered = without.unanswered \union {"project"}]
    BY DEF AskProject, Request
  <1>2. CASE look' = [with EXCEPT !.at = with.at + 1]
    BY <1>1, <1>2, WhichStep DEF CandidateTypeOK
  <1>3. CASE look' = [without EXCEPT !.at = without.at + 1, !.unanswered = without.unanswered \union {"project"}]
    BY <1>1, <1>3, WhichStep, EightSteps DEF CandidateTypeOK
  <1>4. QED
    BY <1>1, <1>2, <1>3

LEMMA AfterReleases ==
    ASSUME CandidateTypeOK, AskReleases
    PROVE  /\ look.at = 3 /\ look'.at = 4 /\ project' = project
           /\ look'.days = look.days /\ look'.exit = look.exit /\ look'.verdict = look.verdict
           /\ \/ /\ look'.unanswered = look.unanswered
                 /\ look'.releases = {Cardinality(project.released)} /\ look'.latest = project.released
              \/ /\ look'.unanswered = look.unanswered \union {"releases"}
                 /\ look'.releases = {} /\ look'.latest = look.latest
  <1> DEFINE with == [look EXCEPT !.releases = {Cardinality(project.released)}, !.latest = project.released]
             without == [look EXCEPT !.releases = {}]
  <1>1. /\ Steps[look.at] = "releases" /\ project' = project
        /\ \/ look' = [with EXCEPT !.at = with.at + 1]
           \/ look' = [without EXCEPT !.at = without.at + 1, !.unanswered = without.unanswered \union {"releases"}]
    BY DEF AskReleases, Request
  <1>2. CASE look' = [with EXCEPT !.at = with.at + 1]
    BY <1>1, <1>2, WhichStep DEF CandidateTypeOK
  <1>3. CASE look' = [without EXCEPT !.at = without.at + 1, !.unanswered = without.unanswered \union {"releases"}]
    BY <1>1, <1>3, WhichStep DEF CandidateTypeOK
  <1>4. QED
    BY <1>1, <1>2, <1>3

LEMMA AfterHistory ==
    ASSUME CandidateTypeOK, AskHistory
    PROVE  /\ look.at = 4 /\ look'.at = 5 /\ project' = project
           /\ look'.exit = look.exit /\ look'.verdict = look.verdict
           /\ look'.releases = look.releases /\ look'.latest = look.latest
           /\ \/ look'.unanswered = look.unanswered /\ look'.days = OwnDays
              \/ look'.unanswered = look.unanswered \union {"history"} /\ look'.days = look.days
  <1> DEFINE with == [look EXCEPT !.days = OwnDays]
             without == look
  <1>1. /\ Steps[look.at] = "history" /\ project' = project
        /\ \/ look' = [with EXCEPT !.at = with.at + 1]
           \/ look' = [without EXCEPT !.at = without.at + 1, !.unanswered = without.unanswered \union {"history"}]
    BY DEF AskHistory, Request
  <1>2. CASE look' = [with EXCEPT !.at = with.at + 1]
    BY <1>1, <1>2, WhichStep DEF CandidateTypeOK
  <1>3. CASE look' = [without EXCEPT !.at = without.at + 1, !.unanswered = without.unanswered \union {"history"}]
    BY <1>1, <1>3, WhichStep DEF CandidateTypeOK
  <1>4. QED
    BY <1>1, <1>2, <1>3

LEMMA AfterImage ==
    ASSUME CandidateTypeOK, AskImage
    PROVE  /\ look.at = 5 /\ look'.at = 6 /\ project' = project
           /\ look'.exit = look.exit /\ look'.verdict = look.verdict
           /\ look'.releases = look.releases /\ look'.latest = look.latest /\ look'.days = look.days
           /\ \/ /\ look'.unanswered = look.unanswered
                 /\ look'.image = IF project.image # "unoffered" THEN {project.image = "there"} ELSE {}
              \/ /\ look'.unanswered = look.unanswered \union {"image"}
                 /\ look'.image = IF project.image # "unoffered" THEN {FALSE} ELSE {}
  <1> DEFINE with == [look EXCEPT !.image = IF project.image # "unoffered" THEN {project.image = "there"} ELSE {}]
             without == [look EXCEPT !.image = IF project.image # "unoffered" THEN {FALSE} ELSE {}]
  <1>1. /\ Steps[look.at] = "image" /\ project' = project
        /\ \/ look' = [with EXCEPT !.at = with.at + 1]
           \/ look' = [without EXCEPT !.at = without.at + 1, !.unanswered = without.unanswered \union {"image"}]
    BY DEF AskImage, Request
  <1>2. CASE look' = [with EXCEPT !.at = with.at + 1]
    BY <1>1, <1>2, WhichStep DEF CandidateTypeOK
  <1>3. CASE look' = [without EXCEPT !.at = without.at + 1, !.unanswered = without.unanswered \union {"image"}]
    BY <1>1, <1>3, WhichStep DEF CandidateTypeOK
  <1>4. QED
    BY <1>1, <1>2, <1>3

LEMMA AfterTags ==
    ASSUME CandidateTypeOK, AskTags
    PROVE  /\ look.at = 6 /\ look'.at = 7 /\ project' = project
           /\ look'.exit = look.exit /\ look'.verdict = look.verdict /\ look'.image = look.image
           /\ look'.releases = look.releases /\ look'.latest = look.latest /\ look'.days = look.days
           /\ \/ look'.unanswered = look.unanswered /\ look'.tags = project.tags
              \/ look'.unanswered = look.unanswered \union {"tags"} /\ look'.tags = 0
  <1> DEFINE with == [look EXCEPT !.tags = project.tags]
             without == [look EXCEPT !.tags = 0]
  <1>1. /\ Steps[look.at] = "tags" /\ project' = project
        /\ \/ look' = [with EXCEPT !.at = with.at + 1]
           \/ look' = [without EXCEPT !.at = without.at + 1, !.unanswered = without.unanswered \union {"tags"}]
    BY DEF AskTags, Request
  <1>2. CASE look' = [with EXCEPT !.at = with.at + 1]
    BY <1>1, <1>2, WhichStep DEF CandidateTypeOK
  <1>3. CASE look' = [without EXCEPT !.at = without.at + 1, !.unanswered = without.unanswered \union {"tags"}]
    BY <1>1, <1>3, WhichStep DEF CandidateTypeOK
  <1>4. QED
    BY <1>1, <1>2, <1>3

LEMMA AfterJudge ==
    ASSUME CandidateTypeOK, JudgeCandidate
    PROVE  /\ look.at = 7 /\ look'.at = 8 /\ project' = project
           /\ look'.unanswered = look.unanswered /\ look'.image = look.image /\ look'.tags = look.tags
           /\ look'.releases = look.releases /\ look'.latest = look.latest /\ look'.days = look.days
           /\ look'.exit = IF "disqualifying" \in Findings(look) THEN 1 ELSE 0
           /\ look'.verdict = CASE "disqualifying" \in Findings(look) -> "reject"
                                [] Findings(look) = {"caution"} -> "watch"
                                [] OTHER -> "admit"
  BY WhichStep DEF JudgeCandidate, CandidateTypeOK
-----------------------------------------------------------------------------
LEMMA LookedKept ==
    ASSUME CandidateTypeOK, Looked, [CandidateNext]_candidateVars
    PROVE  Looked'
  <1>1. CASE Propose
    BY <1>1, AfterPropose DEF Looked
  <1>2. CASE AskProject
    BY <1>2, AfterProject DEF Looked
  <1>3. CASE AskReleases \/ AskHistory \/ AskImage \/ AskTags
    BY <1>3, AfterReleases, AfterHistory, AfterImage, AfterTags DEF Looked
  <1>4. CASE JudgeCandidate
    BY <1>4, AfterJudge DEF Looked
  <1>5. CASE UNCHANGED candidateVars
    BY <1>5 DEF candidateVars, Looked
  <1>6. QED
    BY <1>1, <1>2, <1>3, <1>4, <1>5 DEF CandidateNext

\* What is read of a request stays as it was read.
LEMMA ReadStays ==
    ASSUME project' = project
    PROVE  /\ /\ ReleasesRead /\ look'.releases = look.releases /\ look'.latest = look.latest
              /\ "releases" \in look'.unanswered <=> "releases" \in look.unanswered
              => ReleasesRead'
           /\ /\ HistoryRead /\ look'.days = look.days
              /\ "history" \in look'.unanswered <=> "history" \in look.unanswered
              => HistoryRead'
           /\ /\ ImageRead /\ look'.image = look.image
              /\ "image" \in look'.unanswered <=> "image" \in look.unanswered
              => ImageRead'
           /\ /\ TagsRead /\ look'.tags = look.tags
              /\ "tags" \in look'.unanswered <=> "tags" \in look.unanswered
              => TagsRead'
  BY DEF ReleasesRead, HistoryRead, OwnDays, ImageRead, TagsRead

LEMMA EvidenceKept ==
    ASSUME CandidateTypeOK, Looked, Evidence, [CandidateNext]_candidateVars
    PROVE  Evidence'
  <1>1. CASE Propose
    BY <1>1, AfterPropose DEF Evidence
  <1>2. CASE AskProject
    BY <1>2, AfterProject DEF Evidence
  <1>3. CASE AskReleases
    <2>1. ReleasesRead'
      BY <1>3, AfterReleases DEF Evidence, ReleasesRead
    <2>2. QED
      BY <1>3, <2>1, AfterReleases DEF Evidence, Looked
  <1>4. CASE AskHistory
    <2>1. OwnDays' = OwnDays
      BY <1>4, AfterHistory DEF OwnDays
    <2>2. HistoryRead'
      BY <1>4, <2>1, AfterHistory DEF Evidence, HistoryRead
    <2>3. ReleasesRead'
      BY <1>4, AfterHistory, ReadStays DEF Evidence, Looked
    <2>4. QED
      BY <1>4, <2>2, <2>3, AfterHistory DEF Evidence, Looked
  <1>5. CASE AskImage
    <2>1. ImageRead'
      BY <1>5, AfterImage DEF Evidence, ImageRead
    <2>2. ReleasesRead' /\ HistoryRead'
      BY <1>5, AfterImage, ReadStays DEF Evidence, Looked
    <2>3. QED
      BY <1>5, <2>1, <2>2, AfterImage DEF Evidence, Looked
  <1>6. CASE AskTags
    <2>1. TagsRead'
      BY <1>6, AfterTags DEF Evidence, TagsRead, CandidateTypeOK, ProjectType
    <2>2. ReleasesRead' /\ HistoryRead' /\ ImageRead'
      BY <1>6, AfterTags, ReadStays DEF Evidence, Looked
    <2>3. QED
      BY <1>6, <2>1, <2>2, AfterTags DEF Evidence, Looked
  <1>7. CASE JudgeCandidate
    <2>1. ReleasesRead' /\ HistoryRead' /\ ImageRead' /\ TagsRead'
      BY <1>7, AfterJudge, ReadStays DEF Evidence, Looked
    <2>2. QED
      BY <1>7, <2>1, AfterJudge DEF Evidence, Looked
  <1>8. CASE UNCHANGED candidateVars
    BY <1>8, ReadStays DEF candidateVars, Evidence
  <1>9. QED
    BY <1>1, <1>2, <1>3, <1>4, <1>5, <1>6, <1>7, <1>8 DEF CandidateNext

LEMMA JudgedKept ==
    ASSUME CandidateTypeOK, Looked, Judged, [CandidateNext]_candidateVars
    PROVE  Judged'
  <1>1. ASSUME project' = project, look'.days = look.days, look'.releases = look.releases,
               look'.latest = look.latest, look'.tags = look.tags, look'.image = look.image
        PROVE  Findings(look)' = Findings(look)
    BY <1>1 DEF Findings, Publication, Activity
  <1>2. CASE Propose \/ AskReleases \/ AskHistory \/ AskImage \/ AskTags
    BY <1>2, AfterPropose, AfterReleases, AfterHistory, AfterImage, AfterTags DEF Judged
  <1>3. CASE AskProject
    BY <1>3, AfterProject DEF Judged
  <1>4. CASE JudgeCandidate
    BY <1>1, <1>4, AfterJudge DEF Judged
  <1>5. CASE UNCHANGED candidateVars
    BY <1>1, <1>5 DEF candidateVars, Judged
  <1>6. QED
    BY <1>2, <1>3, <1>4, <1>5 DEF CandidateNext
-----------------------------------------------------------------------------
\* Nothing but these two is ever found.
LEMMA FindingsAre == Findings(look) \subseteq {"disqualifying", "caution"}
  BY DEF Findings, Publication, Activity

\* What passes was read, and bears it out.
LEMMA PassedIsEvident ==
    ASSUME CandidateInv, look.at = 8, look.exit = 0
    PROVE  Evident
  <1>1. /\ project \in Project /\ ReleasesRead /\ HistoryRead /\ ImageRead /\ TagsRead
        /\ "project" \notin look.unanswered
    BY DEF CandidateInv, Looked, Evidence
  <1>2. /\ project \in ProjectType /\ project.span \in Nat /\ project.age \in Nat /\ project.commits \in Nat
        /\ project.pushed \subseteq Nat /\ project.released \subseteq Nat /\ project.tags \in 0..1
    BY DEF CandidateInv, CandidateTypeOK, ProjectType
  <1>3. project.span <= project.age /\ PAGE \in Nat \ {0} /\ MIN_HISTORY_DAYS \in Nat \ {0} /\ QUIET_DAYS \in Nat
        /\ ABANDONED_DAYS \in Nat
    BY <1>1, CandidateAssumption
  <1>4. "disqualifying" \notin Findings(look)
    BY DEF CandidateInv, Judged
  <1>5. /\ ~project.archived
        /\ look.days # {} /\ \A days \in look.days : ~(days < MIN_HISTORY_DAYS)
        /\ "disqualifying" \notin Publication(look) /\ "disqualifying" \notin Activity(look)
    BY <1>4 DEF Findings
  <1>6. "releases" \notin look.unanswered /\ "history" \notin look.unanswered
    BY <1>1, <1>5 DEF ReleasesRead, HistoryRead, Publication
  <1>7. look.releases = {Cardinality(project.released)} /\ look.latest = project.released /\ look.days = OwnDays
    BY <1>1, <1>6 DEF ReleasesRead, HistoryRead
  <1>8. Alive
    <2>1. project.pushed # {} /\ ~\E day \in project.pushed : day > ABANDONED_DAYS
      BY <1>5 DEF Activity
    <2>2. QED
      BY <1>2, <1>3, <1>5, <2>1 DEF Alive
  <1>9. Installable
    <2>1. look.releases = {1} \/ look.tags > 0 \/ look.image = {TRUE}
      BY <1>5 DEF Publication
    <2>2. look.releases = {1} => project.released # {}
      BY <1>1, <1>7, LatestCounted
    <2>3. look.tags > 0 => project.tags > 0
      BY <1>1, <1>2 DEF TagsRead, CandidateInv, CandidateTypeOK
    <2>4. QED
      BY <1>1, <2>1, <2>2, <2>3 DEF ImageRead, Installable
  <1>10. Established
    BY <1>2, <1>3, <1>5, <1>7 DEF OwnDays, Established, ProjectType
  <1>11. ASSUME look.verdict = "admit"
         PROVE  /\ ~project.fork /\ project.released # {}
                /\ \A day \in project.pushed \union project.released : day <= QUIET_DAYS
    <2>1. "caution" \notin Findings(look)
      <3>1. Findings(look) # {"caution"}
        BY <1>4, <1>11 DEF CandidateInv, Judged
      <3>2. QED
        BY <1>4, <3>1, FindingsAre
    <2>2. ~project.fork /\ "caution" \notin Publication(look) /\ "caution" \notin Activity(look)
      BY <2>1 DEF Findings
    <2>3. look.releases = {1}
      BY <1>5, <1>6, <2>2 DEF Publication
    <2>4. project.released # {}
      BY <1>1, <1>7, <2>3, LatestCounted
    <2>5. \A day \in look.latest : ~(day > QUIET_DAYS)
      BY <2>2 DEF Activity
    <2>6. \A day \in project.pushed : ~(day > QUIET_DAYS)
      BY <1>5, <2>2 DEF Activity
    <2>7. QED
      BY <1>2, <1>3, <1>7, <2>2, <2>4, <2>5, <2>6
  <1>12. QED
    BY <1>1, <1>6, <1>8, <1>9, <1>10, <1>11 DEF Evident

\* What is refused is refused for what it did, or for what was not answered.
LEMMA RefusedIsDoubtful ==
    ASSUME CandidateInv, look.at = 8, look.verdict = "reject"
    PROVE  Doubtful
  <1>0. look.exit # 2
    BY DEF CandidateInv, Looked
  <1>1. /\ project \in Project /\ ReleasesRead /\ HistoryRead /\ ImageRead /\ TagsRead
    BY <1>0 DEF CandidateInv, Looked, Evidence
  <1>2. /\ project \in ProjectType /\ project.span \in Nat /\ project.age \in Nat /\ project.commits \in Nat
        /\ project.pushed \subseteq Nat /\ project.released \subseteq Nat /\ project.tags \in 0..1
    BY DEF CandidateInv, CandidateTypeOK, ProjectType
  <1>3. /\ project.span <= project.age /\ PAGE \in Nat \ {0} /\ MIN_HISTORY_DAYS \in Nat \ {0}
        /\ (project.commits = 0 => project.span = 0) /\ ABANDONED_DAYS \in Nat /\ QUIET_DAYS \in Nat
        /\ QUIET_DAYS < ABANDONED_DAYS
    BY <1>1, CandidateAssumption
  <1>4. "disqualifying" \in Findings(look)
    BY <1>0 DEF CandidateInv, Judged
  <1>5. CASE project.archived
    BY <1>5 DEF Doubtful, Alive
  <1>6. CASE look.days = {} \/ \E days \in look.days : days < MIN_HISTORY_DAYS
    <2>1. CASE "history" \in look.unanswered
      BY <2>1 DEF Doubtful
    <2>2. CASE "history" \notin look.unanswered
      <3>1. look.days = OwnDays
        BY <1>1, <2>2 DEF HistoryRead
      <3>2. ~Established
        BY <1>2, <1>3, <1>6, <3>1 DEF OwnDays, Established, ProjectType
      <3>3. QED
        BY <3>2 DEF Doubtful
    <2>3. QED
      BY <2>1, <2>2
  <1>7. CASE "disqualifying" \in Publication(look)
    <2>1. CASE "releases" \in look.unanswered
      BY <2>1 DEF Doubtful
    <2>2. CASE "releases" \notin look.unanswered
      <3>1. look.releases = {Cardinality(project.released)}
        BY <1>1, <2>2 DEF ReleasesRead
      <3>2. look.releases # {1} /\ ~(look.tags > 0) /\ look.image # {TRUE}
        BY <1>7, <3>1 DEF Publication
      <3>3. project.released = {}
        BY <1>1, <3>1, <3>2, LatestCounted
      <3>4. look.unanswered = {} => ~(project.tags > 0) /\ project.image # "there"
        BY <1>1, <1>2, <3>2 DEF TagsRead, ImageRead
      <3>5. QED
        BY <3>3, <3>4 DEF Doubtful, Installable
    <2>3. QED
      BY <2>1, <2>2
  <1>8. CASE "disqualifying" \in Activity(look)
    <2>1. project.pushed = {} \/ \E day \in project.pushed : day > ABANDONED_DAYS
      BY <1>8 DEF Activity
    <2>2. project.pushed \in Optional(project.pushed)
      BY <1>1, CandidateAssumption
    <2>3. project.pushed = {} \/ \E v \in project.pushed : project.pushed = {v}
      BY <2>2 DEF Optional
    <2>4. ~Alive
      BY <1>2, <1>3, <2>1, <2>3 DEF Alive
    <2>5. QED
      BY <2>4 DEF Doubtful
  <1>9. QED
    BY <1>4, <1>5, <1>6, <1>7, <1>8 DEF Findings

LEMMA CandidateInvBearsOut == CandidateInv => CandidateBearsOut
  <1> SUFFICES ASSUME CandidateInv PROVE CandidateBearsOut
    OBVIOUS
  <1>1. Done <=> look.at = 8
    BY WhichStep DEF CandidateInv, Done
  <1>2. QED
    BY <1>1, PassedIsEvident, RefusedIsDoubtful DEF CandidateBearsOut

\* Whatever a project has done and whichever questions go unanswered, it is
\* taken only where what was read bears it out, and refused only for what it did
\* or failed to do, or for a question without an answer.
THEOREM VerdictsBearOut == CandidateSpec => []CandidateBearsOut
  <1>1. CandidateInv /\ [CandidateNext]_candidateVars => CandidateInv'
    BY CandidateTypeKept, LookedKept, EvidenceKept, JudgedKept DEF CandidateInv
  <1>2. QED
    BY <1>1, CandidateInvInit, CandidateInvBearsOut, PTL DEF CandidateSpec
=============================================================================
