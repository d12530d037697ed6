---------------------------- MODULE CodeqlGate -----------------------------
(***************************************************************************)
(* The gate on open alerts: the codeql workflow of a pull request and of   *)
(* the queue it merges through, and no_open_codeql_alert.py, which reads   *)
(* the analyses and the alerts of its ref and judges.  An analysis that    *)
(* was uploaded can be asked about only minutes later, or never; a push    *)
(* replaces the commit whose run is still going.                           *)
(***************************************************************************)
EXTENDS Naturals

CONSTANTS Language,     \* what CodeQL can be asked to analyse
          Unnamed,      \* those whose category the workflow leaves to GitHub to name
          Elsewhere,    \* those another tool uploads an analysis under as well
          MaxCommit,    \* bound: commits pushed or queued
          MaxPolls      \* how often the step asks whether every analysis landed

ASSUME LanguageAssumption == Unnamed \subseteq Language /\ Elsewhere \subseteq Language
ASSUME BoundsAssumption == MaxCommit \in Nat \ {0} /\ MaxPolls \in Nat \ {0}

VARIABLES head,       \* head[ref]: the commit the ref is at, 0 where there is none
          job,        \* job[c]: the run of the workflow on commit c
          pending,    \* analyses whose upload was accepted and that cannot be read yet
          analyses,   \* analyses the API answers
          dismissed,  \* languages whose finding was dismissed with a reason
          main        \* the queue's commits that landed

vars == <<head, job, pending, analyses, dismissed, main>>

Commit == 1..MaxCommit
Ref == {"pull", "queue"}
Categories == {"written", "generated"} \X Language    \* named by the workflow, or by GitHub
Category(l) == <<IF l \in Unnamed THEN "generated" ELSE "written", l>>
Tools == {"CodeQL", "Other"}
Analysis == [commit: Commit, category: Categories, tool: Tools, found: BOOLEAN]
-----------------------------------------------------------------------------
\* The language a category ends in, whatever precedes it.
Named(category) == category[2]

\* The categories of `read' that CodeQL analysed at exactly `sha'.
SlipOnTheRef(read, sha) == {a.category : a \in {b \in read : b.tool = "CodeQL"}}
At(read, sha) == {a.category : a \in {b \in read : b.commit = sha /\ b.tool = "CodeQL"}}

\* The languages that were meant to be analysed and were not.
SlipWholeCategory(analysed, wanted) == {l \in wanted : <<"written", l>> \notin analysed}
Missing(analysed, wanted) == wanted \ {Named(one) : one \in analysed}

\* The languages a workflow names, in its matrix or, where there is none, on its
\* init step; a workflow that names none is refused, and `main' with it.
Expected(matrix, init) == IF matrix # {} THEN matrix ELSE init
Refused(wanted) == wanted = {}

\* Nought only where every language was analysed here and nothing is open.
Allows(analysed, wanted, alerts) ==
    ~Refused(wanted) /\ Missing(analysed, wanted) = {} /\ analysed # {} /\ alerts = {}

\* The alerts open against a ref: what the latest of its commits that was
\* analysed for a language found, unless it was dismissed.
Open(ref) ==
    LET Of(l) == {a \in analyses : /\ a.tool = "CodeQL"
                                   /\ Named(a.category) = l
                                   /\ job[a.commit].ref = ref}
    IN  {l \in Language \ dismissed :
            \E a \in Of(l) : a.found /\ \A b \in Of(l) : b.commit <= a.commit}
-----------------------------------------------------------------------------
Run(ref, wanted, pc) == [ref |-> ref, wanted |-> wanted, pc |-> pc, polls |-> 0, here |-> {}]
Going == {"analyze", "wait", "read", "judge"}
Pc == Going \union {"none", "cancelled", "passed", "refused"}

\* The next commit, after all those there are.
Fresh(n) == job[n].pc = "none" /\ \A m \in 1..(n - 1) : job[m].pc # "none"

Init ==
    /\ head = [r \in Ref |-> 0]
    /\ job = [c \in Commit |-> Run("pull", {}, "none")]
    /\ pending = {} /\ analyses = {} /\ dismissed = {} /\ main = {}

\* What another tool uploads of a commit, at once and having found nothing.
Others(c) == {[commit |-> c, category |-> <<"written", l>>, tool |-> "Other", found |-> FALSE] : l \in Elsewhere}

\* A pull request is pushed: its workflow may name other languages than the one
\* before it, and the run on its old head is cancelled.
Cancelled(c) == job[c].ref = "pull" /\ job[c].pc \in Going

Push(n) ==
    /\ Fresh(n)
    /\ \E matrix, init \in SUBSET Language :
        job' = [c \in Commit |-> IF c = n THEN Run("pull", Expected(matrix, init), "analyze")
                                 ELSE IF Cancelled(c) THEN [job[c] EXCEPT !.pc = "cancelled"]
                                 ELSE job[c]]
    /\ head' = [head EXCEPT !["pull"] = n]
    /\ analyses' = analyses \union Others(n)
    /\ UNCHANGED <<pending, dismissed, main>>

\* The head that passed is queued, as a commit of the queue's own branch.
Enqueue(n) ==
    /\ Fresh(n)
    /\ head["pull"] # 0 /\ job[head["pull"]].pc = "passed"
    /\ head["queue"] = 0
    /\ job' = [job EXCEPT ![n] = Run("queue", job[head["pull"]].wanted, "analyze")]
    /\ head' = [head EXCEPT !["queue"] = n]
    /\ analyses' = analyses \union Others(n)
    /\ UNCHANGED <<pending, dismissed, main>>

\* The analysis of each language is uploaded, or its upload fails; the alerts
\* are asked about either way.
Analyze(c) ==
    /\ job[c].pc = "analyze"
    /\ \E up \in SUBSET job[c].wanted : \E found \in SUBSET up :
        pending' = pending \union
            {[commit |-> c, category |-> Category(l), tool |-> "CodeQL", found |-> l \in found] : l \in up}
    /\ job' = [job EXCEPT ![c].pc = "wait", ![c].polls = 0]
    /\ UNCHANGED <<head, analyses, dismissed, main>>

\* An accepted upload can be asked about, in no order.
Land(a) ==
    /\ pending' = pending \ {a}
    /\ analyses' = analyses \union {a}
    /\ UNCHANGED <<head, job, dismissed, main>>

\* `--complete-only': asked again until every analysis landed, or often enough.
Complete(c) == ~Refused(job[c].wanted) /\ Missing(At(analyses, c), job[c].wanted) = {}
Waited(c) == Complete(c) \/ job[c].polls + 1 = MaxPolls

Poll(c) ==
    /\ job[c].pc = "wait"
    /\ job' = [job EXCEPT ![c].polls = @ + 1, ![c].pc = IF Waited(c) THEN "read" ELSE "wait"]
    /\ UNCHANGED <<head, pending, analyses, dismissed, main>>

\* The analyses are read first ...
Read(c) ==
    /\ job[c].pc = "read"
    /\ job' = [job EXCEPT ![c].here = At(analyses, c), ![c].pc = "judge"]
    /\ UNCHANGED <<head, pending, analyses, dismissed, main>>

\* ... and the alerts of the ref after them.
Judge(c) ==
    /\ job[c].pc = "judge"
    /\ job' = [job EXCEPT ![c].pc = IF Allows(job[c].here, job[c].wanted, Open(job[c].ref))
                                    THEN "passed" ELSE "refused"]
    /\ UNCHANGED <<head, pending, analyses, dismissed, main>>

\* A finding is dismissed with a reason.
Dismiss(l) ==
    /\ l \notin dismissed
    /\ dismissed' = dismissed \union {l}
    /\ UNCHANGED <<head, job, pending, analyses, main>>

\* The queue merges what passed on its branch, and drops what was refused.
Merge ==
    /\ head["queue"] # 0 /\ job[head["queue"]].pc = "passed"
    /\ main' = main \union {head["queue"]}
    /\ head' = [head EXCEPT !["queue"] = 0]
    /\ UNCHANGED <<job, pending, analyses, dismissed>>

Drop ==
    /\ head["queue"] # 0 /\ job[head["queue"]].pc = "refused"
    /\ head' = [head EXCEPT !["queue"] = 0]
    /\ UNCHANGED <<job, pending, analyses, dismissed, main>>

Step(c) == Analyze(c) \/ Poll(c) \/ Read(c) \/ Judge(c)

Next ==
    \/ \E n \in Commit : Push(n) \/ Enqueue(n) \/ Step(n)
    \/ Merge \/ Drop
    \/ \E a \in pending : Land(a)
    \/ \E l \in Language : Dismiss(l)

Spec == Init /\ [][Next]_vars
-----------------------------------------------------------------------------
\* The state has its type.
TypeOK ==
    /\ head \in [Ref -> {0} \union Commit]
    /\ job \in [Commit -> [ref: Ref, wanted: SUBSET Language, pc: Pc, polls: 0..MaxPolls,
                           here: SUBSET Categories]]
    /\ pending \subseteq Analysis /\ analyses \subseteq Analysis
    /\ dismissed \subseteq Language
    /\ main \subseteq Commit

\* What a commit's own analyses found for a language that nobody dismissed.
StandsAgainst(c, l) ==
    l \notin dismissed /\ \E a \in analyses : a.commit = c /\ a.tool = "CodeQL" /\ Named(a.category) = l /\ a.found
Analysed(c, l) == \E a \in analyses : a.commit = c /\ a.tool = "CodeQL" /\ Named(a.category) = l

\* `This gate going green having looked at nothing' is what it exists against:
\* a run that passed stood on an analysis of its own commit for every language
\* its workflow names, and none of them has an open finding, although the alerts
\* it read are the ref's and not the commit's.
GreenMeansLooked ==
    \A c \in Commit : job[c].pc = "passed" =>
        /\ job[c].wanted # {}
        /\ \A l \in job[c].wanted : Analysed(c, l) /\ ~StandsAgainst(c, l)

\* `So a step can wait for one rather than race it': a run whose analyses had
\* all landed before the wait was over, with nothing found, is not refused.
NotRefusedForNothing ==
    \A c \in Commit : job[c].pc = "refused" =>
        \/ Refused(job[c].wanted)
        \/ job[c].polls = MaxPolls /\ \E l \in job[c].wanted : Category(l) \notin job[c].here
        \/ \E a \in analyses : a.tool = "CodeQL" /\ job[a.commit].ref = job[c].ref /\ a.found
=============================================================================
