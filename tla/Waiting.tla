------------------------------ MODULE Waiting -------------------------------
(***************************************************************************)
(* wait_for_all of scripts/check_runs.py: every probe of the services just *)
(* started, asked round by round until it answers or its own budget is     *)
(* spent.  The clock is the script's, counted in whole units from the      *)
(* start of the wait; asking takes time, because a connection that hangs   *)
(* is held until the attempt's own ceiling.                                *)
(***************************************************************************)
EXTENDS Integers, FiniteSets

CONSTANTS Service,        \* the services the chosen profiles hold
          Position,       \* where each comes in the order they are asked
          Container,      \* those whose health is `container': asked nothing
          Timeout,        \* timeout_s of each probe, from the manifest
          Longest,        \* no budget is longer than this
          Settle,         \* CONTAINER_SETTLE_S: the dwell of a container probe
          Poll,           \* POLL_S: the pause between two rounds
          Attempt         \* ATTEMPT_TIMEOUT_S: the most one ask takes

\* The order is the probes' order in a list, so no two share a place.  A
\* pause takes time, without which no budget would ever run out.
ASSUME WaitingAssumption ==
    /\ IsFiniteSet(Service)
    /\ Position \in [Service -> Nat]
    /\ \A s, t \in Service : Position[s] = Position[t] => s = t
    /\ Container \subseteq Service
    /\ Timeout \in [Service -> Nat]
    /\ Longest \in Nat
    /\ \A s \in Service : Timeout[s] <= Longest
    /\ Settle \in Nat
    /\ Poll \in Nat \ {0}
    /\ Attempt \in Nat

VARIABLES now,            \* clock() - started
          pending,        \* the probes not yet decided
          round,          \* those of this round not yet asked
          serving,        \* the services that answer a request, when asked one
          verdict,        \* what has been recorded of each
          at,             \* elapsed_s: when it was recorded
          since           \* history: since when each answers, or did when decided

vars == <<now, pending, round, serving, verdict, at, since>>
-----------------------------------------------------------------------------
\* `attempt': a network probe passes if the service answers it; a container
\* probe once its dwell is over.  A container probe asks nothing, so takes no
\* time.  (The definitions named for a slip are what the checks must catch.)
SlipConnectIsAnAnswer(s) == IF s \in Container THEN now >= Settle ELSE TRUE
Passes(s) == IF s \in Container THEN now >= Settle ELSE s \in serving

Cost(s) == IF s \in Container THEN {0} ELSE 0..Attempt

SlipNeverSpent(s) == FALSE
BudgetSpent(s) == now >= Timeout[s]

\* An answer is taken whatever the clock says; only a probe that did not
\* answer is held to its budget.
SlipBudgetFirst(s) == IF BudgetSpent(s) THEN "late" ELSE IF Passes(s) THEN "ok" ELSE "none"
Judgement(s) == IF Passes(s) THEN "ok" ELSE IF BudgetSpent(s) THEN "late" ELSE "none"

Record(s, said) ==
    /\ verdict' = [verdict EXCEPT ![s] = said]
    /\ at' = [at EXCEPT ![s] = now]
    /\ pending' = pending \ {s}

WaitInit ==
    /\ now = 0
    /\ pending = Service
    /\ round = Service
    /\ verdict = [s \in Service |-> "none"]
    /\ at = [s \in Service |-> 0]

Init == WaitInit /\ serving \in SUBSET Service /\ since = [s \in Service |-> 0]

\* The next probe of the round is asked, the clock read before it is.
Ask(s) ==
    /\ s \in round
    /\ \A t \in round : Position[s] <= Position[t]
    /\ round' = round \ {s}
    /\ \E spent \in Cost(s) : now' = now + spent
    /\ IF Judgement(s) = "none"
       THEN UNCHANGED <<pending, verdict, at>>
       ELSE Record(s, Judgement(s))
    /\ UNCHANGED <<serving, since>>

\* A round is over and something is still pending: pause, and go round again.
SlipOneAtATime ==
    /\ round = {}
    /\ pending # {}
    /\ now' = now + Poll
    /\ round' = {s \in pending : \A t \in pending : Position[s] <= Position[t]}
    /\ UNCHANGED <<pending, serving, verdict, at, since>>
SlipLeavesTheLast ==
    /\ round = {}
    /\ Cardinality(pending) > 1
    /\ now' = now + Poll
    /\ round' = pending
    /\ UNCHANGED <<pending, serving, verdict, at, since>>
Pause ==
    /\ round = {}
    /\ pending # {}
    /\ now' = now + Poll
    /\ round' = pending
    /\ UNCHANGED <<pending, serving, verdict, at, since>>

Waited == pending = {}

Wait == Pause \/ \E s \in Service : Ask(s)

\* A service finishes booting, hangs or goes away.
Turn(s) ==
    /\ serving' = (serving \ {s}) \union ({s} \ serving)
    /\ since' = IF s \in pending \ serving THEN [since EXCEPT ![s] = now] ELSE since
    /\ UNCHANGED <<now, pending, round, verdict, at>>

Next == Wait \/ \E s \in Service : Turn(s)

\* The script runs on while anything is pending; no service has to do anything.
Spec == Init /\ [][Next]_vars /\ WF_vars(Wait)
-----------------------------------------------------------------------------
\* The state has its type.
TypeOK ==
    /\ now \in Nat
    /\ pending \subseteq Service
    /\ round \subseteq Service
    /\ serving \subseteq Service
    /\ verdict \in [Service -> {"none", "ok", "late"}]
    /\ at \in [Service -> Nat]
    /\ since \in [Service -> Nat]

\* A probe is pending exactly while nothing is recorded of it, and a round
\* asks only pending ones: none is dropped unjudged, none is judged twice.
PendingIsUndecided ==
    /\ round \subseteq pending
    /\ pending = {s \in Service : verdict[s] = "none"}

\* A container given its dwell as a budget, or more, is never late: the
\* comments beside POLL_MARGIN_S and in probe_of.
DwellIsNeverLate ==
    \A s \in Container : Timeout[s] >= Settle => verdict[s] # "late"

\* The whole wait lasts as long as its slowest budget, a pause and two rounds
\* of hung attempts, however many services share it, and not as long as the
\* budgets added together: the first promise of wait_for_all's docstring.
RoundBound == Attempt * Cardinality(Service \ Container)
AsLongAsTheSlowest == now <= Longest + Poll + 2 * RoundBound

\* No probe waits on the others' account for more than a pause and one round of
\* their asks: it is called late no later than that after its own budget, and
\* heard no later than that after it began to answer, whatever the others do.
\* This is how much holds of the docstring's second promise.
Ready(s) == IF s \in Container THEN Settle ELSE since[s]
OneRoundsQueue ==
    \A s \in Service :
        /\ verdict[s] # "none" => at[s] <= Timeout[s] + Poll + RoundBound
        /\ verdict[s] = "ok" => at[s] <= Ready(s) + Poll + RoundBound

\* wait_for_all decides each probe once, on what the service does at that
\* moment: the abstract wait of Probes.tla.
Promise == INSTANCE Probes WITH
    answering <- (serving \ Container) \union {s \in Container : now >= Settle}
DecidesOnce == Promise!Spec

\* A service that answers from some point on, while it is still pending, is
\* heard: the question is put before the budget is looked at.
SteadyIsHeard ==
    \A s \in Service \ Container :
        (s \in pending /\ [](s \in serving)) ~> (verdict[s] = "ok")

\* Every wait ends, whatever the services do.
WaitEnds == <>Waited
=============================================================================
