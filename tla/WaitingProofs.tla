--------------------------- MODULE WaitingProofs ---------------------------
(***************************************************************************)
(* What holds of wait_for_all for any services, budgets, order, dwell and  *)
(* pause, and however long an attempt may hang.                            *)
(***************************************************************************)
EXTENDS Waiting, FiniteSetTheorems, TLAPS

\* The time the asks of a set of probes can take at most.
Load(R) == Attempt * Cardinality(R \ Container)

\* A network probe leaves its share of a round's time behind when it is asked,
\* a container probe none; and no round takes longer than one over everything.
LEMMA LoadFacts ==
    ASSUME NEW R, R \subseteq Service
    PROVE  /\ Load(R) \in Nat
           /\ Load(R) <= RoundBound
           /\ \A s \in R : s \notin Container => Load(R \ {s}) + Attempt = Load(R)
           /\ \A s \in R : s \in Container => Load(R \ {s}) = Load(R)
  <1> DEFINE net == R \ Container
             all == Service \ Container
  <1>1. IsFiniteSet(all) /\ IsFiniteSet(net)
    BY WaitingAssumption, FS_Difference, FS_Subset
  <1>2. Cardinality(net) \in Nat /\ Cardinality(all) \in Nat /\ Cardinality(net) <= Cardinality(all)
    BY <1>1, FS_Subset, FS_CardinalityType
  <1>3. Attempt * Cardinality(net) \in Nat
    BY <1>2, WaitingAssumption
  <1>4. Attempt * Cardinality(net) <= Attempt * Cardinality(all)
    <2>1. ASSUME NEW c \in Nat, NEW n \in Nat, NEW a \in Nat, c <= n PROVE a * c <= a * n
      <3>1. PICK k \in Nat : n = c + k
        BY <2>1
      <3>2. a * n = a * c + a * k /\ a * k \in Nat /\ a * c \in Nat
        BY <3>1
      <3>3. QED
        BY <3>2
    <2>2. QED
      BY <1>2, <2>1, WaitingAssumption
  <1>5. ASSUME NEW s \in R, s \notin Container PROVE Load(R \ {s}) + Attempt = Load(R)
    <2>1. (R \ {s}) \ Container = net \ {s} /\ s \in net
      BY <1>5
    <2>2. Cardinality(net \ {s}) = Cardinality(net) - 1
      BY <1>1, <2>1, FS_RemoveElement
    <2>3. ASSUME NEW c \in Nat, NEW a \in Nat PROVE a * (c - 1) + a = a * c
      OBVIOUS
    <2>4. QED
      BY <1>2, <2>1, <2>2, <2>3, WaitingAssumption DEF Load
  <1>6. ASSUME NEW s \in R, s \in Container PROVE Load(R \ {s}) = Load(R)
    <2>1. (R \ {s}) \ Container = net
      BY <1>6
    <2>2. QED
      BY <2>1 DEF Load
  <1>7. QED
    BY <1>3, <1>4, <1>5, <1>6 DEF Load, RoundBound
-----------------------------------------------------------------------------
\* The state of the wait keeps its type.
THEOREM Typing == Spec => []TypeOK
  <1>1. Init => TypeOK
    BY WaitingAssumption DEF Init, WaitInit, TypeOK
  <1>2. TypeOK /\ [Next]_vars => TypeOK'
    <2> SUFFICES ASSUME TypeOK, [Next]_vars PROVE TypeOK'
      OBVIOUS
    <2> USE WaitingAssumption DEF TypeOK
    <2>1. CASE Pause
      BY <2>1 DEF Pause
    <2>2. ASSUME NEW s \in Service, Ask(s) PROVE TypeOK'
      <3>1. now' \in Nat
        BY <2>2 DEF Ask, Cost
      <3>2. Judgement(s) \in {"none", "ok", "late"}
        BY DEF Judgement
      <3>3. QED
        BY <2>2, <3>1, <3>2 DEF Ask, Record
    <2>3. ASSUME NEW s \in Service, Turn(s) PROVE TypeOK'
      BY <2>3 DEF Turn
    <2>4. CASE UNCHANGED vars
      BY <2>4 DEF vars
    <2>5. QED
      BY <2>1, <2>2, <2>3, <2>4 DEF Next, Wait
  <1>3. QED
    BY <1>1, <1>2, PTL DEF Spec

\* Nothing is dropped unjudged or judged twice: a probe is pending exactly
\* while nothing is recorded of it, and a round asks only pending ones.
THEOREM NoneDroppedNoneTwice == Spec => []PendingIsUndecided
  <1>1. Init => PendingIsUndecided
    BY DEF Init, WaitInit, PendingIsUndecided
  <1>2. TypeOK /\ PendingIsUndecided /\ [Next]_vars => PendingIsUndecided'
    <2> SUFFICES ASSUME TypeOK, PendingIsUndecided, [Next]_vars PROVE PendingIsUndecided'
      OBVIOUS
    <2> USE DEF TypeOK, PendingIsUndecided
    <2>1. CASE Pause
      BY <2>1 DEF Pause
    <2>2. ASSUME NEW s \in Service, Ask(s) PROVE PendingIsUndecided'
      <3>1. CASE Judgement(s) = "none"
        BY <2>2, <3>1 DEF Ask
      <3>2. CASE Judgement(s) # "none"
        BY <2>2, <3>2 DEF Ask, Record
      <3>3. QED
        BY <3>1, <3>2
    <2>3. ASSUME NEW s \in Service, Turn(s) PROVE PendingIsUndecided'
      BY <2>3 DEF Turn
    <2>4. CASE UNCHANGED vars
      BY <2>4 DEF vars
    <2>5. QED
      BY <2>1, <2>2, <2>3, <2>4 DEF Next, Wait
  <1>3. QED
    BY <1>1, <1>2, Typing, PTL DEF Spec

\* A container whose budget holds its dwell is never reported late.
THEOREM DwellsAreNeverLate == Spec => []DwellIsNeverLate
  <1>1. Init => DwellIsNeverLate
    BY WaitingAssumption DEF Init, WaitInit, DwellIsNeverLate
  <1>2. TypeOK /\ DwellIsNeverLate /\ [Next]_vars => DwellIsNeverLate'
    <2> SUFFICES ASSUME TypeOK, DwellIsNeverLate, [Next]_vars PROVE DwellIsNeverLate'
      OBVIOUS
    <2> USE DEF TypeOK, DwellIsNeverLate
    <2>1. CASE UNCHANGED verdict
      BY <2>1
    <2>2. ASSUME NEW s \in Service, Ask(s), Judgement(s) # "none" PROVE DwellIsNeverLate'
      <3>1. verdict' = [verdict EXCEPT ![s] = Judgement(s)]
        BY <2>2 DEF Ask, Record
      <3>2. s \in Container /\ Judgement(s) = "late" => now >= Timeout[s] /\ ~(now >= Settle)
        BY DEF Judgement, BudgetSpent, Passes
      <3>3. s \in Container /\ Timeout[s] >= Settle => Judgement(s) # "late"
        BY <3>2, WaitingAssumption
      <3>4. QED
        BY <3>1, <3>3, WaitingAssumption
    <2>3. QED
      BY <2>1, <2>2 DEF Next, Wait, Pause, Ask, Turn, vars
  <1>3. QED
    BY <1>1, <1>2, Typing, PTL DEF Spec
-----------------------------------------------------------------------------
\* Why the wait is no longer than its slowest budget: a probe asked in this
\* round and still pending was asked with budget left, so the rest of the
\* round ends a round's time after the longest budget; any round starts a
\* pause after such a round, or at zero.
RoundsInTime ==
    /\ now + Load(round) <= Longest + Poll + 2 * RoundBound
    /\ pending \ round # {} => now + Load(round) <= Longest + RoundBound

\* However many services share the wait, and however long each attempt hangs,
\* it lasts the longest budget, a pause and two rounds at most.
THEOREM NoLongerThanTheSlowest == Spec => []AsLongAsTheSlowest
  <1> USE WaitingAssumption
  <1>a. RoundBound \in Nat
    BY LoadFacts, Load(Service) = RoundBound DEF Load, RoundBound
  <1>1. Init => RoundsInTime
    <2> SUFFICES ASSUME Init PROVE RoundsInTime
      OBVIOUS
    <2>1. now = 0 /\ round = Service /\ pending = Service
      BY DEF Init, WaitInit
    <2>2. Load(Service) \in Nat /\ Load(Service) <= RoundBound
      BY LoadFacts
    <2>3. QED
      BY <1>a, <2>1, <2>2 DEF RoundsInTime
  <1>2. TypeOK /\ PendingIsUndecided /\ RoundsInTime /\ [Next]_vars => RoundsInTime'
    <2> SUFFICES ASSUME TypeOK, PendingIsUndecided, RoundsInTime, [Next]_vars PROVE RoundsInTime'
      OBVIOUS
    <2>a. Load(round) \in Nat /\ Load(round) <= RoundBound
      BY LoadFacts DEF TypeOK
    <2>1. CASE Pause
      <3>1. round = {} /\ pending \ round # {} /\ now' = now + Poll /\ round' = pending /\ pending' = pending
        BY <2>1 DEF Pause
      <3>2. Load(pending) \in Nat /\ Load(pending) <= RoundBound
        BY LoadFacts DEF TypeOK
      <3>3. now <= Longest + RoundBound
        BY <1>a, <2>a, <3>1 DEF RoundsInTime, TypeOK
      <3>4. Load(round') = Load(pending)
        BY <3>1 DEF Load
      <3>5. QED
        BY <1>a, <3>1, <3>2, <3>3, <3>4 DEF RoundsInTime, TypeOK
    <2>2. ASSUME NEW s \in Service, Ask(s) PROVE RoundsInTime'
      <3>1. s \in round /\ round' = round \ {s} /\ s \in pending
        BY <2>2 DEF Ask, PendingIsUndecided
      <3>2. PICK spent \in Cost(s) : now' = now + spent
        BY <2>2 DEF Ask
      <3>3. Load(round \ {s}) \in Nat
        BY LoadFacts DEF TypeOK
      <3>4. spent \in Nat /\ spent + Load(round \ {s}) <= Load(round)
        <4>1. CASE s \in Container
          BY <2>a, <3>1, <3>2, <3>3, <4>1, LoadFacts DEF Cost, TypeOK
        <4>2. CASE s \notin Container
          BY <2>a, <3>1, <3>2, <3>3, <4>2, LoadFacts DEF Cost, TypeOK
        <4>3. QED
          BY <4>1, <4>2
      <3>5. now' + Load(round') <= now + Load(round)
        BY <2>a, <3>1, <3>2, <3>3, <3>4 DEF TypeOK
      <3>6. now' + Load(round') \in Nat
        BY <3>1, <3>2, <3>3, <3>4 DEF TypeOK
      <3>7. CASE Judgement(s) = "none"
        <4>1. now <= Longest
          BY <3>7 DEF Judgement, BudgetSpent, TypeOK
        <4>2. now' + Load(round') <= Longest + RoundBound
          BY <1>a, <2>a, <3>5, <3>6, <4>1 DEF TypeOK
        <4>3. QED
          BY <1>a, <2>a, <3>5, <3>6, <4>2 DEF RoundsInTime, TypeOK
      <3>8. CASE Judgement(s) # "none"
        <4>1. pending' \ round' = pending \ round
          BY <2>2, <3>1, <3>8 DEF Ask, Record
        <4>2. QED
          BY <1>a, <2>a, <3>5, <3>6, <4>1 DEF RoundsInTime, TypeOK
      <3>9. QED
        BY <3>7, <3>8
    <2>3. CASE UNCHANGED <<now, pending, round>>
      BY <2>3 DEF RoundsInTime, Load
    <2>4. QED
      BY <2>1, <2>2, <2>3 DEF Next, Wait, Turn, vars
  <1>3. TypeOK /\ RoundsInTime => AsLongAsTheSlowest
    <2> SUFFICES ASSUME TypeOK, RoundsInTime PROVE AsLongAsTheSlowest
      OBVIOUS
    <2>1. Load(round) \in Nat
      BY LoadFacts DEF TypeOK
    <2>2. QED
      BY <1>a, <2>1 DEF RoundsInTime, AsLongAsTheSlowest, TypeOK
  <1>4. QED
    BY <1>1, <1>2, <1>3, Typing, NoneDroppedNoneTwice, PTL DEF Spec

\* The loads of sets that share no probe add up, and a part weighs no more
\* than the whole.
LEMMA LoadApart ==
    ASSUME NEW A, NEW B, A \subseteq Service, B \subseteq Service
    PROVE  /\ A \subseteq B => Load(A) <= Load(B)
           /\ A \intersect B = {} => Load(A) + Load(B) <= RoundBound
  <1> DEFINE a == A \ Container
             b == B \ Container
  <1>1. IsFiniteSet(a) /\ IsFiniteSet(b) /\ IsFiniteSet(a \union b)
    BY WaitingAssumption, FS_Subset
  <1>2. Cardinality(a) \in Nat /\ Cardinality(b) \in Nat /\ Cardinality(a \union b) \in Nat
    BY <1>1, FS_CardinalityType
  <1>3. ASSUME NEW c \in Nat, NEW n \in Nat, NEW k \in Nat, c <= n PROVE k * c <= k * n
    <2>1. PICK d \in Nat : n = c + d
      BY <1>3
    <2>2. k * n = k * c + k * d /\ k * d \in Nat /\ k * c \in Nat
      BY <2>1
    <2>3. QED
      BY <2>2
  <1>4. ASSUME A \subseteq B PROVE Load(A) <= Load(B)
    <2>1. Cardinality(a) <= Cardinality(b)
      BY <1>1, <1>4, FS_Subset
    <2>2. QED
      BY <1>2, <1>3, <2>1, WaitingAssumption DEF Load
  <1>5. ASSUME A \intersect B = {} PROVE Load(A) + Load(B) <= RoundBound
    <2>1. a \intersect b = {}
      BY <1>5
    <2>2. Cardinality(a \union b) = Cardinality(a) + Cardinality(b)
      <3>1. Cardinality(a \union b) = Cardinality(a) + Cardinality(b) - Cardinality(a \intersect b)
        BY <1>1, FS_Union
      <3>2. Cardinality(a \intersect b) = 0
        BY <2>1, FS_EmptySet
      <3>3. QED
        BY <1>2, <3>1, <3>2
    <2>3. Load(A \union B) <= RoundBound /\ (A \union B) \ Container = a \union b
      BY LoadFacts
    <2>4. ASSUME NEW c \in Nat, NEW n \in Nat, NEW k \in Nat PROVE k * (c + n) = k * c + k * n
      OBVIOUS
    <2>5. Attempt * (Cardinality(a) + Cardinality(b)) = Attempt * Cardinality(a) + Attempt * Cardinality(b)
      BY <1>2, <2>4, WaitingAssumption
    <2>6. Load(A \union B) = Load(A) + Load(B)
      BY <2>2, <2>3, <2>5 DEF Load
    <2>7. QED
      BY <2>3, <2>6
  <1>6. QED
    BY <1>4, <1>5

\* Why a probe queues for one round: from the moment it is due, those left of
\* this round and those before it in the next are asked once before it is.
Before(s) == {q \in Service : Position[q] < Position[s]}

InQueue(s, due) ==
    /\ s \in round => now + Load(round \intersect Before(s)) <= due + Poll + RoundBound
    /\ s \notin round => now + Load(round) + Load(Before(s)) <= due + RoundBound

Prompt ==
    \A s \in pending :
        /\ s \notin round => round \intersect Before(s) = {}
        /\ InQueue(s, Timeout[s])
        /\ s \in Container => InQueue(s, Settle)
        /\ s \in serving \ Container => InQueue(s, since[s])

LEMMA Loads ==
    ASSUME TypeOK, NEW s \in Service
    PROVE  /\ RoundBound \in Nat
           /\ Before(s) \subseteq Service /\ round \intersect Before(s) \subseteq Service
           /\ Load(round) \in Nat /\ Load(Before(s)) \in Nat /\ Load(round \intersect Before(s)) \in Nat
  <1>1. Load(Service) = RoundBound
    BY DEF Load, RoundBound
  <1>2. QED
    BY <1>1, LoadFacts DEF TypeOK, Before

\* Asked and not answered, a probe not yet due queues from now on.
LEMMA AskedAgain ==
    ASSUME TypeOK, NEW s \in Service, Ask(s), NEW due \in Nat, now <= due
    PROVE  round' \intersect Before(s) = {} /\ InQueue(s, due)'
  <1>1. s \in round /\ round' = round \ {s} /\ \A q \in round : Position[s] <= Position[q]
    BY DEF Ask
  <1>2. round' \subseteq Service /\ round' \intersect Before(s) = {} /\ round \intersect Before(s) = {}
    BY <1>1, WaitingAssumption DEF Before, TypeOK
  <1>3. PICK spent \in Cost(s) : now' = now + spent
    BY DEF Ask
  <1>4. Load(round') \in Nat /\ spent \in Nat /\ spent + Load(round') <= Load(round)
    <2>1. Load(round') = Load(round \ {s}) /\ Load(round') \in Nat
      BY <1>1, <1>2, LoadFacts DEF Load
    <2>2. CASE s \in Container
      BY <1>1, <1>3, <2>1, <2>2, Loads, LoadFacts DEF Cost, TypeOK
    <2>3. CASE s \notin Container
      BY <1>1, <1>3, <2>1, <2>3, Loads, LoadFacts, WaitingAssumption DEF Cost, TypeOK
    <2>4. QED
      BY <2>2, <2>3, <2>1
  <1>5. Load(round) + Load(Before(s)) <= RoundBound
    BY <1>2, Loads, LoadApart DEF TypeOK
  <1>6. s \notin round' /\ now' + Load(round') + Load(Before(s)) <= due + RoundBound
    <2>1. /\ now \in Nat /\ RoundBound \in Nat
          /\ Load(round) \in Nat /\ Load(Before(s)) \in Nat
      BY Loads DEF TypeOK
    <2>2. now' + Load(round') + Load(Before(s)) <= due + RoundBound
      BY <1>3, <1>4, <1>5, <2>1
    <2>3. QED
      BY <1>1, <2>2
  <1>7. QED
    BY <1>2, <1>6 DEF InQueue, Load, Before

\* Another's ask, or a pause, takes no more than what stood before the probe.
LEMMA QueueMoves ==
    ASSUME TypeOK, PendingIsUndecided, NEW s \in pending, NEW due \in Nat, InQueue(s, due),
           s \notin round => round \intersect Before(s) = {},
           Pause \/ \E q \in Service \ {s} : Ask(q)
    PROVE  /\ InQueue(s, due)'
           /\ s \notin round' => round' \intersect Before(s) = {}
  <1>0. s \in Service /\ now \in Nat /\ Poll \in Nat
    BY WaitingAssumption DEF TypeOK
  <1>1. CASE Pause
    <2>1. round = {} /\ round' = pending /\ now' = now + Poll /\ s \notin round /\ s \in round'
      BY <1>1 DEF Pause
    <2>2. Load(round' \intersect Before(s)) <= Load(Before(s)) /\ Load(round' \intersect Before(s)) \in Nat
      <3>1. round' \intersect Before(s) \subseteq Service /\ Before(s) \subseteq Service
        BY <1>0, <2>1, Loads DEF TypeOK
      <3>2. QED
        BY <3>1, LoadApart, LoadFacts
    <2>3. now + Load(Before(s)) <= due + RoundBound
      BY <1>0, <2>1, Loads DEF InQueue
    <2>4. now' + Load(round' \intersect Before(s)) <= due + Poll + RoundBound
      BY <1>0, <2>1, <2>2, <2>3, Loads
    <2>5. QED
      BY <2>1, <2>4 DEF InQueue, Load, Before
  <1>2. ASSUME NEW q \in Service \ {s}, Ask(q)
        PROVE  /\ InQueue(s, due)'
               /\ s \notin round' => round' \intersect Before(s) = {}
    <2>1. q \in round /\ round' = round \ {q} /\ \A t \in round : Position[q] <= Position[t]
      BY <1>2 DEF Ask
    <2>2. PICK spent \in Cost(q) : now' = now + spent
      BY <1>2 DEF Ask
    <2>3. ASSUME NEW R, R \subseteq Service, q \in R
          PROVE  Load(R \ {q}) \in Nat /\ spent \in Nat /\ spent + Load(R \ {q}) <= Load(R)
      <3>1. Load(R \ {q}) \in Nat /\ Load(R) \in Nat
        BY <2>3, LoadFacts
      <3>2. CASE q \in Container
        BY <2>2, <2>3, <3>1, <3>2, LoadFacts DEF Cost
      <3>3. CASE q \notin Container
        BY <2>2, <2>3, <3>1, <3>3, LoadFacts, WaitingAssumption DEF Cost
      <3>4. QED
        BY <3>1, <3>2, <3>3
    <2>4. CASE s \in round
      <3>1. q \in round \intersect Before(s)
        BY <1>0, <2>1, <2>4, WaitingAssumption DEF Before, TypeOK
      <3>2. round' \intersect Before(s) = (round \intersect Before(s)) \ {q} /\ s \in round'
        BY <2>1, <2>4
      <3>3. now + Load(round \intersect Before(s)) <= due + Poll + RoundBound
        BY <2>4 DEF InQueue
      <3>4. spent \in Nat /\ spent + Load(round' \intersect Before(s)) <= Load(round \intersect Before(s))
            /\ Load(round' \intersect Before(s)) \in Nat
        BY <1>0, <2>3, <3>1, <3>2, Loads
      <3>5. now' + Load(round' \intersect Before(s)) <= due + Poll + RoundBound
        BY <1>0, <2>2, <3>3, <3>4, Loads
      <3>6. QED
        BY <3>2, <3>5 DEF InQueue, Load, Before
    <2>5. CASE s \notin round
      <3>1. now + Load(round) + Load(Before(s)) <= due + RoundBound
        BY <2>5 DEF InQueue
      <3>2. spent \in Nat /\ spent + Load(round') <= Load(round) /\ Load(round') \in Nat
        BY <2>1, <2>3 DEF TypeOK, Load
      <3>3. now' + Load(round') + Load(Before(s)) <= due + RoundBound
        <4>1. Load(round) \in Nat /\ Load(Before(s)) \in Nat /\ RoundBound \in Nat
          BY <1>0, Loads
        <4>2. QED
          BY <1>0, <2>2, <3>1, <3>2, <4>1
      <3>4. s \notin round' /\ round' \intersect Before(s) = {}
        BY <2>1, <2>5
      <3>5. QED
        BY <3>3, <3>4 DEF InQueue, Load, Before
    <2>6. QED
      BY <2>4, <2>5
  <1>3. QED
    BY <1>1, <1>2

\* No probe is held up by the others for longer than a pause and one round of
\* their asks, past its own budget or past its own answer.
THEOREM NoneQueuesLonger == Spec => []OneRoundsQueue
  <1>1. Init => Prompt /\ OneRoundsQueue
    <2> SUFFICES ASSUME Init PROVE Prompt /\ OneRoundsQueue
      OBVIOUS
    <2>1. /\ now = 0 /\ round = Service /\ pending = Service /\ since = [s \in Service |-> 0]
          /\ verdict = [s \in Service |-> "none"]
      BY DEF Init, WaitInit
    <2>2. \A s \in Service : Load(round \intersect Before(s)) \in Nat /\ Load(round \intersect Before(s)) <= RoundBound
      BY <2>1, LoadFacts
    <2>3. RoundBound \in Nat
      BY LoadFacts, Load(Service) = RoundBound DEF Load, RoundBound
    <2>4. ASSUME NEW s \in Service, NEW due \in Nat PROVE InQueue(s, due)
      BY <2>1, <2>2, <2>3, WaitingAssumption DEF InQueue
    <2>5. QED
      BY <2>1, <2>4, WaitingAssumption DEF Prompt, OneRoundsQueue
  <1>2. TypeOK /\ TypeOK' /\ PendingIsUndecided /\ Prompt /\ [Next]_vars => Prompt'
    <2> SUFFICES ASSUME TypeOK, TypeOK', PendingIsUndecided, Prompt, [Next]_vars, NEW s \in pending' PROVE
                    /\ s \notin round' => round' \intersect Before(s) = {}
                    /\ InQueue(s, Timeout[s])'
                    /\ s \in Container => InQueue(s, Settle)'
                    /\ s \in serving' \ Container => InQueue(s, since[s])'
      BY DEF Prompt, Before
    <2>0. s \in pending /\ s \in Service /\ Timeout[s] \in Nat /\ Settle \in Nat /\ since[s] \in Nat /\ now \in Nat
      BY WaitingAssumption DEF Next, Wait, Pause, Ask, Record, Turn, vars, TypeOK
    <2>1. CASE Pause \/ \E q \in Service \ {s} : Ask(q)
      <3>1. UNCHANGED <<serving, since>>
        BY <2>1 DEF Pause, Ask
      <3>2. QED
        BY <2>0, <2>1, <3>1, QueueMoves DEF Prompt, InQueue
    <2>2. CASE Ask(s)
      <3>1. Judgement(s) = "none" /\ UNCHANGED <<serving, since>>
        BY <2>2 DEF Ask, Record
      <3>2. s \notin serving \ Container /\ now <= Timeout[s] /\ (s \in Container => now <= Settle)
        BY <2>0, <3>1, WaitingAssumption DEF Judgement, Passes, BudgetSpent
      <3>3. QED
        BY <2>0, <2>2, <3>1, <3>2, AskedAgain DEF InQueue
    <2>3. ASSUME NEW q \in Service, Turn(q)
          PROVE  /\ s \notin round' => round' \intersect Before(s) = {}
                 /\ InQueue(s, Timeout[s])'
                 /\ s \in Container => InQueue(s, Settle)'
                 /\ s \in serving' \ Container => InQueue(s, since[s])'
      <3>1. UNCHANGED <<now, round, pending>>
        BY <2>3 DEF Turn
      <3>2. \A due : InQueue(s, due) <=> InQueue(s, due)'
        BY <3>1 DEF InQueue, Load, Before
      <3>3. CASE s = q /\ s \notin serving
        <4>1. since'[s] = now
          BY <2>0, <2>3, <3>3 DEF Turn, TypeOK
        <4>2. s \notin round => round \intersect Before(s) = {}
          BY <2>0 DEF Prompt
        <4>3. Load(round \intersect Before(s)) <= RoundBound
          BY <2>0, Loads, LoadFacts
        <4>4. s \notin round => Load(round) + Load(Before(s)) <= RoundBound
          BY <2>0, <4>2, Loads, LoadApart DEF TypeOK
        <4>5. InQueue(s, now)
          BY <2>0, <4>3, <4>4, Loads, WaitingAssumption DEF InQueue
        <4>6. InQueue(s, since[s])'
          BY <3>1, <4>1, <4>5 DEF InQueue, Load, Before
        <4>7. QED
          BY <2>0, <3>1, <3>2, <4>2, <4>6 DEF Prompt, InQueue
      <3>4. CASE ~(s = q /\ s \notin serving)
        <4>1. since'[s] = since[s] /\ (s \in serving' => s \in serving)
          BY <2>0, <2>3, <3>4 DEF Turn, TypeOK
        <4>2. QED
          BY <2>0, <3>1, <3>2, <4>1 DEF Prompt, InQueue
      <3>5. QED
        BY <3>3, <3>4
    <2>4. CASE UNCHANGED vars
      BY <2>0, <2>4 DEF vars, Prompt, InQueue, Load, Before
    <2>5. QED
      BY <2>1, <2>2, <2>3, <2>4 DEF Next, Wait
  <1>3. TypeOK /\ PendingIsUndecided /\ Prompt /\ OneRoundsQueue /\ [Next]_vars => OneRoundsQueue'
    <2> SUFFICES ASSUME TypeOK, PendingIsUndecided, Prompt, OneRoundsQueue, [Next]_vars PROVE OneRoundsQueue'
      OBVIOUS
    <2>1. CASE UNCHANGED <<verdict, at, since>>
      BY <2>1 DEF OneRoundsQueue, Ready
    <2>2. ASSUME NEW q \in Service, Turn(q) PROVE OneRoundsQueue'
      <3>1. UNCHANGED <<verdict, at>> /\ \A s \in Service : verdict[s] # "none" => since'[s] = since[s]
        BY <2>2 DEF Turn, TypeOK, PendingIsUndecided
      <3>2. QED
        BY <3>1 DEF OneRoundsQueue, Ready
    <2>3. ASSUME NEW s \in Service, Ask(s), Judgement(s) # "none" PROVE OneRoundsQueue'
      <3>1. /\ verdict' = [verdict EXCEPT ![s] = Judgement(s)] /\ at' = [at EXCEPT ![s] = now]
            /\ UNCHANGED since
        BY <2>3 DEF Ask, Record
      <3>2. s \in pending /\ s \in round /\ round \intersect Before(s) = {}
        BY <2>3, WaitingAssumption DEF Ask, PendingIsUndecided, Before, TypeOK
      <3>3. Load(round \intersect Before(s)) \in Nat /\ now \in Nat /\ RoundBound \in Nat /\ Poll \in Nat
        BY Loads, WaitingAssumption DEF TypeOK
      <3>4. ASSUME NEW due \in Nat, InQueue(s, due) PROVE now <= due + Poll + RoundBound
        BY <3>2, <3>3, <3>4 DEF InQueue
      <3>5. now <= Timeout[s] + Poll + RoundBound
        BY <3>2, <3>4, WaitingAssumption DEF Prompt
      <3>6. Judgement(s) = "ok" => now <= Ready(s) + Poll + RoundBound
        BY <3>2, <3>4, WaitingAssumption DEF Prompt, Ready, Judgement, Passes, TypeOK
      <3>7. ASSUME NEW q \in Service
            PROVE  /\ verdict'[q] # "none" => at'[q] <= Timeout[q] + Poll + RoundBound
                   /\ verdict'[q] = "ok" => at'[q] <= Ready(q) + Poll + RoundBound
        <4>1. CASE q = s
          BY <3>1, <3>5, <3>6, <4>1 DEF TypeOK
        <4>2. CASE q # s
          BY <3>1, <4>2 DEF OneRoundsQueue, TypeOK
        <4>3. QED
          BY <4>1, <4>2
      <3>8. QED
        BY <3>1, <3>7 DEF OneRoundsQueue, Ready, RoundBound
    <2>4. QED
      BY <2>1, <2>2, <2>3 DEF Next, Wait, Pause, Ask, vars
  <1>4. QED
    BY <1>1, <1>2, <1>3, Typing, NoneDroppedNoneTwice, PTL DEF Spec

\* wait_for_all is the abstract wait of Probes.tla: each of its steps decides
\* one probe, on what the service does at that moment, or decides none.
THEOREM WaitImplementsPromise == Spec => DecidesOnce
  <1> DEFINE heard == (serving \ Container) \union {s \in Container : now >= Settle}
  <1>1. Init => Promise!Init
    BY WaitingAssumption DEF Init, WaitInit, Promise!Init
  <1>2. TypeOK /\ TypeOK' /\ PendingIsUndecided /\ [Next]_vars => [Promise!Next]_Promise!vars
    <2> SUFFICES ASSUME TypeOK, TypeOK', PendingIsUndecided, [Next]_vars
                 PROVE  Promise!Next
      BY DEF Promise!vars
    <2>1. heard' \in SUBSET Service
      BY WaitingAssumption DEF TypeOK
    <2>2. CASE UNCHANGED verdict
      BY <2>1, <2>2 DEF Promise!Next
    <2>3. ASSUME NEW s \in Service, Ask(s), Judgement(s) # "none" PROVE Promise!Next
      <3>1. verdict[s] = "none"
        BY <2>3 DEF Ask, PendingIsUndecided
      <3>2. verdict' = [verdict EXCEPT ![s] = Judgement(s)]
        BY <2>3 DEF Ask, Record
      <3>3. CASE Judgement(s) = "ok"
        <4>1. s \in heard
          BY <3>3 DEF Judgement, Passes
        <4>2. QED
          BY <2>1, <3>1, <3>2, <3>3, <4>1 DEF Promise!Next, Promise!Hear, Promise!Decide
      <3>4. CASE Judgement(s) = "late"
        <4>1. s \notin heard
          BY <3>4 DEF Judgement, Passes
        <4>2. QED
          BY <2>1, <3>1, <3>2, <3>4, <4>1 DEF Promise!Next, Promise!GiveUp, Promise!Decide
      <3>5. QED
        BY <2>3, <3>3, <3>4 DEF Judgement
    <2>4. QED
      BY <2>2, <2>3 DEF Next, Wait, Pause, Ask, Turn, vars
  <1>3. QED
    BY <1>1, <1>2, Typing, NoneDroppedNoneTwice, PTL DEF Spec, DecidesOnce, Promise!Spec
=============================================================================
