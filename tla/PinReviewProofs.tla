--------------------------- MODULE PinReviewProofs ---------------------------
(***************************************************************************)
(* What holds of every pin on main, for any services, repositories and     *)
(* tags, however often a tag moves and whatever people and the scripts     *)
(* propose.                                                                *)
(***************************************************************************)
EXTENDS PinReview, WellFoundedInduction, SequenceTheorems, FiniteSetTheorems, TLAPS

Entry == [image: Image, tag: Tag, digest: 1..MaxBuild]
Request == [by: {"nobody", "bot", "people"}, head: Manifest, said: SUBSET Service, body: SUBSET Service,
            at: {"none", "open", "green", "queued"}, unread: BOOLEAN]

\* The type of the state, but for the tag pins.py has chosen: that one is
\* written only where it names a build, and then it was published.
Typed ==
    /\ log \in Seq(Entry)
    /\ lacking \subseteq Builds
    /\ today \in 0..MaxDay /\ releases \subseteq 0..today /\ withdrawn \subseteq releases
    /\ main \in Manifest
    /\ pr \in Request
    /\ DOMAIN reviewed = DOMAIN main.pins

\* A bounded set of naturals has a greatest member.
LEMMA GreatestIsThere ==
    ASSUME NEW S \in SUBSET Nat, S # {}, NEW bound \in Nat, \A x \in S : x <= bound
    PROVE  \E x \in S : \A y \in S : y <= x
  <1> DEFINE gaps == {n \in Nat : bound - n \in S}
  <1>1. PICK gap \in gaps : \A other \in gaps : ~(other < gap)
    <2>1. gaps \subseteq Nat
      OBVIOUS
    <2>2. gaps # {}
      <3>1. PICK x \in S : TRUE
        OBVIOUS
      <3>2. bound - x \in Nat /\ bound - (bound - x) = x
        BY <3>1
      <3>3. bound - x \in gaps
        BY <3>2
      <3>4. QED
        BY <3>3
    <2>3. PICK gap \in gaps : \A other \in gaps : <<other, gap>> \notin OpToRel(<, Nat)
      <3>1. \E gap \in gaps : \A other \in gaps : <<other, gap>> \notin OpToRel(<, Nat)
        <4> HIDE DEF gaps
        <4> QED
          BY <2>1, <2>2, NatLessThanWellFounded, WFMin, Zenon
      <3>2. QED
        BY <3>1, Zenon
    <2>4. \A other \in gaps : ~(other < gap)
      BY <2>3, Zenon DEF OpToRel
    <2>5. QED
      BY <2>4
  <1>2. ASSUME NEW y \in S PROVE bound - gap >= y
    <2>1. bound - y \in Nat /\ bound - (bound - y) = y /\ gap \in Nat
      OBVIOUS
    <2>2. bound - y \in gaps
      BY <2>1
    <2>3. ~(bound - y < gap)
      BY <1>1, <2>2
    <2>4. QED
      BY <2>1, <2>3
  <1>3. QED
    BY <1>2

\* A bounded set of naturals has its maximum, so what Names and Latest choose is there.
LEMMA MaxIsReached ==
    ASSUME NEW S \in SUBSET Nat, S # {}, NEW bound \in Nat, \A x \in S : x <= bound
    PROVE  Max(S) \in S
  BY GreatestIsThere DEF Max

\* What a tag names, if anything, it was published as.
LEMMA NamesWasPublished ==
    ASSUME Typed, NEW image, NEW tag, Names(image, tag) # 0
    PROVE  \E i \in DOMAIN log : /\ log[i].image = image /\ log[i].tag = tag
                                 /\ log[i].digest = Names(image, tag)
  <1> DEFINE at == {i \in DOMAIN log : log[i].image = image /\ log[i].tag = tag}
  <1>1. at # {} /\ Names(image, tag) = log[Max(at)].digest
    BY DEF Names
  <1>2. DOMAIN log = 1..Len(log) /\ Len(log) \in Nat
    BY DEF Typed
  <1>3. Max(at) \in at
    <2>1. at \in SUBSET Nat /\ \A i \in at : i <= Len(log)
      BY <1>2
    <2> HIDE DEF at
    <2>2. QED
      BY <1>1, <1>2, <2>1, MaxIsReached
  <1>4. QED
    BY <1>1, <1>3

\* Upstream's latest release is a day there has been.
LEMMA LatestIsADay ==
    ASSUME Typed
    PROVE  Latest \in {0} \union (releases \ withdrawn) /\ Latest \in 0..MaxDay
  <1> DEFINE days == {0} \union (releases \ withdrawn)
  <1>1. /\ days \in SUBSET Nat /\ days # {} /\ days \subseteq 0..MaxDay
        /\ \A day \in days : day <= MaxDay
    <2>1. MaxDay \in Nat /\ today \in 0..MaxDay /\ releases \subseteq 0..today
      BY PinReviewAssumption DEF Typed
    <2>2. ASSUME NEW day \in days PROVE day \in 0..MaxDay
      <3>1. CASE day = 0
        BY <2>1, <3>1
      <3>2. CASE day \in releases
        BY <2>1, <3>2
      <3>3. QED
        BY <3>1, <3>2
    <2>3. \A day \in 0..MaxDay : day \in Nat /\ day <= MaxDay
      BY <2>1
    <2>4. 0 \in days
      OBVIOUS
    <2> HIDE DEF days
    <2>5. QED
      BY <2>2, <2>3, <2>4
  <1>2. Max(days) \in days
    <2> HIDE DEF days
    <2> QED
      BY <1>1, MaxIsReached, PinReviewAssumption
  <1>3. QED
    BY <1>1, <1>2 DEF Latest
-----------------------------------------------------------------------------
\* A manifest taken apart, put together, and with one pin of it moved.
LEMMA ManifestParts ==
    ASSUME NEW m \in Manifest
    PROVE  /\ DOMAIN m.pins \subseteq Service
           /\ m.pins \in [DOMAIN m.pins -> Pin]
           /\ m.removed \subseteq Service
           /\ m = [pins |-> m.pins, removed |-> m.removed]
  <1>1. m.pins \in UNION {[S -> Pin] : S \in SUBSET Service} /\ m.removed \subseteq Service
    BY DEF Manifest
  <1>2. PICK S \in SUBSET Service : m.pins \in [S -> Pin]
    BY <1>1
  <1>3. m = [pins |-> m.pins, removed |-> m.removed]
    BY DEF Manifest
  <1>4. QED
    BY <1>1, <1>2, <1>3

LEMMA ManifestMade ==
    ASSUME NEW S \in SUBSET Service, NEW pins \in [S -> Pin], NEW removed \in SUBSET Service
    PROVE  [pins |-> pins, removed |-> removed] \in Manifest
  BY DEF Manifest

LEMMA ManifestMoved ==
    ASSUME NEW m \in Manifest, NEW s \in DOMAIN m.pins, NEW pin \in Pin
    PROVE  /\ [m EXCEPT !.pins[s] = pin] \in Manifest
           /\ [m EXCEPT !.pins[s] = pin].pins = [m.pins EXCEPT ![s] = pin]
           /\ [m EXCEPT !.pins[s] = pin].removed = m.removed
  <1>1. [m EXCEPT !.pins[s] = pin] = [pins |-> [m.pins EXCEPT ![s] = pin], removed |-> m.removed]
    BY ManifestParts
  <1>2. [m.pins EXCEPT ![s] = pin] \in [DOMAIN m.pins -> Pin]
    BY ManifestParts
  <1>3. QED
    BY <1>1, <1>2, ManifestParts, ManifestMade
-----------------------------------------------------------------------------
\* No pin on main or in the pull request is of a build nobody published.
Built ==
    /\ RunsOnBoth
    /\ \A s \in DOMAIN pr.head.pins : pr.head.pins[s].digest \in Builds \union {0}

\* What the queue's run has established still holds when the merge comes:
\* a build keeps its platforms, and what a tag named once it has named.
Passed ==
    pr.at = "queued" =>
        /\ ChangePasses(main.pins, pr.head, pr.body)
        /\ \A s \in DOMAIN pr.head.pins : pr.head.pins[s].digest \in Builds \ lacking
        /\ \A s \in Repinned(main.pins, pr.head.pins) : EverNamed(pr.head.pins[s])

PinsInv == Typed /\ Built /\ Passed /\ TagWasReviewed

\* What is published takes nothing back.
LEMMA PublishKeeps ==
    ASSUME Typed, Publish
    PROVE  /\ log' \in Seq(Entry) /\ lacking' \subseteq Builds'
           /\ Builds \subseteq Builds'
           /\ Builds \ lacking \subseteq Builds' \ lacking'
           /\ \A pin : EverNamed(pin) => EverNamed(pin)'
  <1>1. PICK image \in Image, tag \in Tag, digest \in 1..MaxBuild :
            /\ digest \in Builds \union {Max(Builds) + 1}
            /\ log' = Append(log, [image |-> image, tag |-> tag, digest |-> digest])
            /\ lacking' \in IF digest \in Builds THEN {lacking} ELSE {lacking, lacking \union {digest}}
    BY DEF Publish
  <1> DEFINE entry == [image |-> image, tag |-> tag, digest |-> digest]
  <1>2. entry \in Entry
    BY DEF Entry
  <1>3. /\ log' \in Seq(Entry)
        /\ DOMAIN log' = DOMAIN log \union {Len(log) + 1}
        /\ log'[Len(log) + 1] = entry
        /\ \A i \in DOMAIN log : log'[i] = log[i]
    BY <1>1, <1>2 DEF Typed
  <1>4. Builds' = Builds \union {digest}
    BY <1>3 DEF Builds
  <1>5. ASSUME NEW pin, EverNamed(pin) PROVE EverNamed(pin)'
    BY <1>3, <1>5 DEF EverNamed
  <1>6. QED
    BY <1>1, <1>3, <1>4, <1>5 DEF Typed

\* A pull request proposed, judged or closed leaves main and the registry alone.
LEMMA Proposed ==
    ASSUME PinsInv, UNCHANGED <<world, main, reviewed>>,
           pr' \in Request, pr'.at # "queued",
           \A s \in DOMAIN pr'.head.pins : pr'.head.pins[s].digest \in Builds \union {0}
    PROVE  PinsInv'
  <1>1. Typed'
    BY DEF PinsInv, Typed, world, Builds
  <1>2. Built'
    BY DEF PinsInv, Built, RunsOnBoth, world, Builds
  <1>3. Passed'
    BY DEF Passed
  <1>4. TagWasReviewed'
    BY DEF PinsInv, TagWasReviewed
  <1>5. QED
    BY <1>1, <1>2, <1>3, <1>4 DEF PinsInv

\* The world's steps leave the pins and the pull request alone.
LEMMA WorldKeeps ==
    ASSUME PinsInv, Publish \/ NextDay \/ Release \/ Withdraw
    PROVE  PinsInv'
  <1>1. UNCHANGED <<main, pr, reviewed>>
    BY DEF Publish, NextDay, Release, Withdraw
  <1>2. /\ log' \in Seq(Entry) /\ lacking' \subseteq Builds'
        /\ Builds \subseteq Builds'
        /\ Builds \ lacking \subseteq Builds' \ lacking'
        /\ \A pin : EverNamed(pin) => EverNamed(pin)'
    <2>1. CASE Publish
      BY <2>1, PublishKeeps DEF PinsInv
    <2>2. CASE NextDay \/ Release \/ Withdraw
      <3>1. UNCHANGED <<log, lacking>>
        BY <2>2 DEF NextDay, Release, Withdraw
      <3>2. QED
        BY <3>1 DEF PinsInv, Typed, Builds, EverNamed
    <2>3. QED
      BY <2>1, <2>2
  <1>3. today' \in 0..MaxDay /\ releases' \subseteq 0..today' /\ withdrawn' \subseteq releases'
    <2>1. /\ MaxDay \in Nat /\ today \in 0..MaxDay
          /\ releases \subseteq 0..today /\ withdrawn \subseteq releases
      BY PinReviewAssumption DEF PinsInv, Typed
    <2>2. CASE Publish
      BY <2>1, <2>2 DEF Publish
    <2>3. CASE NextDay
      BY <2>1, <2>3 DEF NextDay
    <2>4. CASE Release
      BY <2>1, <2>4 DEF Release
    <2>5. CASE Withdraw
      <3>1. Latest \in {0} \union (releases \ withdrawn)
        BY LatestIsADay DEF PinsInv
      <3>2. QED
        BY <2>1, <2>5, <3>1 DEF Withdraw
    <2>6. QED
      BY <2>2, <2>3, <2>4, <2>5
  <1>4. Typed'
    BY <1>1, <1>2, <1>3 DEF PinsInv, Typed
  <1>5. Built'
    BY <1>1, <1>2 DEF PinsInv, Built, RunsOnBoth
  <1>6. Passed'
    BY <1>1, <1>2 DEF PinsInv, Passed, ChangePasses
  <1>7. TagWasReviewed'
    BY <1>1 DEF PinsInv, TagWasReviewed
  <1>8. QED
    BY <1>4, <1>5, <1>6, <1>7 DEF PinsInv

\* A bump is a request for one pin, of a build that was published.
LEMMA BumpIsProposed ==
    ASSUME PinsInv, NEW s \in DOMAIN main.pins, NEW pin \in Pin, pin.digest \in Builds,
           NEW trailers \in SUBSET Service, NEW unread \in BOOLEAN,
           pr' = Bump(s, pin, trailers, unread), UNCHANGED <<world, main, reviewed>>
    PROVE  PinsInv'
  <1> DEFINE head == [main EXCEPT !.pins[s] = pin]
  <1>1. head \in Manifest /\ head.pins = [main.pins EXCEPT ![s] = pin]
    BY ManifestMoved DEF PinsInv, Typed
  <1>2. pr' = [by |-> "bot", head |-> head, said |-> trailers, body |-> trailers, at |-> "open", unread |-> unread]
    BY DEF Bump
  <1> HIDE DEF head
  <1>3. pr' \in Request
    BY <1>1, <1>2 DEF Request
  <1>4. pr'.at = "open" /\ pr'.head = head
    BY <1>2
  <1>5. \A t \in DOMAIN head.pins : head.pins[t].digest \in Builds \union {0}
    BY <1>1 DEF PinsInv, Built, RunsOnBoth
  <1>6. QED
    BY <1>3, <1>4, <1>5, Proposed

LEMMA ApplyKeeps ==
    ASSUME PinsInv, NEW s \in Service, Apply(s)
    PROVE  PinsInv'
  <1> DEFINE was == main.pins[s]
             digest == Names(was.image, bot.tag)
  <1>1. s \in DOMAIN main.pins /\ digest # 0 /\ UNCHANGED <<world, main, reviewed>>
    BY DEF Apply
  <1>2. was \in Pin
    BY <1>1, ManifestParts DEF PinsInv, Typed
  <1>3. PICK i \in DOMAIN log : log[i].tag = bot.tag /\ log[i].digest = digest
    BY <1>1, NamesWasPublished DEF PinsInv
  <1>4. log[i] \in Entry
    BY DEF PinsInv, Typed
  <1>5. bot.tag \in Tag /\ digest \in 0..MaxBuild /\ digest \in Builds
    BY <1>3, <1>4, PinReviewAssumption DEF Entry, Builds
  <1>6. PICK unread \in BOOLEAN :
            pr' = Bump(s, [was EXCEPT !.tag = bot.tag, !.digest = digest, !.date = DateWritten(was, unread)],
                       IF ~unread /\ NeedsTrailer(was, bot.tag, Latest) THEN {s} ELSE {}, unread)
    BY DEF Apply
  <1> DEFINE pin == [was EXCEPT !.tag = bot.tag, !.digest = digest, !.date = DateWritten(was, unread)]
             trailers == IF ~unread /\ NeedsTrailer(was, bot.tag, Latest) THEN {s} ELSE {}
  <1>7. DateWritten(was, unread) \in 0..MaxDay
    BY <1>2, LatestIsADay DEF DateWritten, Pin, PinsInv
  <1> HIDE DEF was, digest
  <1>8. pin \in Pin /\ pin.digest = digest
    BY <1>2, <1>5, <1>7 DEF Pin
  <1>9. trailers \in SUBSET Service
    OBVIOUS
  <1> HIDE DEF pin, trailers
  <1>10. pr' = Bump(s, pin, trailers, unread)
    BY <1>6 DEF pin, trailers
  <1>11. QED
    BY <1>1, <1>5, <1>8, <1>9, <1>10, BumpIsProposed

LEMMA OwnBumpKeeps ==
    ASSUME PinsInv, NEW s \in Service, OwnBump(s)
    PROVE  PinsInv'
  <1> DEFINE was == main.pins[s]
  <1>1. s \in DOMAIN main.pins /\ UNCHANGED <<world, main, reviewed>>
    BY DEF OwnBump
  <1>2. PICK i \in DOMAIN log :
            pr' = Bump(s, [was EXCEPT !.tag = log[i].tag, !.digest = log[i].digest, !.date = today],
                       IF NeedsTrailer(was, log[i].tag, today) THEN {s} ELSE {}, FALSE)
    BY DEF OwnBump
  <1> DEFINE pin == [was EXCEPT !.tag = log[i].tag, !.digest = log[i].digest, !.date = today]
             trailers == IF NeedsTrailer(was, log[i].tag, today) THEN {s} ELSE {}
  <1>3. was \in Pin /\ log[i] \in Entry /\ log[i].digest \in Builds /\ today \in 0..MaxDay
    BY <1>1, ManifestParts DEF PinsInv, Typed, Builds
  <1>4. log[i].digest \in 0..MaxBuild /\ log[i].tag \in Tag
    BY <1>3, PinReviewAssumption DEF Entry
  <1> HIDE DEF was
  <1>5. pin \in Pin /\ pin.digest = log[i].digest
    BY <1>3, <1>4 DEF Pin
  <1>6. trailers \in SUBSET Service
    OBVIOUS
  <1> HIDE DEF pin, trailers
  <1>7. pr' = Bump(s, pin, trailers, FALSE)
    BY <1>2 DEF pin, trailers
  <1>8. QED
    BY <1>1, <1>3, <1>5, <1>6, <1>7, BumpIsProposed

\* What people make is a manifest, of pins whose builds there are.
LEMMA PeopleMakeManifests ==
    ASSUME PinsInv, NEW s \in Service, NEW head \in PeopleMake(s)
    PROVE  /\ head \in Manifest
           /\ \A t \in DOMAIN head.pins : head.pins[t].digest \in Builds \union {0}
  <1> DEFINE was == pr.head
  <1>1. /\ was \in Manifest
        /\ \A t \in DOMAIN was.pins : was.pins[t].digest \in Builds \union {0}
    BY DEF PinsInv, Typed, Request, Built
  <1>2. /\ DOMAIN was.pins \subseteq Service
        /\ was.pins \in [DOMAIN was.pins -> Pin]
        /\ was.removed \subseteq Service
        /\ was = [pins |-> was.pins, removed |-> was.removed]
    BY <1>1, ManifestParts
  <1>3. CASE \E pin \in PeoplePin(s) :
                head = [was EXCEPT !.pins = [t \in DOMAIN @ \union {s} |-> IF t = s THEN pin ELSE @[t]],
                                   !.removed = @ \ {s}]
    <2>1. PICK pin \in PeoplePin(s) :
                head = [was EXCEPT !.pins = [t \in DOMAIN @ \union {s} |-> IF t = s THEN pin ELSE @[t]],
                                   !.removed = @ \ {s}]
      BY <1>3
    <2> DEFINE pins == [t \in DOMAIN was.pins \union {s} |-> IF t = s THEN pin ELSE was.pins[t]]
    <2>2. pin \in Pin /\ pin.digest \in Builds \union {0}
      BY DEF PeoplePin
    <2>3. pins \in [DOMAIN was.pins \union {s} -> Pin]
      BY <1>2, <2>2
    <2>4. head = [pins |-> pins, removed |-> was.removed \ {s}]
      BY <1>2, <2>1
    <2>5. \A t \in DOMAIN pins : pins[t].digest \in Builds \union {0}
      BY <1>1, <2>2
    <2> HIDE DEF pins
    <2>6. head \in Manifest
      BY <1>2, <2>3, <2>4, ManifestMade
    <2>7. QED
      BY <2>4, <2>5, <2>6
  <1>4. CASE \E removed \in {was.removed, was.removed \union {s}} :
                head = [was EXCEPT !.pins = Restrict(@, DOMAIN @ \ {s}), !.removed = removed]
    <2>1. PICK removed \in {was.removed, was.removed \union {s}} :
                head = [was EXCEPT !.pins = Restrict(@, DOMAIN @ \ {s}), !.removed = removed]
      BY <1>4
    <2> DEFINE pins == [t \in DOMAIN was.pins \ {s} |-> was.pins[t]]
    <2>2. pins \in [DOMAIN was.pins \ {s} -> Pin]
      BY <1>2
    <2>3. head = [pins |-> pins, removed |-> removed]
      BY <1>2, <2>1 DEF Restrict
    <2>4. \A t \in DOMAIN pins : pins[t].digest \in Builds \union {0}
      BY <1>1
    <2> HIDE DEF pins
    <2>5. head \in Manifest
      BY <1>2, <2>2, <2>3, ManifestMade
    <2>6. QED
      BY <2>3, <2>4, <2>5
  <1>5. QED
    BY <1>3, <1>4 DEF PeopleMake

LEMMA PushKeeps ==
    ASSUME PinsInv, NEW s \in Service, Push(s)
    PROVE  PinsInv'
  <1>1. PICK head \in PeopleMake(s), said \in SUBSET {s}, told \in BOOLEAN :
            pr' = [by |-> "people", head |-> head, said |-> pr.said \union said,
                   body |-> IF told THEN pr.said \union said ELSE {}, at |-> "open", unread |-> FALSE]
    BY DEF Push
  <1>2. UNCHANGED <<world, main, reviewed>>
    BY DEF Push
  <1>3. head \in Manifest /\ \A t \in DOMAIN head.pins : head.pins[t].digest \in Builds \union {0}
    BY PeopleMakeManifests
  <1>4. pr.said \subseteq Service
    BY DEF PinsInv, Typed, Request
  <1>5. pr' \in Request
    BY <1>1, <1>3, <1>4 DEF Request
  <1>6. pr'.at = "open" /\ pr'.head = head
    BY <1>1
  <1>7. QED
    BY <1>2, <1>3, <1>5, <1>6, Proposed

LEMMA CheckKeeps ==
    ASSUME PinsInv, Check
    PROVE  PinsInv'
  <1>1. pr' = [pr EXCEPT !.at = "green"] /\ UNCHANGED <<world, main, reviewed>>
    BY DEF Check
  <1>2. pr' \in Request /\ pr'.at = "green" /\ pr'.head = pr.head
    BY <1>1 DEF PinsInv, Typed, Request
  <1>3. QED
    BY <1>1, <1>2, Proposed DEF PinsInv, Built

LEMMA CloseKeeps ==
    ASSUME PinsInv, Close
    PROVE  PinsInv'
  <1>1. pr' = NoRequest /\ UNCHANGED <<world, main, reviewed>>
    BY DEF Close
  <1>2. pr' \in Request /\ pr'.at = "none" /\ pr'.head = main
    BY <1>1 DEF NoRequest, PinsInv, Typed, Request
  <1>3. QED
    BY <1>1, <1>2, Proposed DEF PinsInv, Built, RunsOnBoth

\* The queue's run establishes what the merge relies on.
LEMMA QueueKeeps ==
    ASSUME PinsInv, Queue
    PROVE  PinsInv'
  <1>1. /\ pr' = [pr EXCEPT !.at = "queued"] /\ UNCHANGED <<world, main, reviewed>>
        /\ ChangePasses(main.pins, pr.head, pr.body)
        /\ \E read \in BOOLEAN : ImagesPass(main.pins, pr.head.pins, read)
    BY DEF Queue, Green
  <1>2. pr' \in Request /\ pr'.head = pr.head /\ pr'.body = pr.body
    BY <1>1 DEF PinsInv, Typed, Request
  <1>3. PICK read \in BOOLEAN : ImagesPass(main.pins, pr.head.pins, read)
    BY <1>1
  <1>4. \A s \in DOMAIN pr.head.pins : pr.head.pins[s].digest \in Builds \ lacking
    BY <1>3 DEF ImagesPass, PublishesBoth, PinsInv, Built
  <1>5. ASSUME NEW s \in Repinned(main.pins, pr.head.pins) PROVE EverNamed(pr.head.pins[s])
    <2> DEFINE pin == pr.head.pins[s]
    <2>1. s \in DOMAIN pr.head.pins
      BY DEF Repinned, Both
    <2>2. pin.digest # 0 /\ Agreement(pin, read, TRUE) # "error"
      BY <1>3, <2>1 DEF ImagesPass, Moved
    <2>3. Names(pin.image, pin.tag) = pin.digest
      BY <2>2 DEF Agreement
    <2>4. QED
      BY <2>2, <2>3, NamesWasPublished DEF PinsInv, EverNamed
  <1>6. Typed'
    BY <1>1, <1>2 DEF PinsInv, Typed, world, Builds
  <1>7. Built'
    BY <1>1, <1>2 DEF PinsInv, Built, RunsOnBoth, world, Builds
  <1>8. Passed'
    BY <1>1, <1>2, <1>4, <1>5 DEF Passed, ChangePasses, world, Builds, EverNamed
  <1>9. TagWasReviewed'
    BY <1>1 DEF PinsInv, TagWasReviewed
  <1>10. QED
    BY <1>6, <1>7, <1>8, <1>9 DEF PinsInv

\* A pin that merges unreviewed kept its tag, or was respelled: and what was
\* respelled once is of a fixed build, which is respelled no more.
LEMMA MergeKeepsReviews ==
    ASSUME PinsInv, Merge
    PROVE  TagWasReviewed'
  <1>1. /\ main' = pr.head /\ ChangePasses(main.pins, pr.head, pr.body)
        /\ reviewed' = [s \in DOMAIN pr.head.pins |->
                          IF Reviews(s) THEN Label(pr.head.pins[s]) ELSE reviewed[s]]
    BY DEF Merge, PinsInv, Passed
  <1> SUFFICES ASSUME NEW s \in DOMAIN pr.head.pins
               PROVE  LET was == reviewed'[s]
                          now == pr.head.pins[s]
                      IN  /\ now.image = was.image
                          /\ \/ now.tag = was.tag
                             \/ /\ ~IsBuild(was.tag) /\ IsBuild(now.tag)
                                /\ now.tag.word = was.tag.word
                                /\ IsPrefix(was.tag.numbers, now.tag.numbers)
    BY <1>1 DEF TagWasReviewed
  <1>2. CASE Reviews(s)
    BY <1>1, <1>2 DEF Label
  <1>3. CASE ~Reviews(s)
    <2> DEFINE was == main.pins[s]
               now == pr.head.pins[s]
    <2>1. s \in Both(main.pins, pr.head.pins) /\ was.date = now.date /\ s \notin pr.body
      BY <1>3 DEF Reviews, Both
    <2>2. s \notin Bumped(main.pins, pr.head.pins)
      <3>1. s \in Bumped(main.pins, pr.head.pins) =>
                <<"date", s>> \in Judge(main.pins, pr.head.pins, pr.head.removed, pr.body)
        BY <2>1 DEF Judge
      <3>2. QED
        BY <1>1, <3>1 DEF ChangePasses
    <2>3. now.image = was.image /\ (now.tag = was.tag \/ Respelling(was, now))
      BY <2>1, <2>2 DEF Bumped, Respelling
    <2>4. /\ was.image = reviewed[s].image
          /\ \/ was.tag = reviewed[s].tag
             \/ /\ ~IsBuild(reviewed[s].tag) /\ IsBuild(was.tag)
                /\ was.tag.word = reviewed[s].tag.word
                /\ IsPrefix(reviewed[s].tag.numbers, was.tag.numbers)
      BY <2>1 DEF PinsInv, TagWasReviewed, Both
    <2>5. reviewed'[s] = reviewed[s]
      BY <1>1, <1>3
    <2>6. CASE now.tag = was.tag
      BY <2>3, <2>4, <2>5, <2>6
    <2>7. CASE Respelling(was, now)
      <3>1. /\ ~IsBuild(was.tag) /\ IsBuild(now.tag) /\ was.tag.word = now.tag.word
            /\ IsPrefix(was.tag.numbers, now.tag.numbers)
        BY <2>7 DEF Respelling
      <3>2. was.tag = reviewed[s].tag
        BY <2>4, <3>1
      <3>3. QED
        BY <2>3, <2>4, <2>5, <3>1, <3>2
    <2>8. QED
      BY <2>3, <2>6, <2>7
  <1>4. QED
    BY <1>2, <1>3

LEMMA MergeKeeps ==
    ASSUME PinsInv, Merge
    PROVE  PinsInv'
  <1>1. /\ main' = pr.head /\ pr' = [NoRequest EXCEPT !.head = pr.head] /\ UNCHANGED world
        /\ DOMAIN reviewed' = DOMAIN pr.head.pins
        /\ \A s \in DOMAIN pr.head.pins : pr.head.pins[s].digest \in Builds \ lacking
    BY DEF Merge, PinsInv, Passed
  <1>2. pr.head \in Manifest
    BY DEF PinsInv, Typed, Request
  <1>3. pr' \in Request /\ pr'.at = "none" /\ pr'.head = pr.head
    BY <1>1, <1>2 DEF NoRequest, Request
  <1>4. Typed'
    BY <1>1, <1>2, <1>3 DEF PinsInv, Typed, world, Builds
  <1>5. Built'
    BY <1>1, <1>3 DEF Built, RunsOnBoth, world, Builds
  <1>6. Passed'
    BY <1>3 DEF Passed
  <1>7. QED
    BY <1>4, <1>5, <1>6, MergeKeepsReviews DEF PinsInv
-----------------------------------------------------------------------------
LEMMA PinsInit == Init => PinsInv
  <1> SUFFICES ASSUME Init PROVE PinsInv
    OBVIOUS
  <1>1. PICK image \in Image, tag \in Tag :
            /\ log = <<[image |-> image, tag |-> tag, digest |-> 1]>>
            /\ main = [pins |-> [s \in Service |-> [image |-> image, tag |-> tag, digest |-> 1, date |-> 0]],
                       removed |-> {}]
    BY DEF Init
  <1>2. /\ lacking = {} /\ today = 0 /\ releases = {0} /\ withdrawn = {} /\ pr = NoRequest
        /\ reviewed = [s \in Service |-> Label(main.pins[s])]
    BY <1>1 DEF Init
  <1>3. [image |-> image, tag |-> tag, digest |-> 1] \in Entry
    BY PinReviewAssumption DEF Entry
  <1>4. log \in Seq(Entry) /\ DOMAIN log = {1} /\ log[1].digest = 1
    BY <1>1, <1>3
  <1>5. Builds = {1}
    BY <1>4 DEF Builds
  <1>6. [image |-> image, tag |-> tag, digest |-> 1, date |-> 0] \in Pin
    BY PinReviewAssumption DEF Pin
  <1>7. main.pins \in [Service -> Pin] /\ main.removed = {} /\ main = [pins |-> main.pins, removed |-> {}]
    BY <1>1, <1>6
  <1>8. main \in Manifest
    BY <1>7, ManifestMade
  <1>9. pr \in Request /\ pr.at = "none" /\ pr.head = main
    BY <1>2, <1>8 DEF NoRequest, Request
  <1>10. Typed
    BY <1>2, <1>4, <1>7, <1>8, <1>9, PinReviewAssumption DEF Typed
  <1>11. \A s \in DOMAIN main.pins : main.pins[s].digest = 1
    BY <1>1
  <1>12. Built
    BY <1>2, <1>5, <1>9, <1>11 DEF Built, RunsOnBoth
  <1>13. Passed
    BY <1>9 DEF Passed
  <1>14. TagWasReviewed
    BY <1>2, <1>7 DEF TagWasReviewed, Label
  <1>15. QED
    BY <1>10, <1>12, <1>13, <1>14 DEF PinsInv

LEMMA PinsStep == PinsInv /\ [Next]_vars => PinsInv'
  <1> SUFFICES ASSUME PinsInv, [Next]_vars PROVE PinsInv'
    OBVIOUS
  <1>1. CASE Publish \/ NextDay \/ Release \/ Withdraw
    BY <1>1, WorldKeeps
  <1>2. ASSUME NEW s \in Service, Apply(s) PROVE PinsInv'
    BY <1>2, ApplyKeeps
  <1>3. ASSUME NEW s \in Service, OwnBump(s) PROVE PinsInv'
    BY <1>3, OwnBumpKeeps
  <1>4. ASSUME NEW s \in Service, Push(s) PROVE PinsInv'
    BY <1>4, PushKeeps
  <1>5. CASE Check
    BY <1>5, CheckKeeps
  <1>6. CASE Queue
    BY <1>6, QueueKeeps
  <1>7. CASE Merge
    BY <1>7, MergeKeeps
  <1>8. CASE Close
    BY <1>8, CloseKeeps
  <1>9. CASE GiveUp \/ (\E s \in Service : Pick(s)) \/ UNCHANGED vars
    <2>1. UNCHANGED <<world, main, pr, reviewed>>
      BY <1>9 DEF GiveUp, Pick, vars
    <2>2. UNCHANGED <<log, lacking, today, releases, withdrawn, main, pr, reviewed>>
      BY <2>1 DEF world
    <2>3. Typed'
      BY <2>2 DEF PinsInv, Typed, Builds
    <2>4. Built'
      BY <2>2 DEF PinsInv, Built, RunsOnBoth, Builds
    <2>5. Passed'
      BY <2>2 DEF PinsInv, Passed, ChangePasses, EverNamed, Builds
    <2>6. TagWasReviewed'
      BY <2>2 DEF PinsInv, TagWasReviewed
    <2>7. QED
      BY <2>3, <2>4, <2>5, <2>6 DEF PinsInv
  <1>10. QED
    BY <1>1, <1>2, <1>3, <1>4, <1>5, <1>6, <1>7, <1>8, <1>9 DEF Next

\* The image and tag on main are what somebody last reviewed, or that release's
\* fixed build: no series of respellings, rebuilds and changes of a digest alone,
\* each of which check_manifest_change.py lets through, carries a pin further.
THEOREM TagsAreReviewed == Spec => []TagWasReviewed
  <1>1. PinsInv => TagWasReviewed
    BY DEF PinsInv
  <1>2. QED
    BY <1>1, PinsInit, PinsStep, PTL DEF Spec

\* Every build on main is one that was published, for both platforms, whoever
\* pinned it: check_images.py asks about each, and the queue asks again.
THEOREM BuildsRunOnBoth == Spec => []RunsOnBoth
  <1>1. PinsInv => RunsOnBoth
    BY DEF PinsInv, Built
  <1>2. QED
    BY <1>1, PinsInit, PinsStep, PTL DEF Spec

\* A merge that moves a pin moves it to a build its tag has named, though the tag
\* may name another by the time of the merge.
THEOREM MovedPinsAreNamed == Spec => MovedPinIsNamed
  <1>1. PinsInv /\ [Next]_vars =>
            [\A s \in Repinned(main.pins, main'.pins) : EverNamed(main'.pins[s])]_main
    <2> SUFFICES ASSUME PinsInv, [Next]_vars, main' # main
                 PROVE  \A s \in Repinned(main.pins, main'.pins) : EverNamed(main'.pins[s])
      OBVIOUS
    <2>1. Merge
      BY DEF Next, vars, Publish, NextDay, Release, Withdraw, Pick, GiveUp, Apply, OwnBump, Push,
             Check, Queue, Close
    <2>2. main' = pr.head /\ pr.at = "queued"
      BY <2>1 DEF Merge
    <2>3. QED
      BY <2>2 DEF PinsInv, Passed
  <1>2. QED
    BY <1>1, PinsInit, PinsStep, PTL DEF Spec, MovedPinIsNamed
-----------------------------------------------------------------------------
\* A pin moved alone, of its own image, with a new date or a trailer for it, is
\* refused for nothing but a build that is only tagged again.
LEMMA BumpPasses ==
    ASSUME PinsInv, NEW s \in DOMAIN main.pins, NEW pin \in Pin, NEW trailers,
           pin.image = main.pins[s].image,
           pin.tag # main.pins[s].tag /\ pin.date = main.pins[s].date => s \in trailers,
           NEW head, head = [main EXCEPT !.pins[s] = pin]
    PROVE  Judge(main.pins, head.pins, head.removed, trailers) \subseteq {"digest"} \X Service
  <1>1. main \in Manifest
    BY DEF PinsInv, Typed
  <1>2. head.pins = [main.pins EXCEPT ![s] = pin] /\ DOMAIN main.pins \subseteq Service
    BY <1>1, ManifestMoved, ManifestParts
  <1>3. DOMAIN head.pins = DOMAIN main.pins /\ head.pins[s] = pin
        /\ \A t \in DOMAIN main.pins : t # s => head.pins[t] = main.pins[t]
    BY <1>2
  <1>4. Bumped(main.pins, head.pins) \subseteq {s}
    BY <1>3 DEF Bumped, Both
  <1>5. s \in Bumped(main.pins, head.pins) => pin.tag # main.pins[s].tag
    BY <1>3 DEF Bumped
  <1>6. {t \in Bumped(main.pins, head.pins) \ trailers : head.pins[t].date = main.pins[t].date} = {}
    BY <1>3, <1>4, <1>5
  <1>7. (DOMAIN main.pins \ DOMAIN head.pins) \ head.removed = {}
    BY <1>3
  <1>8. Bumped(main.pins, head.pins) \subseteq Service
    BY <1>2, <1>4
  <1>9. QED
    BY <1>6, <1>7, <1>8 DEF Judge

\* pins.py names the service for the trailer where upstream's latest is the date
\* already recorded, and that is the date it writes.
LEMMA ApplyPasses ==
    ASSUME PinsInv, NEW s \in Service, Apply(s)
    PROVE  BotPasses'
  <1> DEFINE was == main.pins[s]
             digest == Names(was.image, bot.tag)
  <1>1. s \in DOMAIN main.pins /\ main' = main /\ digest # 0
    BY DEF Apply
  <1>2. was \in Pin
    BY <1>1, ManifestParts DEF PinsInv, Typed
  <1>3. PICK i \in DOMAIN log : log[i].tag = bot.tag /\ log[i].digest = digest
    BY <1>1, NamesWasPublished DEF PinsInv
  <1>4. log[i] \in Entry
    BY DEF PinsInv, Typed
  <1>5. bot.tag \in Tag /\ digest \in 0..MaxBuild
    BY <1>3, <1>4, PinReviewAssumption DEF Entry
  <1>6. PICK unread \in BOOLEAN :
            pr' = Bump(s, [was EXCEPT !.tag = bot.tag, !.digest = digest, !.date = DateWritten(was, unread)],
                       IF ~unread /\ NeedsTrailer(was, bot.tag, Latest) THEN {s} ELSE {}, unread)
    BY DEF Apply
  <1> DEFINE pin == [was EXCEPT !.tag = bot.tag, !.digest = digest, !.date = DateWritten(was, unread)]
             trailers == IF ~unread /\ NeedsTrailer(was, bot.tag, Latest) THEN {s} ELSE {}
             head == [main EXCEPT !.pins[s] = pin]
  <1>7. pr'.head = head /\ pr'.said = trailers /\ pr'.body = trailers /\ pr'.unread = unread
    BY <1>6 DEF Bump
  <1>8. CASE unread
    BY <1>7, <1>8 DEF BotPasses
  <1>9. CASE ~unread
    <2>1. DateWritten(was, unread) = Latest /\ Latest \in 0..MaxDay
      BY <1>9, LatestIsADay DEF DateWritten, PinsInv
    <2>2. NeedsTrailer(was, bot.tag, Latest) => s \in trailers
      BY <1>9
    <2> HIDE DEF was, digest, trailers
    <2>3. pin \in Pin /\ pin.image = was.image /\ pin.tag = bot.tag /\ pin.date = Latest
      BY <1>2, <1>5, <2>1 DEF Pin
    <2>4. pin.tag # was.tag /\ pin.date = was.date => s \in trailers
      BY <2>2, <2>3 DEF NeedsTrailer
    <2> HIDE DEF pin
    <2>5. Judge(main.pins, head.pins, head.removed, trailers) \subseteq {"digest"} \X Service
      BY <1>1, <2>3, <2>4, BumpPasses DEF was
    <2>6. QED
      BY <1>1, <1>7, <2>5 DEF BotPasses
  <1>10. QED
    BY <1>8, <1>9

\* image_bump.py does so where today is.
LEMMA OwnBumpPasses ==
    ASSUME PinsInv, NEW s \in Service, OwnBump(s)
    PROVE  BotPasses'
  <1> DEFINE was == main.pins[s]
  <1>1. s \in DOMAIN main.pins /\ main' = main
    BY DEF OwnBump
  <1>2. PICK i \in DOMAIN log :
            pr' = Bump(s, [was EXCEPT !.tag = log[i].tag, !.digest = log[i].digest, !.date = today],
                       IF NeedsTrailer(was, log[i].tag, today) THEN {s} ELSE {}, FALSE)
    BY DEF OwnBump
  <1> DEFINE pin == [was EXCEPT !.tag = log[i].tag, !.digest = log[i].digest, !.date = today]
             trailers == IF NeedsTrailer(was, log[i].tag, today) THEN {s} ELSE {}
             head == [main EXCEPT !.pins[s] = pin]
  <1>3. was \in Pin /\ log[i] \in Entry /\ today \in 0..MaxDay
    BY <1>1, ManifestParts DEF PinsInv, Typed
  <1>4. log[i].digest \in 0..MaxBuild /\ log[i].tag \in Tag
    BY <1>3, PinReviewAssumption DEF Entry
  <1>5. pr'.head = head /\ pr'.said = trailers /\ pr'.body = trailers
    BY <1>2 DEF Bump
  <1>6. NeedsTrailer(was, log[i].tag, today) => s \in trailers
    OBVIOUS
  <1> HIDE DEF was, trailers
  <1>7. pin \in Pin /\ pin.image = was.image /\ pin.tag = log[i].tag /\ pin.date = today
    BY <1>3, <1>4 DEF Pin
  <1>8. pin.tag # was.tag /\ pin.date = was.date => s \in trailers
    BY <1>6, <1>7 DEF NeedsTrailer
  <1> HIDE DEF pin
  <1>9. Judge(main.pins, head.pins, head.removed, trailers) \subseteq {"digest"} \X Service
    BY <1>1, <1>7, <1>8, BumpPasses DEF was
  <1>10. QED
    BY <1>1, <1>5, <1>9 DEF BotPasses

\* It stays so while the request is open: main moves by no step but the merge
\* of it, and a push makes it people's.
LEMMA BotPassesStep == PinsInv /\ BotPasses /\ [Next]_vars => BotPasses'
  <1> SUFFICES ASSUME PinsInv, BotPasses, [Next]_vars PROVE BotPasses'
    OBVIOUS
  <1>1. pr \in Request
    BY DEF PinsInv, Typed
  <1>2. CASE UNCHANGED <<main, pr>>
    BY <1>2 DEF BotPasses
  <1>3. ASSUME NEW s \in Service, Apply(s) PROVE BotPasses'
    BY <1>3, ApplyPasses
  <1>4. ASSUME NEW s \in Service, OwnBump(s) PROVE BotPasses'
    BY <1>4, OwnBumpPasses
  <1>5. CASE \E s \in Service : Push(s)
    <2>1. pr'.by = "people"
      BY <1>5 DEF Push
    <2>2. QED
      BY <2>1 DEF BotPasses
  <1>6. CASE Check \/ Queue
    <2>1. main' = main /\ \E at : pr' = [pr EXCEPT !.at = at]
      BY <1>6 DEF Check, Queue
    <2>2. /\ pr'.by = pr.by /\ pr'.unread = pr.unread /\ pr'.head = pr.head
          /\ pr'.said = pr.said /\ pr'.body = pr.body
      BY <1>1, <2>1 DEF Request
    <2>3. QED
      BY <2>1, <2>2 DEF BotPasses
  <1>7. CASE Merge \/ Close
    <2>1. pr'.by = "nobody"
      BY <1>7 DEF Merge, Close, NoRequest
    <2>2. QED
      BY <2>1 DEF BotPasses
  <1>8. CASE Publish \/ NextDay \/ Release \/ Withdraw \/ GiveUp \/ (\E s \in Service : Pick(s)) \/ UNCHANGED vars
    <2>1. UNCHANGED <<main, pr>>
      BY <1>8 DEF Publish, NextDay, Release, Withdraw, GiveUp, Pick, vars
    <2>2. QED
      BY <1>2, <2>1
  <1>9. QED
    BY <1>3, <1>4, <1>5, <1>6, <1>7, <1>8 DEF Next

\* What pins.py and image_bump.py write passes check_manifest_change.py, which
\* holds the same rule in another file, in the pull request's run and in the
\* queue's: they never propose what their own trailer was to excuse.
THEOREM WhatTheScriptsWritePasses == Spec => []BotPasses
  <1>1. Init => BotPasses
    BY DEF Init, NoRequest, BotPasses
  <1>2. PinsInv /\ BotPasses /\ [Next]_vars => PinsInv' /\ BotPasses'
    BY PinsStep, BotPassesStep
  <1>3. QED
    BY <1>1, <1>2, PinsInit, PTL DEF Spec
-----------------------------------------------------------------------------
\* The order of keys, as Python has it of tuples of one length.
Keys(n) == [1..n -> Nat]

\* No key is after itself.
LEMMA AfterIsStrict ==
    ASSUME NEW n \in Nat, NEW a \in Keys(n)
    PROVE  ~After(a, a)
  BY DEF After, Keys

\* What is after a key is after all that one is after.
LEMMA AfterGoesOn ==
    ASSUME NEW n \in Nat, NEW a \in Keys(n), NEW b \in Keys(n), NEW c \in Keys(n), After(a, b), After(b, c)
    PROVE  After(a, c)
  <1>1. PICK i \in 1..n : a[i] > b[i] /\ \A k \in 1..(i - 1) : a[k] = b[k]
    BY DEF After, Keys
  <1>2. PICK j \in 1..n : b[j] > c[j] /\ \A k \in 1..(j - 1) : b[k] = c[k]
    BY DEF After, Keys
  <1>3. \A k \in 1..n : a[k] \in Nat /\ b[k] \in Nat /\ c[k] \in Nat
    BY DEF Keys
  <1>4. CASE i <= j
    <2>1. a[i] > c[i]
      <3>1. CASE i = j
        BY <1>1, <1>2, <1>3, <3>1
      <3>2. CASE i < j
        <4>1. i \in 1..(j - 1)
          BY <3>2
        <4>2. QED
          BY <1>1, <1>2, <4>1
      <3>3. QED
        BY <1>4, <3>1, <3>2
    <2>2. \A k \in 1..(i - 1) : a[k] = c[k]
      <3>1. \A k \in 1..(i - 1) : k \in 1..(j - 1)
        BY <1>4
      <3>2. QED
        BY <1>1, <1>2, <3>1
    <2>3. QED
      BY <2>1, <2>2 DEF After, Keys
  <1>5. CASE j < i
    <2>1. j \in 1..(i - 1)
      BY <1>5
    <2>2. a[j] > c[j]
      BY <1>1, <1>2, <2>1
    <2>3. \A k \in 1..(j - 1) : a[k] = c[k]
      <3>1. \A k \in 1..(j - 1) : k \in 1..(i - 1)
        BY <1>5
      <3>2. QED
        BY <1>1, <1>2, <3>1
    <2>4. QED
      BY <2>2, <2>3 DEF After, Keys
  <1>6. QED
    BY <1>4, <1>5

\* Tags that are spelled alike have keys of one length.
LEMMA KeysOfASpelling ==
    ASSUME NEW current \in Tag, NEW tag \in Tag, Follows(current, tag)
    PROVE  /\ Len(Key(current)) \in Nat
           /\ Key(current) \in Keys(Len(Key(current))) /\ Key(tag) \in Keys(Len(Key(current)))
  <1>1. \A t \in Tag : t.numbers \in Seq(Nat) /\ t.build \in Seq(Nat)
    BY PinReviewAssumption DEF TagRead
  <1>2. \A t \in Tag : /\ Key(t) \in Seq(Nat) /\ Len(Key(t)) = Len(t.numbers) + Len(t.build)
    BY <1>1, ConcatProperties DEF Key
  <1>3. Len(tag.numbers) = Len(current.numbers) /\ Len(tag.build) = Len(current.build)
    BY DEF Follows, Spelling
  <1>4. \A t \in Tag : Len(Key(t)) \in Nat /\ Key(t) \in [1..Len(Key(t)) -> Nat]
    BY <1>2, LenProperties
  <1>5. QED
    BY <1>2, <1>3, <1>4 DEF Keys

\* The tag that is kept after each of the list, as newest_in_major keeps it.
KeptUpTo(kept, current, tags, n) ==
    kept = [i \in 0..n |-> IF i = 0 THEN current
                           ELSE IF Follows(current, tags[i]) /\ After(Key(tags[i]), Key(kept[i - 1])) THEN tags[i]
                           ELSE kept[i - 1]]

\* There is one, however long the list is.
LEMMA KeepingIsThere ==
    ASSUME NEW current, NEW tags, NEW n \in Nat
    PROVE  \E kept : KeptUpTo(kept, current, tags, n)
  <1> DEFINE without == {k \in Nat : ~ \E kept : KeptUpTo(kept, current, tags, k)}
             better(kept, i) == IF Follows(current, tags[i]) /\ After(Key(tags[i]), Key(kept)) THEN tags[i] ELSE kept
  <1> SUFFICES ASSUME without # {} PROVE FALSE
    OBVIOUS
  <1>1. PICK k \in without : \A other \in without : ~(other < k)
    <2>1. PICK k \in without : \A other \in without : <<other, k>> \notin OpToRel(<, Nat)
      <3>1. \E k \in without : \A other \in without : <<other, k>> \notin OpToRel(<, Nat)
        <4>1. without \subseteq Nat /\ without # {}
          OBVIOUS
        <4> HIDE DEF without
        <4> QED
          BY <4>1, NatLessThanWellFounded, WFMin, Zenon
      <3>2. QED
        BY <3>1, Zenon
    <2>2. \A other \in without : ~(other < k)
      BY <2>1, Zenon DEF OpToRel
    <2>3. QED
      BY <2>2
  <1>2. \A kept, m : KeptUpTo(kept, current, tags, m) <=>
                         kept = [i \in 0..m |-> IF i = 0 THEN current ELSE better(kept[i - 1], i)]
    BY DEF KeptUpTo
  <1> HIDE DEF better
  <1>3. k # 0
    <2> DEFINE one == [i \in 0..0 |-> current]
    <2>1. one = [i \in 0..0 |-> IF i = 0 THEN current ELSE better(one[i - 1], i)]
      OBVIOUS
    <2>2. KeptUpTo(one, current, tags, 0)
      BY <1>2, <2>1
    <2>3. QED
      BY <2>2
  <1>4. k \in Nat /\ k - 1 \in Nat /\ k - 1 < k
    BY <1>3
  <1>5. PICK before : KeptUpTo(before, current, tags, k - 1)
    BY <1>1, <1>4
  <1> DEFINE kept == [i \in 0..k |-> IF i = 0 THEN current ELSE better(before[i - 1], i)]
  <1>6. \A i \in 0..(k - 1) : kept[i] = before[i]
    <2>1. before = [i \in 0..(k - 1) |-> IF i = 0 THEN current ELSE better(before[i - 1], i)]
      BY <1>2, <1>5
    <2>2. \A i \in 0..(k - 1) : before[i] = IF i = 0 THEN current ELSE better(before[i - 1], i)
      BY <2>1
    <2>3. \A i \in 0..(k - 1) : i \in 0..k
      BY <1>4
    <2>4. QED
      BY <2>2, <2>3
  <1>7. kept = [i \in 0..k |-> IF i = 0 THEN current ELSE better(kept[i - 1], i)]
    <2>1. \A i \in 0..k : i # 0 => i - 1 \in 0..(k - 1)
      BY <1>4
    <2>2. \A i \in 0..k : (IF i = 0 THEN current ELSE better(before[i - 1], i))
                          = IF i = 0 THEN current ELSE better(kept[i - 1], i)
      <3> HIDE DEF kept
      <3> QED
        BY <1>6, <2>1
    <2>3. QED
      BY <2>2
  <1>8. KeptUpTo(kept, current, tags, k)
    BY <1>2, <1>7
  <1>9. QED
    BY <1>8

\* What has been walked of a list: the tag that is kept is the current one or
\* one of them that follows it, and none of them is after it.
KeptRightly(current, tags, kept, i) ==
    /\ kept = current \/ \E j \in 1..i : kept = tags[j] /\ Follows(current, tags[j])
    /\ ~After(Key(current), Key(kept))
    /\ \A j \in 1..i : Follows(current, tags[j]) => ~After(Key(tags[j]), Key(kept))

\* It stays so with each tag of the list.
LEMMA OneMoreTag ==
    ASSUME NEW current \in Tag, NEW tags \in Seq(Tag), NEW i \in 1..Len(tags), NEW before, NEW kept,
           Follows(current, current), KeptRightly(current, tags, before, i - 1),
           kept = IF Follows(current, tags[i]) /\ After(Key(tags[i]), Key(before)) THEN tags[i] ELSE before
    PROVE  KeptRightly(current, tags, kept, i)
  <1> DEFINE n == Len(Key(current))
             Spelled(t) == t \in Tag /\ Follows(current, t)
  <1>1. n \in Nat /\ \A t : Spelled(t) => Key(t) \in Keys(n)
    BY KeysOfASpelling
  <1>2. \A j \in 1..i : tags[j] \in Tag
    BY ElementOfSeq, LenProperties
  <1>3. Spelled(before)
    <2>1. \A j \in 1..(i - 1) : j \in 1..i
      OBVIOUS
    <2>2. QED
      BY <1>2, <2>1 DEF KeptRightly
  <1> HIDE DEF n, Spelled
  <1>4. \A j \in 1..i : j \in 1..(i - 1) \/ j = i
    OBVIOUS
  <1>5. CASE ~(Follows(current, tags[i]) /\ After(Key(tags[i]), Key(before)))
    <2>1. kept = before
      BY <1>5
    <2>2. \A j \in 1..(i - 1) : j \in 1..i
      OBVIOUS
    <2>3. \A j \in 1..i : Follows(current, tags[j]) => ~After(Key(tags[j]), Key(kept))
      BY <1>4, <1>5, <2>1 DEF KeptRightly
    <2>4. QED
      BY <2>1, <2>2, <2>3 DEF KeptRightly
  <1>6. CASE Follows(current, tags[i]) /\ After(Key(tags[i]), Key(before))
    <2>1. kept = tags[i] /\ Spelled(kept) /\ After(Key(kept), Key(before)) /\ i \in 1..i
      BY <1>2, <1>6 DEF Spelled
    <2>2. ASSUME NEW t, Spelled(t), ~After(Key(t), Key(before)) PROVE ~After(Key(t), Key(kept))
      BY <1>1, <1>3, <2>1, <2>2, AfterGoesOn
    <2>3. ~After(Key(kept), Key(kept))
      BY <1>1, <2>1, AfterIsStrict
    <2>4. ~After(Key(current), Key(kept))
      BY <2>2 DEF Spelled, KeptRightly
    <2>5. \A j \in 1..(i - 1) : Follows(current, tags[j]) => ~After(Key(tags[j]), Key(kept))
      <3>1. \A j \in 1..(i - 1) : tags[j] \in Tag
        BY <1>2
      <3>2. QED
        BY <2>2, <3>1 DEF Spelled, KeptRightly
    <2>6. \A j \in 1..i : Follows(current, tags[j]) => ~After(Key(tags[j]), Key(kept))
      BY <1>4, <2>1, <2>3, <2>5
    <2>7. QED
      BY <1>6, <2>1, <2>4, <2>6 DEF KeptRightly
  <1>7. QED
    BY <1>5, <1>6

\* Of any list, newest_in_major returns the newest.
LEMMA NewestIsReturned ==
    ASSUME NEW current \in Tag, NEW tags \in Seq(Tag)
    PROVE  IsNewest(NewestInMajor(current, tags), current, ToSet(tags))
  <1> DEFINE n == Len(tags)
             kept == CHOOSE f : KeptUpTo(f, current, tags, n)
             newest == NewestInMajor(current, tags)
  <1>1. n \in Nat /\ ToSet(tags) = {tags[i] : i \in 1..n} /\ \A i \in 1..n : tags[i] \in Tag
    BY LenProperties, ElementOfSeq DEF ToSet
  <1>2. current.numbers \in Seq(Nat) /\ current.build \in Seq(Nat)
    BY PinReviewAssumption DEF TagRead
  <1>3. Key(current) \in Keys(Len(Key(current))) /\ Len(Key(current)) \in Nat
    BY <1>2, ConcatProperties, LenProperties DEF Key, Keys
  <1>4. CASE current.numbers = <<>>
    <2>1. newest = current
      BY <1>4 DEF NewestInMajor
    <2>2. Alike(current, ToSet(tags)) = {}
      BY <1>4 DEF Alike
    <2>3. ~After(Key(current), Key(current))
      BY <1>3, AfterIsStrict
    <2>4. QED
      BY <2>1, <2>2, <2>3 DEF IsNewest
  <1>5. CASE current.numbers # <<>>
    <2>1. newest = kept[n]
      BY <1>5 DEF NewestInMajor, KeptUpTo
    <2>2. KeptUpTo(kept, current, tags, n)
      BY <1>1, KeepingIsThere
    <2> HIDE DEF kept, newest
    <2>3. kept[0] = current /\ \A i \in 1..n : kept[i] =
              IF Follows(current, tags[i]) /\ After(Key(tags[i]), Key(kept[i - 1])) THEN tags[i] ELSE kept[i - 1]
      <3> DEFINE better(last, i) == IF Follows(current, tags[i]) /\ After(Key(tags[i]), Key(last)) THEN tags[i] ELSE last
      <3>1. kept = [i \in 0..n |-> IF i = 0 THEN current ELSE better(kept[i - 1], i)]
        BY <2>2 DEF KeptUpTo
      <3> HIDE DEF better
      <3>2. kept[0] = current /\ \A i \in 1..n : kept[i] = better(kept[i - 1], i)
        BY <1>1, <3>1
      <3>3. QED
        BY <3>2 DEF better
    <2>4. Follows(current, current)
      BY <1>5 DEF Follows
    <2> DEFINE odd == {i \in Nat : i \in 0..n /\ ~KeptRightly(current, tags, kept[i], i)}
    <2>5. odd = {}
      <3> SUFFICES ASSUME odd # {} PROVE FALSE
        OBVIOUS
      <3>1. PICK k \in odd : \A other \in odd : <<other, k>> \notin OpToRel(<, Nat)
        <4>1. \E k \in odd : \A other \in odd : <<other, k>> \notin OpToRel(<, Nat)
          <5>1. odd \subseteq Nat /\ odd # {}
            OBVIOUS
          <5> HIDE DEF odd
          <5> QED
            BY <5>1, NatLessThanWellFounded, WFMin, Zenon
        <4>2. QED
          BY <4>1, Zenon
      <3>2. \A other \in odd : ~(other < k)
        BY <3>1, Zenon DEF OpToRel
      <3>3. k # 0
        <4>1. KeptRightly(current, tags, kept[0], 0)
          BY <2>3, <1>3, AfterIsStrict DEF KeptRightly
        <4>2. QED
          BY <4>1
      <3>4. k \in 1..n /\ k - 1 \in 0..n /\ k - 1 \in Nat /\ k - 1 < k
        BY <1>1, <3>3
      <3>5. KeptRightly(current, tags, kept[k - 1], k - 1)
        BY <3>2, <3>4
      <3>6. kept[k] = IF Follows(current, tags[k]) /\ After(Key(tags[k]), Key(kept[k - 1])) THEN tags[k] ELSE kept[k - 1]
        BY <2>3, <3>4
      <3>7. KeptRightly(current, tags, kept[k], k)
        BY <2>4, <3>4, <3>5, <3>6, OneMoreTag
      <3>8. QED
        BY <3>7
    <2>6. KeptRightly(current, tags, newest, n)
      <3>1. n \in 0..n
        BY <1>1
      <3>2. QED
        BY <1>1, <2>1, <2>5, <3>1
    <2>7. \A t : t \in Alike(current, ToSet(tags)) <=> \E j \in 1..n : t = tags[j] /\ Follows(current, tags[j])
      BY <1>1, <1>5 DEF Alike, Follows, Major
    <2>8. newest \in {current} \union Alike(current, ToSet(tags))
      BY <2>6, <2>7 DEF KeptRightly
    <2>9. \A t \in {current} \union Alike(current, ToSet(tags)) : ~After(Key(t), Key(newest))
      BY <2>6, <2>7 DEF KeptRightly
    <2>10. QED
      BY <2>8, <2>9 DEF IsNewest, newest
  <1>6. QED
    BY <1>4, <1>5

\* A finite set as a list has its members, and no other.
LEMMA ListOfASet ==
    ASSUME NEW S, IsFiniteSet(S)
    PROVE  SetToSeq(S) \in Seq(S) /\ ToSet(SetToSeq(S)) = S
  <1> DEFINE n == Cardinality(S)
             list == SetToSeq(S)
  <1>1. n \in Nat /\ \E f \in [1..n -> S] : IsInjective(f)
    <2>1. n \in Nat /\ \E f : f \in Bijection(1..n, S)
      BY FS_CardinalityType DEF ExistsBijection
    <2> HIDE DEF n
    <2>2. QED
      BY <2>1 DEF Bijection, Injection
  <1>2. list \in [1..n -> S] /\ IsInjective(list)
    BY <1>1 DEF SetToSeq
  <1> HIDE DEF list
  <1>3. list \in Injection(1..n, S)
    BY <1>2 DEF Injection
  <1>4. IsFiniteSet(1..n) /\ Cardinality(1..n) = n
    <2> HIDE DEF n
    <2> QED
      BY <1>1, FS_Interval
  <1>5. list \in Surjection(1..n, S)
    BY <1>3, <1>4, FS_Injection
  <1> HIDE DEF n
  <1>6. \A t \in S : \E i \in 1..n : list[i] = t
    BY <1>5 DEF Surjection
  <1>7. list \in Seq(S)
    BY <1>1, <1>2
  <1>8. DOMAIN list = 1..n
    BY <1>2
  <1>9. ToSet(list) = S
    BY <1>2, <1>6, <1>8 DEF ToSet
  <1>10. QED
    BY <1>7, <1>9 DEF list

\* However many tags a registry lists, of any spelling and in any order, the tag
\* pins.py chooses is one of them or the one that is pinned, of its spelling and
\* its major, and none of those is newer.
THEOREM TheNewestIsTaken == Spec => BotTakesNewest
  <1> DEFINE Taken == bot.pc = "idle" /\ bot'.pc = "chosen" =>
                          LET was == main.pins[bot'.service]
                          IN  IsNewest(bot'.tag, was.tag, PublishedTags(was.image))
  <1>1. ASSUME PinsInv, [Next]_vars, bot' # bot, bot.pc = "idle", bot'.pc = "chosen" PROVE Taken
    <2>1. \E s \in Service : Pick(s)
      <3>1. ASSUME NEW s \in Service, Apply(s) \/ OwnBump(s) \/ Push(s) PROVE bot' = bot \/ bot' = Idle
        BY <3>1 DEF Apply, OwnBump, Push
      <3>2. CASE Publish \/ NextDay \/ Release \/ Withdraw \/ GiveUp \/ Check \/ Queue \/ Merge \/ Close
        <4>1. bot' = bot \/ bot' = Idle
          BY <3>2 DEF Publish, NextDay, Release, Withdraw, GiveUp, Check, Queue, Merge, Close
        <4>2. QED
          BY <1>1, <4>1 DEF Idle
      <3>3. ASSUME UNCHANGED vars PROVE FALSE
        BY <1>1, <3>3 DEF vars
      <3>4. ASSUME NEW s \in Service, Apply(s) \/ OwnBump(s) \/ Push(s) PROVE FALSE
        BY <1>1, <3>1, <3>4 DEF Idle
      <3>5. QED
        BY <1>1, <3>2, <3>3, <3>4 DEF Next
    <2>2. PICK s \in Service : Pick(s)
      BY <2>1
    <2> DEFINE was == main.pins[s]
               listed == PublishedTags(was.image)
    <2>3. s \in DOMAIN main.pins /\ bot'.service = s /\ bot'.tag = NewestInMajor(was.tag, SetToSeq(listed))
      BY <2>2 DEF Pick, Listings
    <2>4. was.tag \in Tag
      <3>1. was \in Pin
        BY <1>1, <2>3, ManifestParts DEF PinsInv, Typed
      <3>2. QED
        BY <3>1 DEF Pin
    <2>5. IsFiniteSet(listed) /\ listed \subseteq Tag
      <3> DEFINE at == {j \in DOMAIN log : log[j].image = was.image}
      <3>1. log \in Seq(Entry)
        BY <1>1 DEF PinsInv, Typed
      <3>2. Len(log) \in Nat /\ DOMAIN log = 1..Len(log) /\ \A i \in 1..Len(log) : log[i] \in Entry
        BY <3>1, LenProperties, ElementOfSeq
      <3>3. IsFiniteSet(1..Len(log))
        BY <3>2, FS_Interval
      <3>4. IsFiniteSet(at)
        BY <3>2, <3>3, FS_Subset
      <3>5. listed = {log[i].tag : i \in at}
        BY DEF PublishedTags
      <3> HIDE DEF at, listed
      <3>6. IsFiniteSet(listed)
        <4> DEFINE f == [i \in at |-> log[i].tag]
        <4>1. f \in Surjection(at, listed)
          BY <3>5 DEF Surjection
        <4>2. QED
          BY <3>4, <4>1, FS_Surjection
      <3>7. listed \subseteq Tag
        BY <3>2, <3>5 DEF Entry, at
      <3>8. QED
        BY <3>6, <3>7
    <2> HIDE DEF listed
    <2>6. SetToSeq(listed) \in Seq(Tag) /\ ToSet(SetToSeq(listed)) = listed
      BY <2>5, ListOfASet, SeqMonotonic
    <2>7. IsNewest(bot'.tag, was.tag, listed)
      BY <2>3, <2>4, <2>6, NewestIsReturned
    <2>8. QED
      BY <2>3, <2>7 DEF listed
  <1>2. PinsInv /\ [Next]_vars => [Taken]_bot
    BY <1>1
  <1>3. QED
    BY <1>2, PinsInit, PinsStep, PTL DEF Spec, BotTakesNewest
=============================================================================
