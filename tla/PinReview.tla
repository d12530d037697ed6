------------------------------ MODULE PinReview ------------------------------
(***************************************************************************)
(* What a pin says, from the registry to main: pins.py and image_bump.py   *)
(* write it, people write it too, and check_manifest_change.py,            *)
(* check_images.py and check_releases.py judge the pull request, once as   *)
(* it is and once in the merge queue.  The registry and upstream publish,  *)
(* rebuild, tag again and withdraw all the while.                          *)
(***************************************************************************)
EXTENDS Tags, FiniteSetsExt

CONSTANTS Service,
          Image, Tag,       \* the repositories, and the tags published in them
          OwnImages,        \* the repositories lemonfiber publishes to
          MaxBuild,         \* bound: how many builds there are
          MaxLog,           \* bound: how many times a tag is published
          MaxDay            \* bound: the last day

ASSUME PinReviewAssumption ==
    /\ OwnImages \subseteq Image
    /\ \A t \in Tag : t \in TagRead({t.word}, Nat)
    /\ MaxBuild \in Nat \ {0}
    /\ MaxLog \in Nat \ {0}
    /\ MaxDay \in Nat

VARIABLES log,              \* what was ever published: a tag and the build it named
          lacking,          \* the builds published for one platform only
          today, releases,  \* the days upstream released on
          withdrawn,        \* those of releases it has taken back
          main,             \* the pins on main, and the services of [[removed]]
          pr,               \* the one pull request that changes them
          bot,              \* the tag pins.py has chosen, and for which service
          reviewed          \* history: the image and tag as they were last reviewed

world == <<log, lacking, today, releases, withdrawn>>
vars == <<world, main, pr, bot, reviewed>>

Pin == [image: Image, tag: Tag, digest: 0..MaxBuild, date: 0..MaxDay]
Manifest == [pins: UNION {[S -> Pin] : S \in SUBSET Service}, removed: SUBSET Service]

Builds == {log[i].digest : i \in DOMAIN log}
PublishedTags(image) == {log[i].tag : i \in {j \in DOMAIN log : log[j].image = image}}

\* What a tag names is what it was last published as; 0 is nothing.
Names(image, tag) ==
    LET at == {i \in DOMAIN log : log[i].image = image /\ log[i].tag = tag}
    IN  IF at = {} THEN 0 ELSE log[Max(at)].digest
EverNamed(pin) ==
    \E i \in DOMAIN log : log[i].image = pin.image /\ log[i].tag = pin.tag /\ log[i].digest = pin.digest

\* Upstream's latest release, 0 where it has none left.
Latest == Max({0} \union (releases \ withdrawn))

Label(pin) == [image |-> pin.image, tag |-> pin.tag]
\* rides_the_train.
Own(s) == main.pins[s].image \in OwnImages

NoRequest == [by |-> "nobody", head |-> main, said |-> {}, body |-> {}, at |-> "none", unread |-> FALSE]
Idle == [pc |-> "idle", service |-> CHOOSE s \in Service : TRUE, tag |-> CHOOSE t \in Tag : TRUE]
-----------------------------------------------------------------------------
Init ==
    /\ \E image \in Image, tag \in Tag :
        /\ log = <<[image |-> image, tag |-> tag, digest |-> 1]>>
        /\ main = [pins |-> [s \in Service |-> [image |-> image, tag |-> tag, digest |-> 1, date |-> 0]],
                   removed |-> {}]
    /\ lacking = {} /\ today = 0 /\ releases = {0} /\ withdrawn = {}
    /\ pr = NoRequest
    /\ bot = Idle
    /\ reviewed = [s \in Service |-> Label(main.pins[s])]

\* A tag is published: of a new build, or of one that has a tag already.
Publish ==
    /\ Len(log) < MaxLog
    /\ \E image \in Image, tag \in Tag, digest \in 1..MaxBuild :
        /\ digest \in Builds \union {Max(Builds) + 1}
        /\ digest # Names(image, tag)
        /\ log' = Append(log, [image |-> image, tag |-> tag, digest |-> digest])
        /\ lacking' \in IF digest \in Builds THEN {lacking} ELSE {lacking, lacking \union {digest}}
    /\ UNCHANGED <<today, releases, withdrawn, main, pr, bot, reviewed>>

NextDay ==
    /\ today < MaxDay
    /\ today' = today + 1
    /\ UNCHANGED <<log, lacking, releases, withdrawn, main, pr, bot, reviewed>>

\* Upstream releases, or takes its latest release back.
Release ==
    /\ today \notin releases
    /\ releases' = releases \union {today}
    /\ UNCHANGED <<log, lacking, today, withdrawn, main, pr, bot, reviewed>>

Withdraw ==
    /\ Latest # 0
    /\ withdrawn' = withdrawn \union {Latest}
    /\ UNCHANGED <<log, lacking, today, releases, main, pr, bot, reviewed>>
-----------------------------------------------------------------------------
\* The lists of tags a registry is read to have: one that could not be had, or
\* not to its last page, comes with a problem, and nothing moves.
SlipInPart(image) == SUBSET PublishedTags(image)
Listings(image) == {PublishedTags(image)}

\* pins.py: the newest of the tags listed.
Pick(s) ==
    /\ bot.pc = "idle"
    /\ s \in DOMAIN main.pins /\ ~Own(s)
    /\ LET was == main.pins[s]
       IN  \E listed \in Listings(was.image) :
               bot' = [pc |-> "chosen", service |-> s,
                       tag |-> NewestInMajor(was.tag, SetToSeq(listed))]
    /\ UNCHANGED <<world, main, pr, reviewed>>

GiveUp ==
    /\ bot.pc = "chosen"
    /\ bot' = Idle
    /\ UNCHANGED <<world, main, pr, reviewed>>

\* The pull request a bump opens, or edits: its commit carries the trailers, and
\* its body the same text.  There is one pull request at a time here: each is
\* judged apart, and in the queue on what main is by then.
Bump(s, pin, trailers, unread) ==
    [by |-> "bot", head |-> [main EXCEPT !.pins[s] = pin],
     said |-> trailers, body |-> trailers, at |-> "open", unread |-> unread]

\* The tag is resolved, and upstream asked for its date; then the pin is written,
\* with the date it had where it could not be read, and named for the trailer
\* where its tag moved to a release of the day already recorded.
\* (A date that is none, as an empty one, is -1.)
DateWritten(was, unread) == IF unread THEN was.date ELSE Latest

SlipNeverNames(was, tag, now) == FALSE
NeedsTrailer(was, tag, now) == tag # was.tag /\ now = was.date

Apply(s) ==
    LET was == main.pins[s]
        digest == Names(was.image, bot.tag)
    IN  /\ bot.pc = "chosen" /\ bot.service = s
        /\ s \in DOMAIN main.pins /\ ~Own(s)
        /\ digest \notin {0} \union lacking
        /\ <<bot.tag, digest>> # <<was.tag, was.digest>>
        /\ \E unread \in BOOLEAN :
            pr' = Bump(s, [was EXCEPT !.tag = bot.tag, !.digest = digest, !.date = DateWritten(was, unread)],
                       IF ~unread /\ NeedsTrailer(was, bot.tag, Latest) THEN {s} ELSE {}, unread)
        /\ bot' = Idle
        /\ UNCHANGED <<world, main, reviewed>>

\* image_bump.py, dispatched with a tag and a digest that were published once:
\* refused where the tag names another build by now.
OwnBump(s) ==
    /\ s \in DOMAIN main.pins /\ Own(s)
    /\ \E i \in DOMAIN log :
        LET was == main.pins[s]
            entry == log[i]
        IN  /\ entry.image = was.image
            /\ Names(entry.image, entry.tag) = entry.digest
            /\ entry.digest \notin lacking
            /\ <<entry.tag, entry.digest>> # <<was.tag, was.digest>>
            /\ pr' = Bump(s, [was EXCEPT !.tag = entry.tag, !.digest = entry.digest, !.date = today],
                          IF NeedsTrailer(was, entry.tag, today) THEN {s} ELSE {}, FALSE)
    /\ UNCHANGED <<world, main, bot, reviewed>>

\* People open a pull request, or push to one that is green already: a pin moved
\* in any part, a service taken out or put in, and trailers in the commits,
\* repeated in the body or not.  (To push to one that is not is to have opened it with both.)
PeoplePin(s) ==
    {pin \in Pin : /\ pin.digest \in Builds \union {0}
                   /\ pin.date \in {pr.head.pins[s].date : t \in {s} \intersect DOMAIN pr.head.pins}
                                     \union {Latest, today}}
PeopleMake(s) ==
    {[pr.head EXCEPT !.pins = [t \in DOMAIN @ \union {s} |-> IF t = s THEN pin ELSE @[t]],
                     !.removed = @ \ {s}] : pin \in PeoplePin(s)}
    \union {[pr.head EXCEPT !.pins = Restrict(@, DOMAIN @ \ {s}), !.removed = removed] :
                 removed \in {pr.head.removed, pr.head.removed \union {s}}}

Push(s) ==
    /\ pr.at \in {"none", "green"}
    /\ \E head \in PeopleMake(s), said \in SUBSET {s}, told \in BOOLEAN :
        /\ head # pr.head
        /\ pr' = [by |-> "people", head |-> head, said |-> pr.said \union said,
                  body |-> IF told THEN pr.said \union said ELSE {}, at |-> "open", unread |-> FALSE]
    /\ UNCHANGED <<world, main, bot, reviewed>>
-----------------------------------------------------------------------------
\* check_images.py for one service: its digest, what its tag names if the
\* registry says (`read'), and the platforms of its index.
SlipOnlyBumped(s, before, after) == s \in Bumped(before, after)
Moved(s, before, after) == s \in Repinned(before, after)
Agreement(pin, read, moved) ==
    IF read /\ Names(pin.image, pin.tag) = pin.digest THEN "agrees"
    ELSE IF moved THEN "error"
    ELSE IF read THEN "re-published" ELSE "unread"
SlipAnyPlatform(pin) == TRUE
PublishesBoth(pin) == pin.digest \notin lacking

ImagesPass(before, after, read) ==
    \A s \in DOMAIN after :
        /\ after[s].digest # 0
        /\ Agreement(after[s], read, Moved(s, before, after)) # "error"
        /\ PublishesBoth(after[s])

\* check_releases.py: a date ahead of upstream's latest fails, where upstream
\* could be read.
Ahead(pin) == pin.date > Latest
ReleasesPass(after, read) == \A s \in DOMAIN after : read => ~Ahead(after[s])

\* check_manifest_change.py, over the messages it is given.
ChangePasses(before, head, messages) == Judge(before, head.pins, head.removed, messages) = {}

Green(messages) ==
    /\ ChangePasses(main.pins, pr.head, messages)
    /\ \E read \in BOOLEAN : ImagesPass(main.pins, pr.head.pins, read)
    /\ \E read \in BOOLEAN : ReleasesPass(pr.head.pins, read)

\* The pull request's own run reads its commits; the queue's reads the one
\* commit the squash made, whose message is the pull request's body.
Check ==
    /\ pr.at = "open"
    /\ Green(pr.said)
    /\ pr' = [pr EXCEPT !.at = "green"]
    /\ UNCHANGED <<world, main, bot, reviewed>>

Queue ==
    /\ pr.at = "green"
    /\ Green(pr.body)
    /\ pr' = [pr EXCEPT !.at = "queued"]
    /\ UNCHANGED <<world, main, bot, reviewed>>

\* A pin is reviewed where its date moved or it was re-affirmed, and when its
\* service comes in.
Reviews(s) ==
    \/ s \notin DOMAIN main.pins
    \/ main.pins[s].date # pr.head.pins[s].date
    \/ s \in pr.body

Merge ==
    /\ pr.at = "queued"
    /\ main' = pr.head
    /\ reviewed' = [s \in DOMAIN pr.head.pins |-> IF Reviews(s) THEN Label(pr.head.pins[s]) ELSE reviewed[s]]
    /\ pr' = [NoRequest EXCEPT !.head = pr.head]
    /\ bot' = Idle
    /\ UNCHANGED world

Close ==
    /\ pr.at # "none"
    /\ pr' = NoRequest
    /\ UNCHANGED <<world, main, bot, reviewed>>

Next ==
    \/ Publish \/ NextDay \/ Release \/ Withdraw
    \/ \E s \in Service : Pick(s) \/ Apply(s) \/ OwnBump(s) \/ Push(s)
    \/ GiveUp \/ Check \/ Queue \/ Merge \/ Close

Spec == Init /\ [][Next]_vars
-----------------------------------------------------------------------------
\* The state has its type.
TypeOK ==
    /\ log \in Seq([image: Image, tag: Tag, digest: 1..MaxBuild]) /\ Len(log) \in 1..MaxLog
    /\ lacking \subseteq Builds
    /\ today \in 0..MaxDay /\ releases \subseteq 0..today /\ withdrawn \subseteq releases
    /\ main \in Manifest
    /\ pr \in [by: {"nobody", "bot", "people"}, head: Manifest, said: SUBSET Service, body: SUBSET Service,
               at: {"none", "open", "green", "queued"}, unread: BOOLEAN]
    /\ bot \in [pc: {"idle", "chosen"}, service: Service, tag: Tag]
    /\ DOMAIN reviewed = DOMAIN main.pins

\* However many merges it took, by a respelling, a rebuild or a digest alone, the
\* tag on main is the one last reviewed, or the fixed build of that release.
TagWasReviewed ==
    \A s \in DOMAIN main.pins :
        LET was == reviewed[s]
            now == main.pins[s]
        IN  /\ now.image = was.image
            /\ \/ now.tag = was.tag
               \/ /\ ~IsBuild(was.tag) /\ IsBuild(now.tag)
                  /\ now.tag.word = was.tag.word
                  /\ IsPrefix(was.tag.numbers, now.tag.numbers)

\* A pin that lands in any part is of a build its tag has named, whoever wrote
\* it, whatever the registry did between the checks and the merge.
MovedPinIsNamed ==
    [][\A s \in Repinned(main.pins, main'.pins) : EverNamed(main'.pins[s])]_main

\* No build on main lacks a platform, the ones people put in included.
RunsOnBoth ==
    \A s \in DOMAIN main.pins : main.pins[s].digest \in Builds \ lacking

\* pins.py chooses the newest of what was listed then, in the order the numbers
\* have, of the same spelling and never of another major.
BotTakesNewest ==
    [][bot.pc = "idle" /\ bot'.pc = "chosen" =>
        LET was == main.pins[bot'.service]
        IN  IsNewest(bot'.tag, was.tag, PublishedTags(was.image))]_bot

\* What the scripts write passes the rule they write it for, in the pull
\* request's run and in the queue's, where upstream's date could be read, but for
\* a build that is only tagged again: they propose it, with the trailer, and the
\* rule refuses it (ReaffirmedPasses).
BotPasses ==
    pr.by = "bot" /\ ~pr.unread =>
        \A messages \in {pr.said, pr.body} :
            Judge(main.pins, pr.head.pins, pr.head.removed, messages) \subseteq {"digest"} \X Service

\* check_manifest_change.py, L33: `A pin that genuinely needs no new date', for one
\* `a registry re-tagging the same build', `is re-affirmed by a trailer'.  Refuted:
\* the pin whose tag moved and whose digest did not is refused, named or not.
ReaffirmedPasses ==
    LET moved == Bumped(main.pins, pr.head.pins)
    IN  /\ DOMAIN main.pins = DOMAIN pr.head.pins
        /\ moved \subseteq pr.said
        /\ \A s \in moved : Names(pr.head.pins[s].image, pr.head.pins[s].tag) = pr.head.pins[s].digest
        => ChangePasses(main.pins, pr.head, pr.said)
=============================================================================
