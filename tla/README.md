# The lemonfiber media stack, in TLA+

The repository is a media stack as data (services, profiles, pins, probes, in
`stack.toml` and `services/*.toml`), and the programs that keep that data true:
they start the stack and judge it, record what its images answer, move its pins,
and guard the door in front of Jellyfin.  This directory models those programs in
TLA+, checks the models with TLC on small instances, and proves what matters most
about them with TLAPS for every value of the constants.

## The system

| part | code | state it keeps | operations | what is hard |
| --- | --- | --- | --- | --- |
| the wait | `scripts/check_runs.py` L197-285 | the probes pending, the clock | ask a round, pause | services that boot, hang and fall between two asks; a budget each; an ask that hangs |
| the run | `scripts/check_runs.py` L288-566 | the compose project, what was answered, the roster | refuse, write, up, wait, list, judge, down, recount | containers change between `ps` and `inspect`; most docker commands are run without looking whether they failed; interrupts, kills; a fixed project name |
| the recorder | `scripts/record.py`, `scripts/record_run.py` | containers by name, images, fixtures on disk | create, start, first run, probe, write, clean up | two invocations on one daemon; ports; a name that is in use; torn or partial fixtures |
| the pins | `scripts/pins.py`, `scripts/registry.py`, `scripts/image_bump.py` | `tag`, `digest`, `last_release` of each service file | plan, apply, bump | registries re-publish between plan and apply; tag order; paging |
| the pin pipeline | `.github/workflows/pins.yml`, `pin-service.yml`, `image-bump.yml` | git refs, the pull request | move, re-record, commit on a staging ref, move the branch, arm | `main` moves under a run; a job dies between two ref updates |
| the change judge | `scripts/check_manifest_change.py` | two manifests, the commit messages between them | judge, re-affirm | what is bumped, respelled or re-pinned across several commits |
| the manifest judge | `scripts/manifest_rules.py`, `container_rules.py`, `wiring_rules.py`, `validate_manifest.py` | none: pure over the manifest | one rule after another | rules about the relations between tables |
| the door | `config/door/Caddyfile`, `scripts/check_door.py` | none of its own: Jellyfin is asked | first match wins, ask, forward | what an item is between the question and the forward |
| the gate on alerts | `scripts/no_open_codeql_alert.py` | alerts and analyses read from GitHub | expected, missing, judge | analyses that lag the commit they are for |
| the other checks | `check_images.py`, `check_licences.py`, `check_releases.py`, `check_candidate.py`, `forge.py` | none: what a registry or forge answers | read, judge | answers that cannot be had, and must not read as answers |
| the rest | `record_door.py`, `check_configs.py`, `check_docs.py`, `form_profiles.py`, `judge.py`, `.githooks`, self-tests, data | files | read, format, compare | text |

How they interact.  `check_runs` is the wait inside the run, and reads the manifest
the pins are in.  The pin pipeline calls `pins.py`, then the recorder, then
`validate_manifest.py`, and commits what they changed; the pull request it opens
meets `check_manifest_change.py`, `check_images.py`, `check_licences.py` and
`check_runs.py`.  The recorder's fixtures are what `validate_manifest.py` holds
each claim to.  All of them talk to one Docker daemon, one registry or one forge
at a time, by commands and requests that may fail or never return.

For each part, what makes it correct:

* the wait: each probe decided once, on its own budget, heard if it answers, the
  whole no longer than the slowest;
* the run: a pass means the profiles ran, a failure has a reason, what was started
  is taken down, and nothing of one run is judged as another's;
* the recorder: a fixture is what the pinned image answered, an exit of 0 means all
  of them were written, and what was started is cleared away but nothing else;
* the pins: never across a major, newest within it, tag and digest together;
* the pipeline: a merge undoes nothing, a pull request is never emptied, pin and
  recordings move in one commit, one service's failure holds back no other;
* the judges and gates: what could not be read is never read as good.

## The modules

| module | models | |
| --- | --- | --- |
| `Probes` | what a wait promises, abstractly | each probe decided once, `ok` only while its service answers |
| `Waiting` | `wait_for_all`, `attempt`, `judge_probe` | implements `Probes` |
| `StackRun` | `run`, `started_and_judged`, `judge_everything`, `roster`, `down` | uses `Probes` as its wait |
| `Recorder` | `record`, `main` of the recorder, `Run` | |
| `PinBump` | `pins.yml`, `pin-service.yml`, `image-bump.yml` and what they call | jobs against `main`, the registry and the pull requests |
| `Tags` | `newest_in_major` and the reading of a tag, `judge` of a manifest change | pure: what is newer, what is bumped, respelled or re-pinned |
| `PinReview` | `pins.py`, `image_bump.py`, and the checks their pull request meets | uses `Tags`; the registry, upstream and people around one pull request |
| `ManifestRules` | `stack_manifest.py`, `manifest_rules.py`, `container_rules.py`, `wiring_rules.py` | pure: the faults of a manifest, one rule after another |
| `Admission` | `validate_manifest.py` and the removals of `check_manifest_change.py` over a change | uses `ManifestRules`; the manifest edited and landed, and what it is for one to hold together |
| `Door` | `config/door/Caddyfile` | one request through the handles, the questions and the forward, while Jellyfin changes |
| `DoorCheck` | `check_door.py`, `record_door.py` | uses `Door`; the cases, the broken doors, the rig and its removal |
| `CodeqlGate` | `codeql.yml`, `gates.yml`, `no_open_codeql_alert.py` | the workflow of each commit against the analyses that land |
| `LicenceGate` | `check_licences.py` over one service | what main pinned, upstream, and one run of the check after another |
| `Candidate` | `check_candidate.py` | one run over a project, request by request |
| `WaitingProofs`, `StackRunProofs`, `RecorderProofs`, `PinBumpProofs`, `PinReviewProofs`, `AdmissionProofs`, `DoorProofs` | | the TLAPS proofs about the module they are named after |
| `GatesProofs` | | those about `CodeqlGate`, `LicenceGate` and `Candidate` |
| `MCWaiting`, `MCStackRun`, `MCRecorder`, `MCPinBump`, `MCPinReview`, `MCAdmission`, `MCDoor`, `MCGates` | | the instances TLC checks |

A definition whose name begins with `Slip` is a plausible mistake in the code that
one of the properties has to catch: each is tried in place of the definition below
it, and TLC then finds the property violated.  Nothing else uses them.

Each module with a state states its type, and the proofs rest on as much of it as they
need.  No run asks about the type alone.

### Waiting

`now` is `clock() - started` in whole units; `pending` is the list of probes not
yet decided, `round` the part of it the `for` has not reached, `verdict` and `at`
what `answers` records.  `Ask(s)` is one turn of the `for`: the clock is read,
then the question put, which takes `Cost(s)` (nothing for a container probe, up to
`ATTEMPT_TIMEOUT_S` for a network one), then the answer or the spent budget
recorded.  `Pause` is the `sleep` at the end of a round.  `Turn(s)` is the
environment: a service starts or stops answering at any moment.

### StackRun

`phase` is the place in `run`; `box` the project's containers, which belong to the
daemon and outlive the process; `rows` is the roster, `errors` the *kinds* of the
failures reported (their wording is left out).  `Asked` refuses or accepts a
request, `Up` creates any part of the project, with or without success, `List` and
`Inspect` are the two docker calls of `roster`, each of which may fail unseen (an
inspection that fails makes a row with neither image nor state), `Judge` the verdicts, `Raise`,
`Interrupt` and `Kill` the exceptions inside the `try`, outside it, and the
process dying.  `Boot`, `Hang`, `Fall` and `Return` are what containers do of
themselves.  `fell`, `flawed`, `unread` and `blind` are history: nothing in the model
reads them, only the properties do.  The clock is not here: it is abstracted into
`Probes`, which `Waiting` is proved to implement, so any probe may be late.

### Recorder

`job[r]` is one invocation of `record.py`: its place in the `try`/`finally`, the
services still to do, its port, whether it pulled the image, whether it holds.
`container` is the daemon's table of names, `image` its images, `fixture` what is
on disk.  Each action is one docker command or one request, which may fail: a failed
look for the image reads as an image that is not there, a failed removal leaves the
container (`stuck`) or the image, and an interrupt comes anywhere, in the `finally`
too.  `misread` is history: the images there when a look for them failed.  `Kill` may
tear the fixture being written.  The scrubbing of a recording
is abstracted: a refused text is a probe that raised.

### PinBump

`main` is the list of the commits of `main`, each a service's files: its `pin`
(tag and digest), `rec` (the pin its recordings were taken from) and `rest` (what
only people edit).  `registry` is the newest release of each image, `ref` the
branches a job writes, `run` the run of `pins.yml`, `job` each service's job,
`dispatched` the image-bump waiting in its concurrency group, `armed` the commit
an open pull request merges at.  One action is one step of a workflow: `Begin` and
`Plan` are `pins.yml`; `Move`, `Record`, `Validate` the first job of
`pin-service.yml`; `Stage`, `CommitOnScratch`, `MoveAcross` and `Drop` its commit,
request by request; `OpenOrEdit` the second job; `Admit` and `Move` with `to` are
`image-bump.yml`.  `Fail` is any of them failing, refused or timed out, `Again`
somebody re-running one, with the commit it had.

GitHub is modelled from how the workflows and their comments use it, and marked
external: a pull request merges once it is armed, its branch is where it was armed
and no line of it clashes with `main` (`Merge`); a group holds one run and one
waiting; `createCommitOnBranch` is refused where the ref is not at the commit it
expects.  A merge is per line, and the three parts of a service's files are three
lines.  Dispatches reach GitHub in the order of the publishes: the opposite order
is a hazard listed in PROJECT.json that no property covers.

### PinReview

Where `PinBump` is about commits and branches and keeps a pin as one value,
`PinReview` is about what a pin *says*: image, tag, digest, and the day it was
last reviewed at.  A tag is a record of the numbers the code reads from it.

`log` is every publication: a tag names what it was last published as, so a tag
that moves, and a build tagged twice, are both there.  `lacking` is the builds for
one platform only; `releases` and `withdrawn` are upstream's, by the day.  `Pick` and
`Apply` are `pins.py`, in two steps because the registry publishes between them;
`OwnBump` is `image_bump.py`, dispatched with any pair that was published once;
`Push` is people, who change a pin in any part, take a service out or put one in,
and write trailers or do not.  `Check` is the run of the checks on the pull request,
which reads its commits; `Queue` is the run in the merge queue, which reads the one
commit the squash makes, with the pull request's body as its message; `Merge` makes
it `main`.  Each of the checks is an operator: `Judge` for
`check_manifest_change.py`, `ImagesPass`, `ReleasesPass`.  `read` is whether the
registry, or upstream, could be asked: a check never reads silence as an answer.

There is one pull request at a time: each is judged apart, and in the queue on what
`main` is by then.  `reviewed` is history: the tag as it was when somebody last
vouched for it, by a new date or by a trailer.

### ManifestRules and Admission

A manifest is a record: `service`, `profile`, `form`, `wiring` and `removed` of
`stack.toml`, its `include`, and `file`, the documents under `services/`, each of
which may be missing; `Manifest(files)` is the shape the rules read it in.  A rule is the set of the faults it reports, and `Faults` is
their union; what one entry leaves in a `seen` for the entries after it (`Again`) and the places
at which a rule returns early are kept as the code has them.  A field that one rule reads for its own shape, and no other rule reads, is a
name in `missing` or `wrong`.

`Admission` edits the manifest one entry, field or file at a time (`EditService`,
`EditFile`, `EditRoot`) and lands it where both checks pass (`Land`).  A capability's name has two shapes, as
in the code: `CoreName` where it is provided or asked for, and the wider `AddressName`
where a variable asks for its address.  `Sound` is the
abstract specification: what it means for a manifest to hold together, stated over
the whole of it and never in the rules' order or terms.  `AcceptsWhatHolds` is that
the rules refuse exactly what is not sound.

### Door and DoorCheck

A request is the few things the matchers and Jellyfin tell apart (the head of
`Door.tla` lists them).  `Handles` is the order of the Caddyfile, `Handle` the first
that matches, `Asks` the items it asks about before the forward.  `Arrive`, `Ask`,
`Unanswered` and `Forward` are one request; `Change` is Jellyfin between any two of
them.  `moments` is history: every state Jellyfin was in since the request came.  The
promise is against those, because the answer to a question is as old as the forward
is late: what was allowed at one moment in between is what the code promises, and a
session that ends after the question is still served.

A door is a record, so that `check_door.py`'s broken doors are the one under test with
a field or a handle changed (one that comes out unchanged is stale, and fails the
self-test), and `Problems(d, placed)` are the cases that catch it; whether the door
reached Jellyfin from its own address, and presented the certificate written beside it,
is for Docker and Caddy to say.  `rig` is a run of `check`, `--self-test` or
`record_door.py`: what it has still to make, what was `made` in Docker, what is on its
own list.  `Make` may fail at each thing, after making it or before; `Teardown` may
fail to remove any of it (`stuck`), and `Interrupt` goes through the teardown, or cuts
it short; `Kill` does neither; `stack` is a stack that holds the same subnets.
`VerdictHolds` quantifies over every request and not over the cases.  It excepts those
the shipped door leaves to `@unkeyed`: the one case that spells an item's id in
another shape is refused by the handle before it, so no case tells whether `@unkeyed`
is there at all, and a door without it passes.
`DoorSpace` are the doors that may be shipped: any of the shipped one's handles left
out but the last, and each of its parts as the shipped or as a broken one has it, in
any mixture.

### CodeqlGate

`job[c]` is the workflow on commit `c`: the languages it names, and where it is
(analyze, wait, read, judge).  `pending` are the uploads GitHub accepted and cannot
yet answer for, `analyses` those it answers, `head` the commit each ref is at.  `Land`
takes any upload, in any order and at any time, or never.  `Read` and `Judge` are two
steps because the analyses are read before the alerts.  `Push` cancels the run on the
head it replaces; `Enqueue`, `Merge` and `Drop` are the queue.  The wait over
`--complete-only` and GitHub's side are modelled from how `no_open_codeql_alert.py`
and the workflows describe them, and marked external.

### LicenceGate

`pinned` is what main has pinned of a service, oldest first; `gone` and `file` are
upstream's, withdrawn releases and the licence file of each, `NoBlob` where it ships
none.  `gate` is one run: the forge is asked for the licence (`AskStated`), and, where
it cannot tell and the change moves the pin, for the file of the new release, of the
one pinned before (`AskFile`, one spelling of the ref at a time), and, where the forge
knows of none there, of those git shows before that (`ReadLog`, which may miss
revisions).  The forge answers alike for a release withdrawn and one without a file
(`Unreadable`).  `Withdraw` comes between any two requests, and each request may go
unanswered.  `Take`
is the merge.  Services added, and changes of `upstream` or `license` alone, are gated
by nothing in this code, and `Admit` says so.

### Candidate

`look` is what a run has gathered and which of its questions went unanswered; each
`Ask...` is one request, answered or not, and `JudgeCandidate` the verdict.  Days are
counted back from the day of the run.

## The runs

| run | instance | shows |
| --- | --- | --- |
| `waiting` | three services, budgets 6, 3 and 5, dwell 4, attempts up to 2 | all of the wait's promises, and that it implements `Probes` |
| `stack_run` | three services in three profiles, one of them on the register of known defects, an empty profile, one not runnable, one unknown | a pass, a failure and the teardown mean what they say |
| `stack_run_down` | the same | *violated*: a pass with containers left, when the last `ps` failed |
| `recorder` | invocations of two services, or of an unknown one and another, beside which a second one may go; two probes each | what an exit of 0 means, what is cleared away and what is left alone; two at once leave each other's containers alone, and each asks its own while it runs |
| `recorder_held` | as `recorder` | *violated*: a held container is removed by the next invocation for its service |
| `pin_bump` | one service with recordings, or one of lemonfiber's own images, at length; or two services of one run | a bump undoes nothing, empties no pull request, moves pin and recordings together, starts over what another left, and holds back no other |
| `pin_review` | one service, a release, its fixed build and a later build; one repository on one day, or two and two days | whatever is merged was reviewed, runs on both platforms and was once what its tag named |
| `pin_review_retagged` | as `pin_review` | *violated*: a release tagged again over the same build is refused, though re-affirmed |
| `admission` | three services, one asked by another and one named by it, room for a fourth; any two edits | the rules refuse what does not hold together and nothing else; no service leaves in silence |
| `door` | two items, requests of every kind through the shipped door; the check over that door, the broken ones and those with one handle or two neighbouring ones gone | what is served was allowed, and what is refused has a reason; the check tells a right door from a wrong one but for `@unkeyed`, and what a run leaves is accounted for |
| `gates` | two languages, two commits; three releases, two files or none, four pins; every history about a page of two | the three gates before main: none reads silence or an old answer as a good one, and none refuses for nothing |
| `gates_unread` | as `gates` | *violated*: a history that could not be read is reported as a refusal |

Each violated run states what a docstring or a printed line says and the code does not
do; PROJECT.json quotes them as findings.  Four are run, where what the code does
instead takes several steps to come about or decides an exit code; the other places at
which the code and its own text disagree are listed at the end, each beside the
property that says how far the text does hold.

`MCPinReview` also states, as an assumption TLC evaluates before each of its runs,
that `newest_in_major` returns the newest of any list of up to four tags drawn from
two builds of a release, a later release, another major, another spelling and a tag
with no number, from each of them as the pinned one, in any order; `NewestIsReturned`
proves it of any list.

Bounds, and why they are enough.

* `waiting`: `now` needs no bound: a wait ends.  The budgets lie on both sides of
  the dwell (3 < 4 < 5 < 6), so a container probe is tried with a budget that
  covers its dwell and network probes with budgets that run out before and after
  another's; an attempt (2) outlasts the pause (1), so rounds overrun budgets.
  Two network services and a container one give every order of two probes in a round.
* `stack_run`: `MaxRestarts = 1`: the code only compares the count with 0.  Three
  services are one proved and asked, one proved and not asked over a port, and one
  in the register; two profiles can be asked for while a third one's containers are
  left over.  Any number of runs follow one another.
* `recorder`: `Probes = 2` is the least for which a fixture can be written and the
  next one not; a list of two services is the least for which one can fail and the
  next be recorded; the two ports are those of two containers that are up
  at once, and the constraint `OneIsFree` leaves out that neither can be found, since
  the kernel has more.  The constraint `TwoAtOnce` has a second invocation, of a
  service of its own, beside one of an unknown service and another, neither of them
  told to hold: the list of two and what is held are explored with one invocation.
* `pin_bump`: two publishes (`MaxPin`), so one may land while the other's bump is
  under way; three commits of `main` (`MaxMain`): the first, what people or another
  bump merged meanwhile, and the merge.  The constraint `Scope` explores a recorded
  service and an own image apart, since a job reads and writes nothing of another's;
  two services of one run are taken together before anything lands, which is where
  one may hold back the other.
* `pin_review`: two builds (`MaxBuild`), so a tag can move and move back, or a second
  tag name the first's build, which takes three publications (`MaxLog`).  The tags are
  there one for each rule: a respelling needs a release and its build, a bump another
  release.  The constraint `Scope` takes the three publications of one repository on
  one day, when every bump needs a trailer; or two publications of either of two
  repositories on two days, so that a date can stay, move and be withdrawn: what is
  asked there is who moves the pin, not how often the tag does.
* `admission`: two edits (`MaxEdits`) from a manifest that holds: each rule that
  relates two entries is broken, and mended, by the edit of either, and a fault that
  hides another needs two.  Every field has a value for each side of each rule that
  reads it.
* `door`: two items, one the session may see and one not, so that a question about
  one and a forward of another differ; Jellyfin up, hung, down, and with a library
  less or more.  Requests differ from a plain one in what one matcher reads, or in
  how they name an item, or in whom they come from, and every case is among them.
  The constraint `OneOrTheOther` explores requests while no script runs, and scripts
  beside the stand-in with no request in flight: nothing of the rig touches the
  household's requests.  What a run leaves is one thing at most, or any of a
  recording's, and nothing of a run over another door than the shipped; a stack goes up before
  a run, or after one that failed.
* `gates`: a sum of the three gates, since nothing passes between them in the code: a
  behaviour is of one of them.  Two commits are a push that replaces another, or a
  pull request and its commit in the queue; two polls are the least for which the last
  one differs; of two languages one is named by GitHub, and the other is uploaded by
  another tool too.  Three releases, one under each spelling of its ref, and three
  pins are the least for which a walk goes back past a release withdrawn; the fourth
  pin is one that came in unread over such a walk, or behind a revision git did not
  show, and is walked past in its turn.  A page of
  two commits, histories of none to three: one below, at and past a page, with days
  on both sides of each threshold.

Fairness.  Each specification is fair to the program's own steps only (`WF` of
`Wait`, `Script`, `Step(r)` and `Job(s)`): a Python process that is not killed goes on, and each docker command and request it
makes returns, because it has a timeout or because the daemon answers; GitHub runs the
jobs it started.  A service need not boot, a container need not come back, nobody need
start an invocation, and no failure need happen.  `PinReview`, `Admission`, `Door`,
`CodeqlGate`, `LicenceGate` and `Candidate` assume no fairness:
what is said of them is of steps and states.  `TornDown` allows a kill, after which
nothing of the process runs.

Deadlock is checked but for `admission` and `gates`, where the bounds stop a
behaviour: the edits and the commits are spent, and a candidate is judged once.

## What is proved

`WaitingProofs` proves, for every set of services, order, budget, dwell, pause and
attempt that satisfies `WaitingAssumption`:

* `Typing`: the state has its type;
* `NoneDroppedNoneTwice`: `PendingIsUndecided`, so that removing from the list that
  is being walked loses no probe and judges none twice;
* `DwellsAreNeverLate`: from the reading order of the clock, the question and the
  budget;
* `NoneQueuesLonger`: `OneRoundsQueue`, that a probe is heard, or called late, at most a
  pause and one round of attempts after it is due: whoever is still in the round was
  not due when the round before it was over;
* `NoLongerThanTheSlowest`: `now` never passes the longest budget, a pause and two
  rounds of hung attempts.  This is not inductive: a state with a full round still
  to ask and the clock at the limit satisfies it and breaks it.  `RoundsInTime`
  strengthens it with what the round in progress may still cost (`Load`, the
  attempts of the network probes left in it), and with a tighter bound while some
  probe has outlived the round: it had budget left when it was asked.  It rests on
  facts about the cardinality of a finite set (`LoadFacts`);
* `WaitImplementsPromise`: every behaviour of `Waiting` is one of `Probes`, under the
  mapping of `Promise`: a container answers once its dwell is over, the others while
  they are serving.

The assumptions used are those the manifest and the module's own constants meet:
finitely many services, each with its place, whole seconds, a pause that is not zero.

`StackRunProofs` proves, for any manifest, profiles, register and number of restarts
that satisfies `StackRunAssumption`, whatever an earlier run left and whichever docker
command fails:

* `RunTyping`, `APassMeansItRan`, `TheRegisterIsHonest`, `NoAlarmIsFalse` and
  `APassStandsAlone`: `TypeOK`, `PassMeansRan`, `RegisterHonest`, `NoFalseAlarm` and
  `PassStandsAlone`.

All follow from one invariant, `IInv` (`RunInvariant`).  What a pass says is about the
past, and what is read at the end is the roster; so `FallShows` says that a container
which fell shows it for as long as it has not been looked at (it does not run, or its
restarts are not zero, since a fall is counted and never taken back), `FallSeen` that
the roster then shows it, and `Decided` and `Clean` that a verdict without an error has
read all of it.  `Fresh` and `Unlooked` tie this to one run: what is looked at is looked
at after the wait.  `AsPinned` and `OnlyMended` carry the other direction, what holds
of a run in which nothing is the matter, for `NoFalseAlarm`.

`RecorderProofs` proves, for any number of invocations, services, probes and ports that
satisfies `RecorderAssumption`, whatever stops, is removed by hand or is killed beside
them:

* `RecorderTyping`, `NoImageOfTheirsIsRemoved`, `EachContainerIsClearedAway` and
  `WhatIsAskedIsItsOwn`: `TypeOK`, `TheirImagesStay`, `ClearedAway` and `AsksItsOwn`;
* `AnExitOfZeroMeansRecorded` and `NoneIsTakenFromAnother`: `ExitMeansRecorded` and
  `NotEachOthers`, where the invocations are given different services (`Apart`).  The
  hypothesis is needed: a container and a fixture are known by the service's name, so
  an invocation given the service of another clears that one's fixtures away and, in its
  `finally`, removes its container.  Nothing in the code keeps them apart; the
  runs check the two properties on invocations that are.

The first four follow from `Whose`: which invocation made each container that is still
its run's (`MadeByIts`), that an up container has its port to itself (`BoundOnce`), and
that an image which may be removed for having been pulled was not there before
(`PulledIsOurs`), where the look for it
did not fail.  The exit code needs `Written` besides: what has been written of the
services an invocation is past (`Behind`) and of the one it is at (`Current`), unless
something has broken, which is remembered to the end (`failed`).  A step of another
invocation spoils only fixtures of its own services (`SpoilsItsOwn`).

`PinBumpProofs` proves, for any services, releases and commits that satisfy
`PinBumpAssumption`, wherever a job dies, whatever people edit and at whichever commit
a run begins or is run again:

* `PipelineTyping`, `PinsMoveWithRecordings`, `NoPullRequestIsEmptied` and
  `EveryCommitFindsItsBase`: `TypeOK`, `PinAndRecordings`, `NeverEmptied` and
  `CommitFindsItsBase`;
* `NothingLandedIsUndone`: the action property `NothingUndone`.

`PInv` says it of every place a change can be at.  `MainIs`: every commit of main has
the recordings of its pins, and pins what was published.  `Based` and `Waits`: what a
job, or a dispatch that waits, would pin is no older than what was pinned at the commit
it began at; so a pin that moves goes forward (`Carries`), and a branch never is what
its base is (`Proposed`), which is why no pull request is emptied.  `Staged`: the
scratch ref is the job's own from where it is staged.  Main only grows (`Grows`), so
all this stays true of the commits it speaks of.  A merge then undoes nothing: `MergeDone`
shows, line by line, that what lands is main's, or is the change's where main has not
moved from the base or has moved to the same.

`PinReviewProofs` proves, for every set of services, repositories and tags, any number
of builds, publications and days that satisfies `PinReviewAssumption`:

* `TagsAreReviewed`: `TagWasReviewed`.  At a merge a pin that is not reviewed is, by
  the judge, not bumped; so it kept its tag or was respelled, and a tag that came
  from a respelling is of a fixed build and is respelled no more;
* `BuildsRunOnBoth`: `RunsOnBoth`;
* `MovedPinsAreNamed`: `MovedPinIsNamed`;
* `WhatTheScriptsWritePasses`: `BotPasses`, but for a build that is only tagged again,
  which `judge` refuses whatever is re-affirmed.  `pins.py` and `image_bump.py` name the
  service for a trailer by the rule that `check_manifest_change.py` holds in another
  file; `BumpPasses` is what a single pin, moved so, comes to before the judge, and
  main does not move while the request is open but by the merge of it;
* `TheNewestIsTaken`: `BotTakesNewest`, for a registry that lists any number of tags.

None of the first three is inductive: what they say of a merge was established by the run
in the queue, and the world went on since.  `PinsInv` adds `Passed`, that what that
run found is still so of the change it queued (`PublishKeeps`: a build keeps its
platforms, and what a tag has named it has named), `Built`, that no digest comes from
nowhere, and `Typed`.  `MaxIsReached`, that a bounded set of naturals has its
maximum (`GreatestIsThere`), is what `Names` and `Latest` rest on.

`TheNewestIsTaken` rests on `NewestIsReturned`: of any list of tags, `newest_in_major`
returns the pinned tag or one of the list that is spelled like it in its major, and
none of those is newer.  After each tag of the list that is so of what has been walked
(`KeptRightly`, `OneMoreTag`), since the order of two keys of one spelling is strict
and goes on from one to the next (`AfterIsStrict`, `AfterGoesOn`); the induction is over
the first place of the list where it would not be.  What is chosen is written to a
manifest only where it names a build, so it is a tag that was published, and `Typed`
need not speak of it.

`GatesProofs` proves, of the gate on alerts, for any languages, pushes, tools beside CodeQL and length
of the wait (`LanguageAssumption`, `BoundsAssumption`):

* `GateTyping`: `TypeOK`;
* `GreensLooked`: `GreenMeansLooked`, that a run never passes with an open finding of
  its own commit, although the alerts it reads are those of the ref, where a later
  commit may have superseded them.  The invariant adds `LastIsHead`, that the run
  which is going on is of its ref's last commit, so nothing supersedes what is read;
  and `SaidOnce`, that each commit and category are said once, with one finding,
  so what a run has read it would read again;
* `RefusalsAreFounded`: `NotRefusedForNothing`, with `WaitedEnough`: a run past its
  wait had every analysis at the last poll, or has polled as often as it may.

Of the gate on licences, for any releases, spellings, licence files and licences
that satisfy `LicenceAssumption`:

* `NoFileSlipsIn`: `NoFileUnread`;
* `GateVerdictsBearOut`: `GateBearsOut`.

What a run has found holds while it goes on, though releases are withdrawn between
its requests.  `GoingBack` says that everything pinned after the release it asks about
is one no file can be read of, or a pin git did not show, that every release asked
about but that one is, and whose file it has read; `Comparing` that each spelling it went past is not the release's; `Compared`
that a file found unchanged is that of such a pin.  All three only grow truer as
releases are withdrawn, and `NoFileUnread` follows at the merge.

Of the judgement of a candidate it proves `VerdictsBearOut`, `CandidateBearsOut` for any
project, thresholds and page that satisfy `CandidateAssumption`.  `Evidence` says, of each
question that has been put, that what is held is the project's own, or is what stands
for an answer that was not had; the verdict is then a calculation.

`AdmissionProofs` proves, for any vocabularies, any manifest to begin with and anything
that may be written in it, of the shape the rules read it in (`ShapeAssumption`):

* `LeaversAreRecorded`: `LeavesWithRecord`.  It needs no invariant: that the manifest
  which lands has no fault, and that those who left are recorded, are both read at the
  landing, and `Left`'s rules say the rest;
* `ManifestsAreRead`: `AdmissionTypeOK`, that every edit of a manifest leaves one of the
  shape the rules read it in (no run checks it; `RefusesJustTheUnsound` needs it);
* `RefusesJustTheUnsound`: `AcceptsWhatHolds`, for manifests with any number of files,
  services, profiles, forms, wirings and removals.

The last is `RulesAreSound`: of any manifest of that shape, `Faults` is empty just where
`Sound` holds.  It goes rule by rule, each rule's faults being none just where its
part of `Sound` holds (`LayoutHolds`, `ProfilesHold`, `FormsReach`, `RemovalsHold`,
`WiringsHold`, `ErrandsHold`, and for one service `AServiceHolds` of `ProvidesHold`,
`ClaimsHold`, `PortsHold`, `MountsHold`, `EnvironmentHolds` and the rest).  Under them are
the facts about lists: what a `seen` never meets again is listed once
(`NothingAgain`: as many members as places), and what `joined` makes of the files is
again a list of services (`JoinedIsAList`).  Some rules only come to their part
with the help of another, and the proof says which: a wiring, what it asks of its far
end, and the errands are as `Sound` has them once no two services share a name
(`ProvidedByName`: the last of a name is the only one), the forms once no two forms do.
What a rule would find where another has found a fault already is thus not said,
and need not be.

`DoorProofs` proves, for any items, requests and states of Jellyfin that satisfy
`DoorAssumption` (a request is one of the shapes the handles tell apart, and one that
names another item names one there is):

* `DoorTyping`, `BytesAreOfWhatIsSeen` and `NoneIsRefusedForNothing`: `TypeOK`,
  `ServedAsSeen` and `RefusedForAReason`;
* `TheShippedDoorIsRight`: with the stand-in behind it the shipped door decides every
  request as `Right` wants, the cases of `check_door.py` being some of them;
* `RigTyping` and `NothingIsLeft`: `RigTypeOK` and `RemovedAgain`.

Two lemmas carry what the Caddyfile says.  `RefusesTheUnaskable`: the requests a
handle refuses by itself are just those of `Unaskable`, in the order the handles have
(`FirstMatches`, `GoesOnAt`); and `AsksWhatIsServed`: of any other, the question carries
the session Jellyfin will read and the client the request is for, and is put about the
item whose bytes are served.  `DoorInv` then says of a request in flight that each item
it was to be asked about is still to be asked about, or was granted at some moment
since it came (`GrantedSoFar`), and that Jellyfin as it is now is one of those
moments.  For `RemovedAgain`, `MadeIsListed` says what a run has made and where it is
written down, at each step of it.

And of the check itself, for any doors of `DoorSpace` and any requests the cases are
among (`CheckAssumption`):

* `TheCasesSuffice`: a door of `DoorSpace` that comes out of every case as it should
  decides every request rightly that the shipped door does not leave to `@unkeyed`;
* `TheVerdictHolds`: `VerdictHolds`.

The cases suffice because each part of a door has a case that catches it, whatever
else is wrong with that door (`CaughtForwarding`, `CaughtNaming`, `CaughtPresenting`,
`CaughtTelling`): a case's request meets first, of all the handles, the one that the
case is for, or slips through to the forward (`MeetsFirst`, `SlipsThrough`), and
neither depends on which of the others are there.  So only the shipped door has no
problem, or that door without `@unkeyed` (`OnlyTheShippedPasses`), and of those
`TheShippedDoorIsRight` says the rest.  It says nothing of a door that is wrong in a way `DoorSpace` cannot write down.
`VerdictInv` adds to `VerdictHolds` what a run has found by each of its steps
(`Weighed`).

Every invariant and every action property of the passing runs is proved.
Model-checked only are the liveness properties (`SteadyIsHeard`, `WaitEnds`, `TornDown`,
`RunEnds`, `InvocationEnds`, `HeldBackAlone`), which are out of the
prover's reach.

## Where the code and its text disagree

Four of these are runs: a pass over containers `down` left (`stack_run_down`), a held
container removed (`recorder_held`), a release tagged again that no trailer re-affirms
(`pin_review_retagged`), an unread history reported as a refusal (`gates_unread`).  The
models show the others as plainly, and no property that passes denies them:

* `wait_for_all` says the time recorded of a probe is `not the time it spent queued
  behind another' (`check_runs.py` L260); a round asks one after another, so it holds
  the attempts of those that hang before it.  `OneRoundsQueue` bounds how much.
* `a service recorded in KNOWN_BROKEN is *still* broken' (`check_runs.py` L25); where
  `docker inspect` fails on its container, the row says neither image nor state, and a
  defect that is mended is passed over.  `RegisterHonest` excepts what could not be read.
* `An image that was already here is somebody else's' (`record.py` L270); a look that
  failed reads as no image, and the one that was there is removed.  `TheirImagesStay`
  excepts those (`misread`).
* `The container and its volume are removed whether or not that worked' (`record.py`
  L13), and `all removed again by name whatever happened' (`check_door.py` L512); nobody
  looks whether Docker removed them.  `ClearedAway` and `RemovedAgain` except what is `stuck`.
* `Exit 0 = the door holds' (`check_door.py` L37); no case reaches `@unkeyed`, so a door
  without it passes and hands on what it must refuse.  `VerdictHolds` excepts its requests.
* `check_images.py` L189 calls an added pin re-published whose tag never named its build.
  `MovedPinIsNamed` is what holds of a pin that moves.
* A release that exists and ships no licence file is taken for a withdrawn one
  (`check_licences.py` L41 and L167), as the forge answers 404 for both: the walk goes on
  to an earlier pin.  `NoFileUnread` says what it goes past.
* An own image whose manifest records another licence fails `gated or not'
  (`check_licences.py` L57); `survey` fails it only where it is gated (L454).
  `GateBearsOut` asks for neither.

## What the code leaves open

Met while modelling, where no line of the repository was found that says otherwise:

* A port is the recorder's while its container runs.  Once the container stops,
  Docker may give the port to another invocation's, which the first one then asks
  (`record.py` L189): `AsksItsOwn` is stated of a container that is running.
* A failed inspection of a container that runs as it should fails the run
  (`check_runs.py` L394-400): `NoFalseAlarm` excepts the services that could not be read.
* What `docker create` was making when an interrupt came is not on the rig's list, and a
  kill leaves networks that hold the fixed subnets, so that neither the next check nor
  a stack starts: `RemovedAgain` excepts the first, and `Sweep` is the operator.
* Tags that could not be read, or a registry that did not answer, count as none
  (`check_candidate.py` L186), and refuse a candidate that has no releases.  A project with more commits than a page is credited with its age.
* Two removals may name each other as what replaced them, and a record of a removal
  may be dropped later: the rules ask only that the name is known.
* A wiring may ask for a capability nobody provides.
* Revisions whose manifest git cannot show are gone past without a word
  (`check_licences.py` L202-205), so a bump may be cleared by a file older than one
  that was pinned since: `NoFileUnread` excepts the pins in them.
* The licence gate looks at moves of a pin only: a service that comes in, and a change
  of `upstream` or `license` alone, are left to whoever reads the change.
* Two publishes dispatched in the opposite order leave the older one pinned
  (`image_bump.py` L91), and a release withdrawn after its date was taken makes the
  date fail until people change it (`check_releases.py` L52).

## What is not modelled

Wording, logging and layout; the self-tests other than the door's, which are tests of
the code; the writing of the project by the lemonfiber binary, which is another
program; the scrubbing of a recording; the text of a service file and how a pin is
edited in it; TOML that cannot be parsed, and entries of `include` that lead out of
`services/`; the requests and headers by which a registry or a forge is asked; what
`door_pair.py` and the recipes write down, which is data; `/proc`-level process death
of docker's own children.  The text checks, the git hooks and the repository's
automation are not modelled: they compare files, or call what is kept elsewhere.
PROJECT.json lists each component with the reason.

## Plan

1. `Scrub`: `record.py` L87-177, what is taken out of a recording: no form of a
   secret survives, whatever order the forms are taken out in.
2. `pre-push`: which of the checks run over what is pushed, by the refs it is given.
3. `registry.py`'s paging and the token it asks for, where the list ends or fails.
