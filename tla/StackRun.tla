------------------------------ MODULE StackRun ------------------------------
(***************************************************************************)
(* One run of scripts/check_runs.py after another: the stack refused,      *)
(* written, started, waited for, looked over, judged and torn down, while  *)
(* its containers boot, hang, fall over and come back.  The compose        *)
(* project's name is fixed, so what one run leaves the next one finds.     *)
(* The wait is Probes.tla, which Waiting.tla is proved to implement.       *)
(***************************************************************************)
EXTENDS Integers, FiniteSets

CONSTANTS Service,          \* the services of the manifest
          Profile,          \* its profiles
          Request,          \* the sets of profiles runs are asked for
          ProfileOf,        \* which one each service is in
          Unknown,          \* a profile it does not declare
          Unrunnable,       \* UNRUNNABLE: profiles no machine without accounts starts
          KnownBroken,      \* KNOWN_BROKEN: the register of recorded defects
          Container,        \* the services asked nothing
          MaxRestarts       \* bound: how often one container is restarted

ASSUME StackRunAssumption ==
    /\ IsFiniteSet(Service)
    /\ ProfileOf \in [Service -> Profile]
    /\ Unknown \notin Profile
    /\ Request \subseteq (SUBSET (Profile \union {Unknown})) \ {{}}
    /\ Unrunnable \subseteq Profile
    /\ KnownBroken \subseteq Service
    /\ Container \subseteq Service
    /\ MaxRestarts \in Nat \ {0}

VARIABLES phase,            \* where the run is
          profiles,         \* the profiles it was asked for
          box,              \* the project's containers, as the daemon holds them
          serving,          \* the services that would answer a request
          verdict,          \* what the wait said of each service
          listed,           \* what `compose ps' named and is not yet inspected
          rows,             \* the roster: what was inspected, when it was
          errors,           \* the kinds of verdict that failed
          raised,           \* an exception is on its way out
          exit,             \* the exit code of the last run
          fell,             \* history: fell over before it was inspected
          unread,           \* history: there, but `docker inspect' of it failed
          flawed,           \* history: something the run is meant to report
          blind             \* history: the last `compose ps' failed

run == <<profiles, errors, raised, exit>>
history == <<fell, unread, flawed, blind>>
vars == <<phase, run, box, serving, verdict, listed, rows, history>>

Running == -1
Ran == 0
Failed == 1
Refused == 2
Killed == 137

Boxes == [state: {"running", "restarting", "exited"}, restarts: 0..MaxRestarts, pinned: BOOLEAN]
Absent == [state |-> "absent", restarts |-> 0, pinned |-> FALSE]
Unlisted == [state |-> "unlisted", restarts |-> 0, pinned |-> FALSE]

Present == {s \in Service : box[s] # Absent}
Chosen == {s \in Service : ProfileOf[s] \in profiles}
Broken == Chosen \intersect KnownBroken
Proved == Chosen \ KnownBroken
Seen   == {s \in Service : rows[s] # Unlisted}

\* The state between two runs.
Idle == phase = "idle"

Nothing == [s \in Service |-> Unlisted]
NotAsked == [s \in Service |-> "none"]
-----------------------------------------------------------------------------
\* The verdicts: judge_roster, judge_probe and judge_known, as
\* judge_everything applies them.  A service in the register is left out of
\* the first two and handed to the third.
Steady(s) == rows[s].state = "running" /\ rows[s].restarts = 0

Told(kind, which) == IF which = {} THEN {} ELSE {kind}

SlipMissingBroken == Chosen \ Seen
Missing == Proved \ Seen

Stray == Seen \ Chosen

SlipRestartsForgiven == {s \in Proved \intersect Seen : rows[s].state # "running"}
Unsteady == {s \in Proved \intersect Seen : ~Steady(s)}

OtherImage == {s \in Proved \intersect Seen : ~rows[s].pinned}

OutOfTime == {s \in Proved : verdict[s] = "late"}

SlipFixedOncePresent == {s \in Broken : verdict[s] = "late" /\ Steady(s)}
Mended == {s \in Broken \intersect Seen : Steady(s) /\ verdict[s] = "ok"}

Verdicts ==
    Told("missing", Missing) \union Told("stray", Stray) \union Told("not steady", Unsteady)
        \union Told("image", OtherImage) \union Told("late", OutOfTime) \union Told("fixed", Mended)
-----------------------------------------------------------------------------
Init ==
    /\ phase = "idle"
    /\ profiles = {}
    /\ box = [s \in Service |-> Absent]
    /\ serving = {}
    /\ verdict = NotAsked
    /\ listed = {}
    /\ rows = Nothing
    /\ errors = {}
    /\ raised = FALSE
    /\ exit = Ran
    /\ fell = {}
    /\ unread = {}
    /\ flawed = FALSE
    /\ blind = FALSE

\* A container an earlier run left: it goes on running, or not, and only that
\* it is there is told.
Created(pinned) == [state |-> "running", restarts |-> 0, pinned |-> pinned]
LeftFromBefore == [s \in Service |-> IF s \in Present THEN Created(TRUE) ELSE Absent]

\* What a run finds out is its own, and goes with its process.
NothingKnown ==
    /\ errors' = {}
    /\ verdict' = NotAsked
    /\ listed' = {}
    /\ rows' = Nothing
    /\ fell' = {}
    /\ unread' = {}
    /\ blind' = FALSE

\* `run' up to the scratch directory: refused with 2 for a profile that is not
\* declared or not runnable, or a lemonfiber on the path; failed with 1 for
\* profiles that hold nothing; otherwise on to writing the project.
Asked ==
    /\ Idle
    /\ profiles' \in Request
    /\ \E onPath \in BOOLEAN :
        LET refusal == onPath \/ profiles' \intersect (Unrunnable \union {Unknown}) # {}
        IN  /\ exit' = IF refusal THEN Refused ELSE IF Chosen' = {} THEN Failed ELSE Running
            /\ phase' = IF exit' = Running THEN "write" ELSE "idle"
            /\ flawed' = (exit' # Running)
    /\ NothingKnown
    /\ raised' = FALSE
    /\ box' = LeftFromBefore
    /\ serving' = {}

\* lemonfiber writes the project and stand_in what its start would have left.
Write ==
    /\ phase = "write"
    /\ phase' = "up"
    /\ UNCHANGED <<run, box, serving, verdict, listed, rows, history>>

\* What `up' creates: some of the services, under the image the project names.
Create(came, wrong) ==
    /\ box' = [s \in Service |-> IF s \in came THEN Created(s \notin wrong) ELSE box[s]]
    /\ serving' = serving \ came

\* `compose up' returns: to the wait, or to a `down' whose result nobody reads
\* and a report that the project did not start.
Up ==
    /\ phase = "up"
    /\ \E came \in SUBSET Service : \E wrong \in {{}} \union {{s} : s \in came} : \E started \in BOOLEAN :
        /\ Create(came, wrong)
        /\ phase' = IF started THEN "wait" ELSE "abandon"
        /\ errors' = IF started THEN {} ELSE {"did not start"}
        /\ flawed' = \/ ~started
                     \/ {s \in Service : box'[s] # Absent} # Chosen
                     \/ Chosen \ came # {}
                     \/ wrong \ KnownBroken # {}
    /\ UNCHANGED <<profiles, raised, exit, verdict, listed, rows, fell, unread, blind>>

\* The wait is over a service's own probe; a `container' one is answered by
\* the passing of its dwell, whatever became of the container.
Wait == INSTANCE Probes WITH answering <- serving \union Container

Heard(s) ==
    /\ phase = "wait"
    /\ s \in Chosen
    /\ Wait!Hear(s)
    /\ UNCHANGED <<phase, run, box, serving, listed, rows, history>>

Late(s) ==
    /\ phase = "wait"
    /\ s \in Chosen
    /\ Wait!GiveUp(s)
    /\ flawed' = (flawed \/ s \in Proved)
    /\ UNCHANGED <<phase, run, box, serving, listed, rows, fell, unread, blind>>

\* `roster', once every probe is decided: `compose ps' names the containers,
\* and a `ps' that fails names none.
SlipRosterWhenAllAnswer ==
    /\ phase = "wait"
    /\ \A s \in Chosen : verdict[s] = "ok"
    /\ phase' = "roster"
    /\ \E ok \in BOOLEAN :
        /\ listed' = IF ok THEN Present ELSE {}
        /\ blind' = ~ok
        /\ flawed' = (flawed \/ ~ok)
    /\ UNCHANGED <<run, box, serving, verdict, rows, fell, unread>>
List ==
    /\ phase = "wait"
    /\ \A s \in Chosen : verdict[s] # "none"
    /\ phase' = "roster"
    /\ \E ok \in BOOLEAN :
        /\ listed' = IF ok THEN Present ELSE {}
        /\ blind' = ~ok
        /\ flawed' = (flawed \/ ~ok)
    /\ UNCHANGED <<run, box, serving, verdict, rows, fell, unread>>

\* `docker inspect' of one of them, which may have fallen or gone since.  Its
\* failure is not looked at: the row of a container it could not read says
\* what the row of one that is gone does, which is nothing.
Inspect(s) ==
    /\ phase = "roster"
    /\ s \in listed
    /\ listed' = listed \ {s}
    /\ \E read \in BOOLEAN :
        LET lost == ~read /\ box[s] # Absent
        IN  /\ rows' = [rows EXCEPT ![s] = IF read THEN box[s] ELSE Absent]
            /\ unread' = IF lost THEN unread \union {s} ELSE unread
            /\ flawed' = (flawed \/ (lost /\ s \notin Broken))
    /\ UNCHANGED <<phase, run, box, serving, verdict, fell, blind>>

Judge ==
    /\ phase = "roster"
    /\ listed = {}
    /\ errors' = Verdicts
    /\ phase' = "down"
    /\ UNCHANGED <<profiles, raised, exit, box, serving, verdict, listed, rows, history>>

\* Anything between `up' and `down' may raise, an interrupt included, and the
\* `finally' still tears the project down.
SlipNoFinally ==
    /\ phase \in {"wait", "roster"}
    /\ phase' = "idle"
    /\ raised' = TRUE
    /\ exit' = Failed
    /\ flawed' = TRUE
    /\ UNCHANGED <<profiles, errors, box, serving, verdict, listed, rows, fell, unread, blind>>
Raise ==
    /\ phase \in {"wait", "roster"}
    /\ phase' = "down"
    /\ raised' = TRUE
    /\ flawed' = TRUE
    /\ UNCHANGED <<profiles, errors, exit, box, serving, verdict, listed, rows, fell, unread, blind>>

\* `down' removes the containers, or some of them, and says whether it failed.
Remove(left) ==
    /\ box' = [s \in Service |-> IF s \in left THEN box[s] ELSE Absent]
    /\ serving' = serving \intersect left

\* The `down' of a run that did not start: its result is not looked at.
Abandon ==
    /\ phase = "abandon"
    /\ \E left \in SUBSET Present : Remove(left)
    /\ phase' = "report"
    /\ UNCHANGED <<run, verdict, listed, rows, history>>

\* The `down' of a run that did.  An exception on its way out goes on from
\* here, past the recount and the report.
Down ==
    /\ phase = "down"
    /\ \E left \in SUBSET Present : \E ok \in BOOLEAN :
        /\ Remove(left)
        /\ errors' = IF ok THEN errors ELSE errors \union {"down failed"}
        /\ flawed' = (flawed \/ ~ok \/ left # {})
    /\ phase' = IF raised THEN "idle" ELSE "recount"
    /\ exit' = IF raised THEN Failed ELSE exit
    /\ UNCHANGED <<profiles, raised, verdict, listed, rows, fell, unread, blind>>

\* `roster' again, for judge_teardown.
SlipTrustDown ==
    /\ phase = "recount"
    /\ UNCHANGED errors
    /\ blind' = FALSE
    /\ phase' = "report"
    /\ UNCHANGED <<profiles, raised, exit, box, serving, verdict, listed, rows, fell, unread, flawed>>
Recount ==
    /\ phase = "recount"
    /\ \E ok \in BOOLEAN :
        /\ errors' = IF ok /\ Present # {} THEN errors \union {"left behind"} ELSE errors
        /\ blind' = ~ok
    /\ phase' = "report"
    /\ UNCHANGED <<profiles, raised, exit, box, serving, verdict, listed, rows, fell, unread, flawed>>

Report ==
    /\ phase = "report"
    /\ exit' = IF errors = {} THEN Ran ELSE Failed
    /\ phase' = "idle"
    /\ UNCHANGED <<profiles, errors, raised, box, serving, verdict, listed, rows, history>>
-----------------------------------------------------------------------------
\* Outside the `try': writing the project fails, or `up', either `down' or the
\* recount is interrupted.  What it had not removed, or had created, stays.
Interrupt ==
    /\ phase \in {"write", "up", "abandon", "down", "recount"}
    /\ CASE phase = "up" -> \E came \in SUBSET Service : Create(came, {})
         [] phase \in {"abandon", "down"} -> \E left \in SUBSET Present : Remove(left)
         [] OTHER -> UNCHANGED <<box, serving>>
    /\ phase' = "idle"
    /\ raised' = TRUE
    /\ exit' = Failed
    /\ flawed' = TRUE
    /\ NothingKnown
    /\ UNCHANGED profiles

\* The process is killed, and no `finally' runs.
Kill ==
    /\ ~Idle
    /\ phase' = "idle"
    /\ exit' = Killed
    /\ flawed' = TRUE
    /\ NothingKnown
    /\ UNCHANGED <<profiles, raised, box, serving>>

\* The containers' own doings, for as long as a run is yet to look at them.
\* Of a container that is not the run's own only its presence is told.
Watched(s) == phase \in {"wait", "roster"} /\ s \in (Present \intersect Chosen) \ Seen

Boot(s) ==
    /\ Watched(s)
    /\ box[s].state = "running"
    /\ s \notin serving \union Container
    /\ serving' = serving \union {s}
    /\ UNCHANGED <<phase, run, box, verdict, listed, rows, history>>

Hang(s) ==
    /\ Watched(s)
    /\ s \in serving
    /\ serving' = serving \ {s}
    /\ UNCHANGED <<phase, run, box, verdict, listed, rows, history>>

\* It stops: to be started again by its restart policy, for good, or removed
\* by a hand that is not this run's.
Fall(s) ==
    /\ Watched(s)
    /\ box[s].state = "running"
    /\ box[s].restarts < MaxRestarts
    /\ \E fallen \in {[box[s] EXCEPT !.state = "restarting"], [box[s] EXCEPT !.state = "exited"], Absent} :
        box' = [box EXCEPT ![s] = fallen]
    /\ serving' = serving \ {s}
    /\ fell' = fell \union {s}
    /\ flawed' = (flawed \/ s \notin Broken)
    /\ UNCHANGED <<phase, run, verdict, listed, rows, unread, blind>>

Return(s) ==
    /\ Watched(s)
    /\ box[s].state = "restarting"
    /\ box' = [box EXCEPT ![s].state = "running",
                          ![s].restarts = @ + 1]
    /\ UNCHANGED <<phase, run, serving, verdict, listed, rows, history>>

Script ==
    \/ Write \/ Up \/ List \/ Judge \/ Abandon \/ Down \/ Recount \/ Report
    \/ \E s \in Service : Heard(s) \/ Late(s) \/ Inspect(s)

World ==
    \/ Asked \/ Raise \/ Interrupt \/ Kill
    \/ \E s \in Service : Boot(s) \/ Hang(s) \/ Fall(s) \/ Return(s)

Next == Script \/ World

\* The script goes on while docker's commands return; nothing else must happen.
Spec == Init /\ [][Next]_vars /\ WF_vars(Script)
-----------------------------------------------------------------------------
\* The state has its type.
TypeOK ==
    /\ phase \in {"idle", "write", "up", "abandon", "wait", "roster", "down", "recount", "report"}
    /\ profiles \in Request \union {{}}
    /\ box \in [Service -> Boxes \union {Absent}]
    /\ serving \subseteq Service
    /\ verdict \in [Service -> {"none", "ok", "late"}]
    /\ listed \subseteq Service
    /\ rows \in [Service -> Boxes \union {Absent, Unlisted}]
    /\ errors \subseteq {"did not start", "missing", "stray", "not steady", "image", "late", "fixed",
                         "down failed", "left behind"}
    /\ raised \in BOOLEAN
    /\ exit \in {Running, Ran, Failed, Refused, Killed}
    /\ fell \subseteq Service
    /\ unread \subseteq Service
    /\ flawed \in BOOLEAN
    /\ blind \in BOOLEAN

\* A run that has passed, and was asked for something.
Passed == Idle /\ exit = Ran /\ profiles # {}

\* `0 = the stack ran': each service of the profiles outside the register was
\* heard answering, ran the pinned image, and did not once fall over from the
\* time it was started to the time it was inspected, before or after it answered.
PassMeansRan ==
    Passed => \A s \in Proved : /\ verdict[s] = "ok"
                                /\ s \notin fell
                                /\ rows[s].pinned

\* A recorded defect does not outlive a run that could look: none passes in
\* which a service of the register answered and stayed up until it was looked
\* at, where `ps' listed it and its inspection did not fail.
RegisterHonest ==
    Passed => \A s \in Broken \intersect Seen : ~(verdict[s] = "ok" /\ s \notin fell \union unread)

\* A run fails only for a reason: where every container came up pinned, none
\* outside the register fell, was late or could not be inspected, `ps' and
\* `down' did their work, and nobody interrupted it, only a defect mended in
\* the register fails it.
NoFalseAlarm ==
    Idle /\ exit = Failed /\ ~flawed =>
        \E s \in Broken : verdict[s] = "ok" /\ s \notin fell

\* A pass is of this run alone: it held no container but those of its own
\* profiles when it judged, leftovers of an earlier run included, and nothing of
\* the project is left after it, whatever `down' said, where its last `ps' could
\* tell.
PassStandsAlone == Passed => /\ Seen \subseteq Chosen
                             /\ ~blind => Present = {}

\* Once the stack is up it is torn down, whatever is raised meanwhile.
TornDown == (phase = "wait") ~> (phase = "down" \/ exit = Killed)

\* Every run ends.
RunEnds == ~Idle ~> Idle

\* The last one: `down leaves nothing behind'.
DownLeavesNothing == Passed => Present = {}
=============================================================================
