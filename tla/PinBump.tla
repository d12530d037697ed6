------------------------------- MODULE PinBump -------------------------------
(***************************************************************************)
(* How a pin moves: the runs of pins.yml, one job of pin-service.yml for   *)
(* each service its plan names, and image-bump.yml for lemonfiber's own    *)
(* images, against main, the registry and the pull requests.  A job reads  *)
(* whole files at the commit its run began at and commits them much later; *)
(* main, the registry and people go on meanwhile, and a job may die after  *)
(* any request it makes.                                                   *)
(***************************************************************************)
EXTENDS Integers, Sequences, SequencesExt

CONSTANTS Service,          \* the services of the manifest
          Own,              \* those whose image lemonfiber builds
          Claiming,         \* those with recordings to keep
          MaxPin,           \* bound: how often an image is published
          MaxMain           \* bound: how many commits main has

ASSUME PinBumpAssumption ==
    /\ Own \subseteq Service
    /\ Claiming \subseteq Service
    /\ MaxPin \in Nat
    /\ MaxMain \in Nat \ {0}

VARIABLES main,             \* what each commit of main holds, service by service
          registry,         \* the newest release of each image
          ref,              \* the branches the jobs write
          run,              \* the run of pins.yml
          job,              \* each service's job
          dispatched,       \* the image-bump waiting for its group, with its sha
          armed             \* the commit each open pull request merges at

world == <<main, registry>>
vars == <<main, registry, ref, run, job, dispatched, armed>>

\* A service's files: its pin, what its recordings were taken from, and the
\* rest of them, which only people edit.  Pins are numbered in their order.
Files == [pin: 0..MaxPin, rec: 0..MaxPin, rest: 0..MaxMain]

\* A commit is known by the commit of main it is on and by the files of the
\* one service it may change; on a bare one they are main's own.
Commit == [on: 1..MaxMain, files: Files]
None == [on |-> 0, files |-> [pin |-> 0, rec |-> 0, rest |-> 0]]
Bare(s, on) == [on |-> on, files |-> main[on][s]]

Branch(s) == <<"branch", s>>
SlipNoScratch(s) == Branch(s)
Scratch(s) == <<"staging", s>>

NoJob == [pc |-> "none", base |-> 1, to |-> 0, files |-> None.files]
Starting(s, base, to) == [pc |-> "move", base |-> base, to |-> to, files |-> main[base][s]]
At(s, pc) == job[s].pc = pc
Step(s, pc) == job' = [job EXCEPT ![s].pc = pc]
Working == {"move", "record", "validate", "stage", "commit", "across", "drop", "open"}
-----------------------------------------------------------------------------
Init ==
    /\ main = <<[s \in Service |-> None.files]>>
    /\ registry = [s \in Service |-> 0]
    /\ ref = [r \in {"branch", "staging"} \X Service |-> None]
    /\ run = [pc |-> "idle", base |-> 1]
    /\ job = [s \in Service |-> NoJob]
    /\ dispatched = [s \in Own |-> NoJob]
    /\ armed = [s \in Service |-> None]

\* A run begins at main as it is, or again where an earlier one did.  The group
\* `pins' holds one at a time.
Begin ==
    /\ run.pc = "idle"
    /\ \E base \in {run.base, Len(main)} : run' = [pc |-> "plan", base |-> base]
    /\ job' = [s \in Service |-> IF s \in Own THEN job[s] ELSE NoJob]
    /\ UNCHANGED <<world, ref, dispatched, armed>>

\* Whose newest release, or its digest, is not what that commit pins; what the
\* registry could not be asked is left out.
Due == {s \in Service \ Own : registry[s] # main[run.base][s].pin}

Plan ==
    /\ run.pc = "plan"
    /\ \E planned \in SUBSET Due :
        /\ job' = [s \in Service |-> IF s \in planned THEN Starting(s, run.base, 0) ELSE job[s]]
        /\ run' = [run EXCEPT !.pc = IF planned = {} THEN "idle" ELSE "bump"]
    /\ UNCHANGED <<world, ref, dispatched, armed>>

RunOver ==
    /\ run.pc = "bump"
    /\ \A s \in Service \ Own : job[s].pc \notin Working
    /\ run' = [run EXCEPT !.pc = "idle"]
    /\ UNCHANGED <<world, ref, job, dispatched, armed>>

\* One that is over is run again, as it was dispatched.
Again(s) ==
    /\ s \in Own
    /\ job[s].pc \in {"done", "failed"}
    /\ dispatched[s] = NoJob
    /\ dispatched' = [dispatched EXCEPT ![s] = Starting(s, job[s].base, job[s].to)]
    /\ UNCHANGED <<world, ref, run, job, armed>>

\* An image-bump leaves its group's queue, with the sha it was dispatched at.
Admit(s) ==
    /\ s \in Own
    /\ dispatched[s] # NoJob
    /\ job[s].pc \notin Working
    /\ job' = [job EXCEPT ![s] = Starting(s, dispatched[s].base, dispatched[s].to)]
    /\ dispatched' = [dispatched EXCEPT ![s] = NoJob]
    /\ UNCHANGED <<world, ref, run, armed>>
-----------------------------------------------------------------------------
\* The pin is written: the newest as the registry tells it now, or the one that
\* was dispatched.  The job is done where nothing moves.
Target(s) == IF s \in Own THEN job[s].to ELSE registry[s]

Move(s) ==
    /\ At(s, "move")
    /\ IF Target(s) = job[s].files.pin
       THEN Step(s, "done")
       ELSE job' = [job EXCEPT ![s].files.pin = Target(s), ![s].pc = IF s \in Own THEN "validate" ELSE "record"]
    /\ UNCHANGED <<world, ref, run, dispatched, armed>>

\* The service's claims, if it has any, are recorded from the image just pinned.
Record(s) ==
    /\ At(s, "record")
    /\ job' = [job EXCEPT ![s].pc = "validate",
                          ![s].files.rec = IF s \in Claiming THEN job[s].files.pin ELSE @]
    /\ UNCHANGED <<world, ref, run, dispatched, armed>>

\* validate_manifest.py: recordings are of the digest that is pinned.
Holds(s, files) == s \in Claiming => files.rec = files.pin

Validate(s) ==
    /\ At(s, "validate")
    /\ Step(s, IF Holds(s, job[s].files) THEN "stage" ELSE "failed")
    /\ UNCHANGED <<world, ref, run, dispatched, armed>>

\* The commit the files were read from.
SlipMainAsItIs(s) == Len(main)
Base(s) == job[s].base

\* The scratch ref is created there, or moved there if an earlier job left one.
SlipUsesWhatItFinds(s) ==
    /\ At(s, "stage")
    /\ ref' = IF ref[Scratch(s)] = None THEN [ref EXCEPT ![Scratch(s)] = Bare(s, Base(s))] ELSE ref
    /\ Step(s, "commit")
    /\ UNCHANGED <<world, run, dispatched, armed>>
Stage(s) ==
    /\ At(s, "stage")
    /\ ref' = [ref EXCEPT ![Scratch(s)] = Bare(s, Base(s))]
    /\ Step(s, "commit")
    /\ UNCHANGED <<world, run, dispatched, armed>>

\* createCommitOnBranch, with every file that changed, where the ref is still
\* at the commit it expects; then the pull request's branch is moved to it.
SlipPinWithoutRecordings(s) == [on |-> Base(s), files |-> [job[s].files EXCEPT !.rec = main[Base(s)][s].rec]]
Built(s) == [on |-> Base(s), files |-> job[s].files]

CommitOnScratch(s) ==
    /\ At(s, "commit")
    /\ ref[Scratch(s)] = Bare(s, Base(s))
    /\ ref' = [ref EXCEPT ![Scratch(s)] = Built(s)]
    /\ Step(s, "across")
    /\ UNCHANGED <<world, run, dispatched, armed>>

MoveAcross(s) ==
    /\ At(s, "across")
    /\ ref' = [ref EXCEPT ![Branch(s)] = ref[Scratch(s)]]
    /\ Step(s, "drop")
    /\ UNCHANGED <<world, run, dispatched, armed>>

\* Deleting the scratch ref may fail, and nothing is said of it.
Drop(s) ==
    /\ At(s, "drop")
    /\ ref' \in {ref, [ref EXCEPT ![Scratch(s)] = None]}
    /\ Step(s, "open")
    /\ UNCHANGED <<world, run, dispatched, armed>>

\* The second job: the pull request is opened, or the open one edited, and
\* armed at the commit just built, if the branch is at it.
OpenOrEdit(s) ==
    /\ At(s, "open")
    /\ IF ref[Branch(s)] = Built(s)
       THEN armed' = [armed EXCEPT ![s] = Built(s)] /\ Step(s, "done")
       ELSE Step(s, "failed") /\ UNCHANGED armed
    /\ UNCHANGED <<world, ref, run, dispatched>>

\* A step fails, is refused, or runs into its timeout.
SlipFailFast(s) ==
    /\ job[s].pc \in Working
    /\ job' = [t \in Service |->
                 IF t = s THEN [job[t] EXCEPT !.pc = "failed"]
                 ELSE IF t \notin Own /\ s \notin Own /\ job[t].pc \in Working
                 THEN [job[t] EXCEPT !.pc = "cancelled"] ELSE job[t]]
    /\ UNCHANGED <<world, ref, run, dispatched, armed>>
Fail(s) ==
    /\ job[s].pc \in Working
    /\ Step(s, "failed")
    /\ UNCHANGED <<world, ref, run, dispatched, armed>>

Job(s) ==
    \/ Move(s) \/ Record(s) \/ Validate(s) \/ Stage(s) \/ CommitOnScratch(s)
    \/ MoveAcross(s) \/ Drop(s) \/ OpenOrEdit(s)
-----------------------------------------------------------------------------
\* A line of a file after a merge: what either side made of it, where they do
\* not each make something else.
Merged(base, ours, theirs) == IF theirs = base THEN ours ELSE theirs
Clash(base, ours, theirs) == ours # base /\ theirs # base /\ ours # theirs

\* An armed pull request merges once its checks are green, if its branch is
\* still at the commit it was armed at and no line clashes with main.
Merge(s) ==
    LET now == Last(main)
        was == main[armed[s].on]
        new == armed[s].files
    IN  /\ armed[s] # None
        /\ ref[Branch(s)] = armed[s]
        /\ Holds(s, new)
        /\ Len(main) < MaxMain
        /\ \A line \in {"pin", "rec", "rest"} : ~Clash(was[s][line], now[s][line], new[line])
        /\ main' = Append(main, [now EXCEPT ![s] =
                       [line \in {"pin", "rec", "rest"} |-> Merged(was[s][line], now[s][line], new[line])]])
        /\ armed' = [armed EXCEPT ![s] = None]
        /\ ref' \in {ref, [ref EXCEPT ![Branch(s)] = None]}
        /\ UNCHANGED <<registry, run, job, dispatched>>

\* Somebody edits a service's files, or moves its pin with its recordings.
Edit(s) ==
    /\ Len(main) < MaxMain
    /\ \E files \in {[Last(main)[s] EXCEPT !.rest = @ + 1],
                     [Last(main)[s] EXCEPT !.pin = registry[s],
                                           !.rec = IF s \in Claiming THEN registry[s] ELSE @]} :
        main' = Append(main, [Last(main) EXCEPT ![s] = files])
    /\ UNCHANGED <<registry, ref, run, job, dispatched, armed>>

\* Somebody closes a pull request.
CloseIt(s) ==
    /\ armed[s] # None
    /\ armed' = [armed EXCEPT ![s] = None]
    /\ UNCHANGED <<world, ref, run, job, dispatched>>

\* A release is published.  lemonfiber's own is dispatched as it is, in place
\* of one that was still waiting.
Publish(s) ==
    /\ registry[s] < MaxPin
    /\ registry' = [registry EXCEPT ![s] = @ + 1]
    /\ dispatched' = IF s \in Own
                     THEN [dispatched EXCEPT ![s] = Starting(s, Len(main), registry[s] + 1)]
                     ELSE dispatched
    /\ UNCHANGED <<main, ref, run, job, armed>>

Next ==
    \/ Begin \/ Plan \/ RunOver
    \/ \E s \in Service : \/ Again(s) \/ Admit(s) \/ Job(s) \/ Fail(s)
                          \/ Merge(s) \/ Edit(s) \/ CloseIt(s) \/ Publish(s)

\* GitHub goes on with a job it has started, until it is done or has failed.
Spec == Init /\ [][Next]_vars /\ \A s \in Service : WF_vars(Job(s))
-----------------------------------------------------------------------------
\* The state has its type.
TypeOK ==
    /\ main \in Seq([Service -> Files]) /\ Len(main) \in 1..MaxMain
    /\ registry \in [Service -> 0..MaxPin]
    /\ ref \in [{"branch", "staging"} \X Service -> Commit \union {None}]
    /\ run \in [pc: {"idle", "plan", "bump"}, base: 1..MaxMain]
    /\ job \in [Service -> [pc: Working \union {"none", "done", "failed"},
                            base: 1..MaxMain, to: 0..MaxPin, files: Files]]
    /\ dispatched \in [Own -> [pc: {"none", "move"}, base: 1..MaxMain, to: 0..MaxPin, files: Files]]
    /\ armed \in [Service -> Commit \union {None}]

\* A merge undoes nothing that landed while its bump was under way: neither
\* what people wrote in the same files, nor a newer pin.
NothingUndone ==
    [][main' # main =>
        \A s \in Service : /\ Last(main')[s].rest >= Last(main)[s].rest
                           /\ Last(main')[s].pin >= Last(main)[s].pin]_vars

\* A pin and its recordings move in one commit: on main, and on every branch a
\* pull request is opened from, no recording is of another image.
PinAndRecordings ==
    \A s \in Service : /\ Holds(s, Last(main)[s])
                       /\ Holds(s, ref[Branch(s)].files)

\* The branch of an open pull request always has a commit of its own: in the
\* moment it had none, GitHub would close the pull request.
NeverEmptied ==
    \A s \in Service : armed[s] # None =>
        ref[Branch(s)] # None /\ ref[Branch(s)] # Bare(s, ref[Branch(s)].on)

\* What an earlier run left, at whatever step it died, is in nobody's way: the
\* commit finds its scratch ref at the commit it expects.
CommitFindsItsBase ==
    \A s \in Service : At(s, "commit") => ref[Scratch(s)] = Bare(s, job[s].base)

\* `A bump that fails holds back that service and nothing else': every job ends
\* by itself, done or failed.
HeldBackAlone ==
    \A s \in Service : At(s, "move") ~> (job[s].pc \in {"done", "failed"})
=============================================================================
