------------------------------ MODULE Recorder ------------------------------
(***************************************************************************)
(* Invocations of scripts/record.py against one Docker daemon: each starts *)
(* a pinned image fresh for every service it is given, does the service's  *)
(* first run, asks the probes it claims and writes the fixtures, and takes *)
(* the container away again unless told to hold it.  Containers are        *)
(* addressed by name and asked through a port; they may stop, be removed   *)
(* by hand, and outlive an invocation that was killed.                     *)
(***************************************************************************)
EXTENDS Integers, Sequences

CONSTANTS Runner,           \* the invocations that may be under way at once
          Service,          \* the services of the manifest
          Wanted,           \* the lists of services each may be given
          Recipes,          \* the services there is a recipe for
          Probes,           \* bound: how many probes a service claims
          Port,             \* the ports the kernel may choose from
          Theirs            \* the images already on the machine

ASSUME RecorderAssumption ==
    /\ \A r \in Runner : Wanted[r] \subseteq Seq(Service) \ {<<>>}
    /\ Recipes \subseteq Service
    /\ Probes \in Nat \ {0}
    /\ Theirs \subseteq Service

VARIABLES job,              \* what each invocation is doing
          container,        \* the containers, by the service whose name they carry
          image,            \* the images on the machine, and who they are for
          fixture,          \* whether each probe's was written whole by the last
                            \* invocation given its service, as history
          misread           \* history: the images there when a look for them failed

vars == <<job, container, image, fixture, misread>>

Busy == {"look", "create", "start", "ready", "setup", "probe"}
Running == -1
Killed == 137

AtRest == [pc |-> "idle", given |-> <<>>, left |-> <<>>, port |-> "none", pulled |-> FALSE,
           asked |-> 0, broke |-> FALSE, failed |-> FALSE, hold |-> FALSE, exit |-> Running]

\* A container, and as history whose it is: its run's until that is over, held
\* for the operator, left by an invocation that was killed, or that failed and
\* was told to hold, or stuck where its removal failed or was cut short.
None == [by |-> "nobody", port |-> "none", up |-> FALSE, care |-> "none"]

-----------------------------------------------------------------------------
Items(list) == {list[i] : i \in DOMAIN list}

Now(r) == Head(job[r].left)
At(r, pc) == job[r].pc = pc

\* The name is the prefix and the service's own, so one per service.
SlipOneName(s) == CHOOSE t \in Service : TRUE
Name(s) == s

Taken == {container[n].port : n \in {m \in Service : container[m].up}}

\* The container that answers on a port, if one does.
Answering(p) == {n \in Service : container[n].up /\ container[n].port = p}

Go(r, pc) == job' = [job EXCEPT ![r].pc = pc]

\* A step of the `try' raised: on to the `finally'.
Break(r) == job' = [job EXCEPT ![r].pc = "clean", ![r].broke = TRUE]
-----------------------------------------------------------------------------
Init ==
    /\ job = [r \in Runner |-> AtRest]
    /\ container = [s \in Service |-> None]
    /\ image = [s \in Service |-> IF s \in Theirs THEN "theirs" ELSE "absent"]
    /\ fixture = [s \in Service |-> [i \in 1..Probes |-> FALSE]]
    /\ misread = {}

\* `main': an invocation starts, to hold its containers or not.
Begin(r) ==
    /\ At(r, "idle")
    /\ \E given \in Wanted[r], hold \in BOOLEAN :
        /\ job' = [job EXCEPT ![r] = [AtRest EXCEPT !.pc = "look", !.given = given, !.left = given,
                                                    !.hold = hold]]
        /\ fixture' = [s \in Service |-> IF s \in Items(given)
                         THEN [i \in 1..Probes |-> FALSE]
                         ELSE fixture[s]]
    /\ UNCHANGED <<container, image, misread>>

\* Whether the image has to be pulled for this run, for which any failure of
\* `docker image inspect' stands, and a port that is free: the socket it was
\* found with is closed before Docker binds it.
SlipAlwaysPulled(s, read) == TRUE
Pulled(s, read) == ~read \/ image[s] = "absent"

Free == Port \ Taken

Look(r) ==
    /\ At(r, "look")
    /\ Now(r) \in Recipes
    /\ \E p \in Free, read \in BOOLEAN :
        /\ job' = [job EXCEPT ![r].pc = "create", ![r].port = p, ![r].pulled = Pulled(Now(r), read),
                              ![r].asked = 0, ![r].broke = FALSE]
        /\ misread' = IF ~read /\ image[Now(r)] # "absent" THEN misread \union {Now(r)} ELSE misread
    /\ UNCHANGED <<container, image, fixture>>

\* A service the manifest or the recipes do not know is counted as failed.
Unknown(r) ==
    /\ At(r, "look")
    /\ Now(r) \notin Recipes
    /\ job' = [job EXCEPT ![r].pc = "next", ![r].broke = TRUE]
    /\ UNCHANGED <<container, image, fixture, misread>>

\* What `docker create' lacks it pulls, and what it pulled it keeps when it fails.
Pull(r) == image' = [image EXCEPT ![Now(r)] = IF @ = "absent" THEN "ours" ELSE @]

\* A slip: the port is found again for the container, and asked at the first.
SlipFoundAgain(r) ==
    /\ At(r, "create")
    /\ \/ /\ container[Name(Now(r))] = None
          /\ \E p \in Free : container' = [container EXCEPT ![Name(Now(r))] =
                              [by |-> r, port |-> p, up |-> FALSE, care |-> "run"]]
          /\ Pull(r)
          /\ Go(r, "start")
       \/ Break(r) /\ UNCHANGED container /\ (Pull(r) \/ UNCHANGED image)
    /\ UNCHANGED <<fixture, misread>>
\* `docker create', which refuses a name in use.
Create(r) ==
    /\ At(r, "create")
    /\ \/ /\ container[Name(Now(r))] = None
          /\ container' = [container EXCEPT ![Name(Now(r))] =
                              [by |-> r, port |-> job[r].port, up |-> FALSE, care |-> "run"]]
          /\ Pull(r)
          /\ Go(r, "start")
       \/ Break(r) /\ UNCHANGED container /\ (Pull(r) \/ UNCHANGED image)
    /\ UNCHANGED <<fixture, misread>>

\* `docker cp' of the templates and `docker start', both by name.
Start(r) ==
    /\ At(r, "start")
    /\ LET n == Name(Now(r)) IN
       \/ /\ container[n] # None
          /\ container[n].up \/ container[n].port \notin Taken
          /\ container' = [container EXCEPT ![n].up = TRUE]
          /\ Go(r, "ready")
       \/ Break(r) /\ UNCHANGED container
    /\ UNCHANGED <<image, fixture, misread>>

\* `Run.wait': until something answers on the port, or READY_S is over.
SlipWaitForever(r) ==
    /\ At(r, "ready")
    /\ Answering(job[r].port) # {}
    /\ Go(r, "setup")
    /\ UNCHANGED <<container, image, fixture, misread>>
Ready(r) ==
    /\ At(r, "ready")
    /\ \/ Answering(job[r].port) # {} /\ Go(r, "setup")
       \/ Break(r)
    /\ UNCHANGED <<container, image, fixture, misread>>

\* The recipe's first run, through the port, and the container's identities,
\* by name; either may raise.
Setup(r) ==
    /\ At(r, "setup")
    /\ \/ /\ Answering(job[r].port) # {}
          /\ container[Name(Now(r))] # None
          /\ Go(r, "probe")
       \/ Break(r)
    /\ UNCHANGED <<container, image, fixture, misread>>

\* `probed': one probe asked through the port, scrubbed and written.  A text
\* that still carries a credential the run made is refused, which raises.
Probe(r) ==
    /\ At(r, "probe")
    /\ \/ /\ Answering(job[r].port) # {}
          /\ fixture' = [fixture EXCEPT ![Now(r)][job[r].asked + 1] = TRUE]
          /\ job' = [job EXCEPT ![r].asked = @ + 1,
                                ![r].pc = IF job[r].asked + 1 = Probes THEN "clean" ELSE "probe"]
       \/ Break(r) /\ UNCHANGED fixture
    /\ UNCHANGED <<container, image, misread>>

\* The `finally': the container goes, whoever made it, unless it is held.  Nobody
\* looks whether `docker rm' did what it was asked.
Marked(r, n, care) ==
    container' = IF container[n].by = r /\ container[n].care = "run"
                 THEN [container EXCEPT ![n].care = care] ELSE container

Kept(r, n) == Marked(r, n, IF job[r].broke THEN "left" ELSE "held")

Freed(n) == container' = [container EXCEPT ![n] = None]

Keeps(r) == job[r].hold

TakenDown(r) ==
    LET n == Name(Now(r)) IN
    IF Keeps(r) THEN Kept(r, n) ELSE Freed(n) \/ Marked(r, n, "stuck")

Clean(r) ==
    /\ At(r, "clean")
    /\ TakenDown(r)
    /\ Go(r, IF ~job[r].hold /\ job[r].pulled THEN "image" ELSE "next")
    /\ UNCHANGED <<image, fixture, misread>>

\* `docker rmi' of an image pulled for this run, which Docker refuses while
\* any container uses it, and which may fail otherwise.
Untagged(r) ==
    \/ container[Name(Now(r))] = None /\ image' = [image EXCEPT ![Now(r)] = "absent"]
    \/ UNCHANGED image

Image(r) ==
    /\ At(r, "image")
    /\ Untagged(r)
    /\ Go(r, "next")
    /\ UNCHANGED <<container, fixture, misread>>

\* On to the next service, or out: 1 if one of them was not recorded.
SlipLastDecides(r) == job[r].broke
Failing(r) == job[r].failed \/ job[r].broke

After(r) ==
    /\ At(r, "next")
    /\ job' = [job EXCEPT ![r] =
                 IF Len(job[r].left) > 1
                 THEN [job[r] EXCEPT !.pc = "look", !.left = Tail(job[r].left), !.failed = Failing(r)]
                 ELSE [AtRest EXCEPT !.given = job[r].given, !.exit = IF Failing(r) THEN 1 ELSE 0]]
    /\ UNCHANGED <<container, image, fixture, misread>>
-----------------------------------------------------------------------------
\* An interrupt is not an Exception: the `finally' runs, and nothing after it.
\* In the `finally' it cuts short what is under way, and before or after the
\* `try' there is nothing to undo.
Cut(r, pc) == job' = [job EXCEPT ![r].pc = pc, ![r].broke = TRUE, ![r].left = <<Now(r)>>]

SlipInterruptLeaves(r) ==
    /\ job[r].pc \in Busy \ {"look"}
    /\ Cut(r, "next")
    /\ UNCHANGED <<container, image, fixture, misread>>
Interrupt(r) ==
    /\ \/ job[r].pc \in Busy \ {"look"} /\ Cut(r, "clean") /\ UNCHANGED <<container, image>>
       \/ job[r].pc \in {"look", "next"} /\ Cut(r, "next") /\ UNCHANGED <<container, image>>
       \/ At(r, "clean") /\ Cut(r, "next") /\ TakenDown(r) /\ UNCHANGED image
       \/ At(r, "image") /\ Cut(r, "next") /\ Untagged(r) /\ UNCHANGED container
    /\ UNCHANGED <<fixture, misread>>

\* The process is killed, in the middle of writing a fixture perhaps.
Kill(r) ==
    /\ ~At(r, "idle")
    /\ job' = [job EXCEPT ![r] = [AtRest EXCEPT !.exit = Killed]]
    /\ \/ UNCHANGED fixture
       \/ At(r, "probe") /\ fixture' = [fixture EXCEPT ![Now(r)][job[r].asked + 1] = FALSE]
    /\ container' = [n \in Service |-> IF container[n].by = r /\ container[n].care = "run"
                       THEN [container[n] EXCEPT !.care = "left"] ELSE container[n]]
    /\ UNCHANGED <<image, misread>>

\* A container stops, and its port is free again; or the operator removes it.
Stops(n) ==
    /\ container[n].up
    /\ container' = [container EXCEPT ![n].up = FALSE]
    /\ UNCHANGED <<job, image, fixture, misread>>

RemovedByHand(n) ==
    /\ container[n] # None
    /\ container' = [container EXCEPT ![n] = None]
    /\ UNCHANGED <<job, image, fixture, misread>>

Step(r) ==
    \/ Look(r) \/ Unknown(r) \/ Create(r) \/ Start(r) \/ Ready(r) \/ Setup(r)
    \/ Probe(r) \/ Clean(r) \/ Image(r) \/ After(r)

Next ==
    \/ \E r \in Runner : Step(r) \/ Begin(r) \/ Interrupt(r) \/ Kill(r)
    \/ \E n \in Service : Stops(n) \/ RemovedByHand(n)

\* An invocation that was started goes on.
Spec == Init /\ [][Next]_vars /\ \A r \in Runner : WF_vars(Step(r))
-----------------------------------------------------------------------------
\* The state has its type.
TypeOK ==
    /\ job \in [Runner -> [pc: Busy \union {"idle", "clean", "image", "next"},
                           given: Seq(Service), left: Seq(Service), port: Port \union {"none"},
                           pulled: BOOLEAN, asked: 0..Probes, broke: BOOLEAN, failed: BOOLEAN,
                           hold: BOOLEAN, exit: {Running, 0, 1, Killed}]]
    /\ container \in [Service -> [by: Runner, port: Port, up: BOOLEAN,
                                  care: {"run", "held", "left", "stuck"}] \union {None}]
    /\ image \in [Service -> {"absent", "theirs", "ours"}]
    /\ fixture \in [Service -> [1..Probes -> BOOLEAN]]
    /\ misread \subseteq Service

Over(r) == At(r, "idle") /\ job[r].exit # Running

\* `0 = every recording written': an invocation that ended well has written
\* each fixture of each service it was given, whatever stopped, was removed or
\* was recorded beside it, and a service it does not know is not passed over.
ExitMeansRecorded ==
    \A r \in Runner : Over(r) /\ job[r].exit = 0 =>
        \A s \in Items(job[r].given) : \A i \in 1..Probes : fixture[s][i]

\* An image that was on the machine before is somebody else's, and stays, unless
\* a look for it failed while it was there.
TheirImagesStay == \A s \in Theirs \ misread : image[s] = "theirs"

\* Whatever fails or is interrupted, an invocation leaves no container it does
\* not know of: one that is not held, nor left by a kill, nor stuck for a
\* removal that failed, is that of the service its maker is at.
ClearedAway ==
    \A n \in Service : container[n].care = "run" =>
        \E r \in Runner : /\ container[n].by = r
                          /\ job[r].pc \in Busy \union {"clean"}
                          /\ Name(Now(r)) = n

\* Invocations given different services leave each other's containers alone.
NotEachOthers ==
    [][\A n \in Service : container[n].care = "run" /\ container'[n] = None /\ ~UNCHANGED job
            => job'[container[n].by] # job[container[n].by]]_vars

\* Every invocation ends.
InvocationEnds == \A r \in Runner : ~At(r, "idle") ~> At(r, "idle")

\* `Under a container name and a port nothing else uses': while the container an
\* invocation made for the service it is at is up, what answers on its port is
\* that container, although the port was found, and let go, before it was bound.
AsksItsOwn ==
    \A r \in Runner : job[r].pc \in {"ready", "setup", "probe"} =>
        LET n == Name(Now(r)) IN
        container[n].by = r /\ container[n].care = "run" /\ container[n].up
            => Answering(job[r].port) = {n}

\* A container held `until docker rm' goes only by a hand that is not an
\* invocation's: what the recorder prints of it.
HeldStays ==
    [][\A n \in Service : container[n].care = "held"
            => container'[n] # None \/ UNCHANGED job]_vars
=============================================================================
