--------------------------- MODULE RecorderProofs ---------------------------
(***************************************************************************)
(* What the recorder keeps to for any number of invocations, services,     *)
(* probes and ports, and whatever stops, is removed or is killed beside    *)
(* it: whose containers and images it takes away, whose answers it writes, *)
(* and what an exit code of 0 says.                                        *)
(***************************************************************************)
EXTENDS Recorder, SequenceTheorems, TLAPS

\* The invocations are given different services.  Only what an exit code says
\* of the fixtures, and whose container is taken away, rests on it.
Apart ==
    \A r, q \in Runner : r # q =>
        \A mine \in Wanted[r], yours \in Wanted[q] : Items(mine) \intersect Items(yours) = {}

Recorded(s) == \A i \in 1..Probes : fixture[s][i]

\* An invocation under way is at one of the services it was given.
UnderWay(r) ==
    ~At(r, "idle") => /\ job[r].left # <<>>
                      /\ job[r].given \in Wanted[r]
                      /\ Items(job[r].left) \subseteq Items(job[r].given)

\* It has a port from before it creates the container, and while it asks, a
\* probe left to ask; and removes an image only if it was pulled.
Set(r) ==
    /\ job[r].pc = "create" => job[r].port \in Port
    /\ job[r].pc \in {"create", "start", "ready", "setup"} => job[r].asked = 0
    /\ job[r].pc = "probe" => job[r].asked < Probes
    /\ job[r].pc = "image" => job[r].pulled

\* While the image may yet be removed for having been pulled, it is not one
\* that was there before, or a look for it failed.
PulledIsOurs(r) ==
    job[r].pc \in (Busy \ {"look"}) \union {"clean", "image"} /\ job[r].pulled => Now(r) \notin Theirs \ misread

Having == {"start", "ready", "setup", "probe", "clean"}

\* A container that is its run's has the port of that run's invocation, which
\* is past creating it and not past taking it away.
MadeByIts(n) ==
    container[n].care = "run" => \E r \in Runner :
        /\ container[n].by = r
        /\ job[r].pc \in Having
        /\ Now(r) = n
        /\ container[n].port = job[r].port

\* Docker binds a port once.
BoundOnce ==
    \A n, m \in Service : container[n].up /\ container[m].up /\ container[n].port = container[m].port => n = m

\* What has been written by then of the services the invocation is past, and
\* of the one it is at.
Behind(r) ==
    ~At(r, "idle") =>
        \/ job[r].failed \/ job[r].broke
        \/ \A s \in Items(job[r].given) \ Items(job[r].left) : Recorded(s)

Current(r) ==
    /\ job[r].pc = "look" /\ job[r].broke => job[r].failed
    /\ job[r].pc = "probe" => \A i \in 1..job[r].asked : fixture[Now(r)][i]
    /\ job[r].pc \in {"clean", "image", "next"} /\ ~job[r].broke => Recorded(Now(r))

AllWritten(r) == At(r, "idle") /\ job[r].exit = 0 => \A s \in Items(job[r].given) : Recorded(s)

\* What is given an invocation that is over is still of its own services.
GivenIts(r) == job[r].given \in Wanted[r] \union {<<>>}

Whole(r) == UnderWay(r) /\ Set(r) /\ PulledIsOurs(r)
Written(r) == GivenIts(r) /\ Behind(r) /\ Current(r) /\ AllWritten(r)

Whose == TypeOK /\ TheirImagesStay /\ BoundOnce /\ (\A r \in Runner : Whole(r)) /\ (\A n \in Service : MadeByIts(n))
RInv == Whose /\ \A r \in Runner : Written(r)
-----------------------------------------------------------------------------
\* The items of a list, of the list without its first, and of a list of one.
LEMMA ItemsOfTail ==
    ASSUME NEW S, NEW list \in Seq(S), list # <<>>
    PROVE  /\ Head(list) \in Items(list) /\ Head(list) \in S
           /\ Items(list) \subseteq S
           /\ Tail(list) \in Seq(S)
           /\ Items(Tail(list)) \subseteq Items(list)
           /\ Items(list) \subseteq Items(Tail(list)) \union {Head(list)}
           /\ Len(list) > 1 => Tail(list) # <<>>
           /\ ~(Len(list) > 1) => Items(list) = {Head(list)}
  <1>1. Len(list) \in Nat /\ Len(list) >= 1 /\ DOMAIN list = 1..Len(list)
    OBVIOUS
  <1>2. Head(list) = list[1] /\ \A i \in 1..Len(list) : list[i] \in S
    BY <1>1
  <1>3. /\ Tail(list) \in Seq(S) /\ Len(Tail(list)) = Len(list) - 1
        /\ \A i \in 1..(Len(list) - 1) : Tail(list)[i] = list[i + 1]
    BY <1>1
  <1>4. DOMAIN Tail(list) = 1..(Len(list) - 1)
    BY <1>1, <1>3
  <1>5. \A i \in 1..Len(list) : i # 1 => i - 1 \in 1..(Len(list) - 1) /\ list[i] = Tail(list)[i - 1]
    BY <1>1, <1>3
  <1>6. Items(Tail(list)) \subseteq Items(list)
    BY <1>1, <1>3, <1>4 DEF Items
  <1>7. Items(list) \subseteq Items(Tail(list)) \union {Head(list)}
    <2> SUFFICES ASSUME NEW i \in 1..Len(list) PROVE list[i] \in Items(Tail(list)) \union {Head(list)}
      BY <1>1 DEF Items
    <2>1. CASE i = 1
      BY <1>2, <2>1
    <2>2. CASE i # 1
      <3>1. i - 1 \in DOMAIN Tail(list) /\ list[i] = Tail(list)[i - 1]
        BY <1>4, <1>5, <2>2
      <3>2. QED
        BY <3>1 DEF Items
    <2>3. QED
      BY <2>1, <2>2
  <1>8. ~(Len(list) > 1) => Items(list) = {Head(list)}
    BY <1>1, <1>2 DEF Items
  <1>9. Len(list) > 1 => Tail(list) # <<>>
    <2>1. Len(<<>>) = 0
      OBVIOUS
    <2>2. Len(list) > 1 => Len(Tail(list)) # 0
      BY <1>1, <1>3
    <2>3. QED
      BY <2>1, <2>2
  <1>10. Head(list) \in Items(list) /\ Head(list) \in S
    <2>1. 1 \in 1..Len(list)
      BY <1>1
    <2>2. QED
      BY <1>1, <1>2, <2>1 DEF Items
  <1>11. Items(list) \subseteq S
    BY <1>1, <1>2 DEF Items
  <1>12. QED
    BY <1>3, <1>6, <1>7, <1>8, <1>9, <1>10, <1>11

LEMMA ItemsOfOne == \A s : Items(<<s>>) = {s} /\ Head(<<s>>) = s /\ <<s>> # <<>>
  BY DEF Items

LEMMA ItemsInService == \A list \in Seq(Service) : Items(list) \subseteq Service
  BY DEF Items

LEMMA ItemsOfNone == Items(<<>>) = {}
  BY DEF Items

\* What an invocation holds has its type.
Job == [pc: Busy \union {"idle", "clean", "image", "next"},
        given: Seq(Service), left: Seq(Service), port: Port \union {"none"},
        pulled: BOOLEAN, asked: 0..Probes, broke: BOOLEAN, failed: BOOLEAN,
        hold: BOOLEAN, exit: {Running, 0, 1, Killed}]

\* One field set, and the rest as it was: a step that sets several sets one
\* after the other.
WithPc(j, v) == [j EXCEPT !.pc = v]
WithGiven(j, v) == [j EXCEPT !.given = v]
WithLeft(j, v) == [j EXCEPT !.left = v]
WithPort(j, v) == [j EXCEPT !.port = v]
WithPulled(j, v) == [j EXCEPT !.pulled = v]
WithAsked(j, v) == [j EXCEPT !.asked = v]
WithBroke(j, v) == [j EXCEPT !.broke = v]
WithFailed(j, v) == [j EXCEPT !.failed = v]
WithExit(j, v) == [j EXCEPT !.exit = v]
WithHold(j, v) == [j EXCEPT !.hold = v]

LEMMA PcSet ==
    \A j \in Job : \A v \in Busy \union {"idle", "clean", "image", "next"} :
        /\ WithPc(j, v) \in Job /\ WithPc(j, v).pc = v
        /\ WithPc(j, v).given = j.given /\ WithPc(j, v).left = j.left /\ WithPc(j, v).port = j.port
        /\ WithPc(j, v).pulled = j.pulled /\ WithPc(j, v).asked = j.asked
        /\ WithPc(j, v).broke = j.broke /\ WithPc(j, v).failed = j.failed /\ WithPc(j, v).exit = j.exit
  BY DEF Job, WithPc

LEMMA GivenSet ==
    \A j \in Job : \A v \in Seq(Service) :
        /\ WithGiven(j, v) \in Job /\ WithGiven(j, v).given = v
        /\ WithGiven(j, v).pc = j.pc /\ WithGiven(j, v).left = j.left /\ WithGiven(j, v).port = j.port
        /\ WithGiven(j, v).pulled = j.pulled /\ WithGiven(j, v).asked = j.asked
        /\ WithGiven(j, v).broke = j.broke /\ WithGiven(j, v).failed = j.failed
        /\ WithGiven(j, v).exit = j.exit
  BY DEF Job, WithGiven

LEMMA LeftSet ==
    \A j \in Job : \A v \in Seq(Service) :
        /\ WithLeft(j, v) \in Job /\ WithLeft(j, v).left = v
        /\ WithLeft(j, v).pc = j.pc /\ WithLeft(j, v).given = j.given /\ WithLeft(j, v).port = j.port
        /\ WithLeft(j, v).pulled = j.pulled /\ WithLeft(j, v).asked = j.asked
        /\ WithLeft(j, v).broke = j.broke /\ WithLeft(j, v).failed = j.failed
        /\ WithLeft(j, v).exit = j.exit
  BY DEF Job, WithLeft

LEMMA PortSet ==
    \A j \in Job : \A v \in Port :
        /\ WithPort(j, v) \in Job /\ WithPort(j, v).port = v
        /\ WithPort(j, v).pc = j.pc /\ WithPort(j, v).given = j.given /\ WithPort(j, v).left = j.left
        /\ WithPort(j, v).pulled = j.pulled /\ WithPort(j, v).asked = j.asked
        /\ WithPort(j, v).broke = j.broke /\ WithPort(j, v).failed = j.failed
        /\ WithPort(j, v).exit = j.exit
  BY DEF Job, WithPort

LEMMA PulledSet ==
    \A j \in Job : \A v \in BOOLEAN :
        /\ WithPulled(j, v) \in Job /\ WithPulled(j, v).pulled = v
        /\ WithPulled(j, v).pc = j.pc /\ WithPulled(j, v).given = j.given
        /\ WithPulled(j, v).left = j.left /\ WithPulled(j, v).port = j.port
        /\ WithPulled(j, v).asked = j.asked /\ WithPulled(j, v).broke = j.broke
        /\ WithPulled(j, v).failed = j.failed /\ WithPulled(j, v).exit = j.exit
  BY DEF Job, WithPulled

LEMMA AskedSet ==
    \A j \in Job : \A v \in 0..Probes :
        /\ WithAsked(j, v) \in Job /\ WithAsked(j, v).asked = v
        /\ WithAsked(j, v).pc = j.pc /\ WithAsked(j, v).given = j.given
        /\ WithAsked(j, v).left = j.left /\ WithAsked(j, v).port = j.port
        /\ WithAsked(j, v).pulled = j.pulled /\ WithAsked(j, v).broke = j.broke
        /\ WithAsked(j, v).failed = j.failed /\ WithAsked(j, v).exit = j.exit
  BY DEF Job, WithAsked

LEMMA BrokeSet ==
    \A j \in Job : \A v \in BOOLEAN :
        /\ WithBroke(j, v) \in Job /\ WithBroke(j, v).broke = v
        /\ WithBroke(j, v).pc = j.pc /\ WithBroke(j, v).given = j.given
        /\ WithBroke(j, v).left = j.left /\ WithBroke(j, v).port = j.port
        /\ WithBroke(j, v).pulled = j.pulled /\ WithBroke(j, v).asked = j.asked
        /\ WithBroke(j, v).failed = j.failed /\ WithBroke(j, v).exit = j.exit
  BY DEF Job, WithBroke

LEMMA FailedSet ==
    \A j \in Job : \A v \in BOOLEAN :
        /\ WithFailed(j, v) \in Job /\ WithFailed(j, v).failed = v
        /\ WithFailed(j, v).pc = j.pc /\ WithFailed(j, v).given = j.given
        /\ WithFailed(j, v).left = j.left /\ WithFailed(j, v).port = j.port
        /\ WithFailed(j, v).pulled = j.pulled /\ WithFailed(j, v).asked = j.asked
        /\ WithFailed(j, v).broke = j.broke /\ WithFailed(j, v).exit = j.exit
  BY DEF Job, WithFailed

LEMMA ExitSet ==
    \A j \in Job : \A v \in {Running, 0, 1, Killed} :
        /\ WithExit(j, v) \in Job /\ WithExit(j, v).exit = v
        /\ WithExit(j, v).pc = j.pc /\ WithExit(j, v).given = j.given /\ WithExit(j, v).left = j.left
        /\ WithExit(j, v).port = j.port /\ WithExit(j, v).pulled = j.pulled
        /\ WithExit(j, v).asked = j.asked /\ WithExit(j, v).broke = j.broke
        /\ WithExit(j, v).failed = j.failed
  BY DEF Job, WithExit

LEMMA HoldSet ==
    \A j \in Job : \A v \in BOOLEAN :
        /\ WithHold(j, v) \in Job /\ WithHold(j, v).hold = v
        /\ WithHold(j, v).pc = j.pc /\ WithHold(j, v).given = j.given /\ WithHold(j, v).left = j.left
        /\ WithHold(j, v).port = j.port /\ WithHold(j, v).pulled = j.pulled
        /\ WithHold(j, v).asked = j.asked /\ WithHold(j, v).broke = j.broke
        /\ WithHold(j, v).failed = j.failed /\ WithHold(j, v).exit = j.exit
  BY DEF Job, WithHold

\* The steps as they change what one invocation holds.
Others(r) == \A q \in Runner \ {r} : job'[q] = job[q]

LEMMA AtRestIsJob ==
    /\ AtRest \in Job
    /\ AtRest.pc = "idle" /\ AtRest.given = <<>> /\ AtRest.left = <<>> /\ ~AtRest.pulled /\ AtRest.asked = 0
    /\ ~AtRest.broke /\ ~AtRest.failed /\ AtRest.exit = Running
  <1>1. <<>> \in Seq(Service)
    OBVIOUS
  <1>2. 0 \in 0..Probes
    BY RecorderAssumption
  <1>3. QED
    BY <1>1, <1>2 DEF AtRest, Job, Running

LEMMA LookDone ==
    ASSUME TypeOK, NEW r \in Runner, Look(r)
    PROVE  /\ Others(r) /\ job' \in [Runner -> Job]
           /\ job[r].pc = "look" /\ job'[r].pc = "create"
           /\ job'[r].given = job[r].given /\ job'[r].left = job[r].left
           /\ job'[r].port \in Port /\ job'[r].asked = 0 /\ ~job'[r].broke
           /\ job'[r].pulled => image[Now(r)] = "absent" \/ Now(r) \in misread'
           /\ job'[r].failed = job[r].failed /\ job'[r].exit = job[r].exit
  <1>0. PICK p \in Free : \E read \in BOOLEAN :
            /\ job' = [job EXCEPT ![r].pc = "create", ![r].port = p, ![r].pulled = Pulled(Now(r), read),
                                  ![r].asked = 0, ![r].broke = FALSE]
            /\ misread' = IF ~read /\ image[Now(r)] # "absent" THEN misread \union {Now(r)} ELSE misread
    BY DEF Look
  <1>1. PICK read \in BOOLEAN :
            /\ job' = [job EXCEPT ![r].pc = "create", ![r].port = p, ![r].pulled = Pulled(Now(r), read),
                                  ![r].asked = 0, ![r].broke = FALSE]
            /\ misread' = IF ~read /\ image[Now(r)] # "absent" THEN misread \union {Now(r)} ELSE misread
    BY <1>0
  <1> DEFINE pulled == Pulled(Now(r), read)
  <1>2. pulled \in BOOLEAN /\ p \in Port /\ 0 \in 0..Probes
    BY RecorderAssumption DEF Pulled, Free
  <1>12. pulled => image[Now(r)] = "absent" \/ Now(r) \in misread'
    BY <1>1 DEF Pulled
  <1> DEFINE a == WithPc(job[r], "create")
             b == WithPort(a, p)
             c == WithPulled(b, pulled)
             d == WithAsked(c, 0)
             e == WithBroke(d, FALSE)
  <1>3. job' = [job EXCEPT ![r] = e]
    BY <1>1 DEF TypeOK, WithPc, WithPort, WithPulled, WithAsked, WithBroke
  <1>4. job[r] \in Job
    BY DEF TypeOK, Job
  <1>5. /\ a \in Job /\ a.pc = "create" /\ a.given = job[r].given /\ a.left = job[r].left
        /\ a.failed = job[r].failed /\ a.exit = job[r].exit
    BY <1>4, PcSet DEF Busy
  <1> HIDE DEF a, pulled
  <1>6. /\ b \in Job /\ b.pc = a.pc /\ b.given = a.given /\ b.left = a.left
        /\ b.failed = a.failed /\ b.exit = a.exit /\ b.port \in Port
    BY <1>2, <1>5, PortSet
  <1> HIDE DEF b
  <1>7. /\ c \in Job /\ c.pc = b.pc /\ c.given = b.given /\ c.left = b.left
        /\ c.failed = b.failed /\ c.exit = b.exit /\ c.port = b.port /\ c.pulled = pulled
    BY <1>2, <1>6, PulledSet
  <1> HIDE DEF c
  <1>8. /\ d \in Job /\ d.pc = c.pc /\ d.given = c.given /\ d.left = c.left
        /\ d.failed = c.failed /\ d.exit = c.exit /\ d.port = c.port /\ d.pulled = c.pulled /\ d.asked = 0
    BY <1>2, <1>7, AskedSet
  <1> HIDE DEF d
  <1>9. /\ e \in Job /\ e.pc = d.pc /\ e.given = d.given /\ e.left = d.left
        /\ e.failed = d.failed /\ e.exit = d.exit /\ e.port = d.port /\ e.pulled = d.pulled /\ e.asked = 0 /\ ~e.broke
    <2>1. FALSE \in BOOLEAN
      OBVIOUS
    <2>2. /\ e \in Job /\ e.pc = d.pc /\ e.given = d.given /\ e.left = d.left
          /\ e.failed = d.failed /\ e.exit = d.exit /\ e.port = d.port /\ e.pulled = d.pulled /\ e.asked = d.asked
          /\ e.broke = FALSE
      BY <1>8, <2>1, BrokeSet, Zenon
    <2>3. QED
      BY <1>8, <2>2
  <1> HIDE DEF e
  <1>10. job' \in [Runner -> Job] /\ job'[r] = e /\ Others(r)
    BY <1>3, <1>9 DEF TypeOK, Job, Others
  <1>11. job[r].pc = "look"
    BY DEF Look, At
  <1>13. QED
    BY <1>5, <1>6, <1>7, <1>8, <1>9, <1>10, <1>11, <1>12

LEMMA GoDone ==
    ASSUME TypeOK, NEW r \in Runner, NEW pc \in Busy \union {"idle", "clean", "image", "next"}, Go(r, pc)
    PROVE  /\ Others(r) /\ job' \in [Runner -> Job]
           /\ job'[r].pc = pc /\ job'[r].given = job[r].given /\ job'[r].left = job[r].left
           /\ job'[r].port = job[r].port /\ job'[r].pulled = job[r].pulled /\ job'[r].asked = job[r].asked
           /\ job'[r].broke = job[r].broke /\ job'[r].failed = job[r].failed /\ job'[r].exit = job[r].exit
  <1>1. job' = [job EXCEPT ![r].pc = pc]
    BY DEF Go
  <1>2. pc \in Busy \union {"idle", "clean", "image", "next"}
    OBVIOUS
  <1> DEFINE a == WithPc(job[r], pc)
  <1>3. job' = [job EXCEPT ![r] = a]
    BY <1>1 DEF TypeOK, WithPc
  <1>4. job[r] \in Job
    BY DEF TypeOK, Job
  <1>5. /\ a \in Job /\ a.given = job[r].given /\ a.left = job[r].left /\ a.port = job[r].port
       /\ a.pulled = job[r].pulled /\ a.asked = job[r].asked /\ a.broke = job[r].broke
       /\ a.failed = job[r].failed /\ a.exit = job[r].exit /\ a.pc = pc
    BY <1>2, <1>4, PcSet DEF Busy
  <1> HIDE DEF a
  <1>6. job' \in [Runner -> Job] /\ job'[r] = a /\ Others(r)
    BY <1>3, <1>5 DEF TypeOK, Job, Others
  <1>7. QED
    BY <1>5, <1>6

LEMMA BreakDone ==
    ASSUME TypeOK, NEW r \in Runner, Break(r)
    PROVE  /\ Others(r) /\ job' \in [Runner -> Job]
           /\ job'[r].pc = "clean" /\ job'[r].given = job[r].given /\ job'[r].left = job[r].left
           /\ job'[r].port = job[r].port /\ job'[r].pulled = job[r].pulled /\ job'[r].asked = job[r].asked
           /\ job'[r].broke /\ job'[r].failed = job[r].failed /\ job'[r].exit = job[r].exit
  <1>1. job' = [job EXCEPT ![r].pc = "clean", ![r].broke = TRUE]
    BY DEF Break
  <1>2. TRUE \in BOOLEAN
    OBVIOUS
  <1> DEFINE a == WithPc(job[r], "clean")
             b == WithBroke(a, TRUE)
  <1>3. job' = [job EXCEPT ![r] = b]
    BY <1>1 DEF TypeOK, WithBroke, WithPc
  <1>4. job[r] \in Job
    BY DEF TypeOK, Job
  <1>5. /\ a \in Job /\ a.given = job[r].given /\ a.left = job[r].left /\ a.port = job[r].port
       /\ a.pulled = job[r].pulled /\ a.asked = job[r].asked /\ a.broke = job[r].broke
       /\ a.failed = job[r].failed /\ a.exit = job[r].exit /\ a.pc = "clean"
    BY <1>2, <1>4, PcSet DEF Busy
  <1> HIDE DEF a
  <1>6. /\ b \in Job /\ b.pc = a.pc /\ b.given = a.given /\ b.left = a.left /\ b.port = a.port
       /\ b.pulled = a.pulled /\ b.asked = a.asked /\ b.failed = a.failed /\ b.exit = a.exit
       /\ b.broke = TRUE
    BY <1>2, <1>5, BrokeSet, Zenon
  <1> HIDE DEF b
  <1>7. job' \in [Runner -> Job] /\ job'[r] = b /\ Others(r)
    BY <1>3, <1>6 DEF TypeOK, Job, Others
  <1>8. QED
    BY <1>5, <1>6, <1>7

LEMMA UnknownDone ==
    ASSUME TypeOK, NEW r \in Runner, Unknown(r)
    PROVE  /\ Others(r) /\ job' \in [Runner -> Job]
           /\ job'[r].pc = "next" /\ job'[r].given = job[r].given /\ job'[r].left = job[r].left
           /\ job'[r].port = job[r].port /\ job'[r].pulled = job[r].pulled /\ job'[r].asked = job[r].asked
           /\ job'[r].broke /\ job'[r].failed = job[r].failed /\ job'[r].exit = job[r].exit
  <1>1. job' = [job EXCEPT ![r].pc = "next", ![r].broke = TRUE]
    BY DEF Unknown
  <1>2. TRUE \in BOOLEAN
    OBVIOUS
  <1> DEFINE a == WithPc(job[r], "next")
             b == WithBroke(a, TRUE)
  <1>3. job' = [job EXCEPT ![r] = b]
    BY <1>1 DEF TypeOK, WithBroke, WithPc
  <1>4. job[r] \in Job
    BY DEF TypeOK, Job
  <1>5. /\ a \in Job /\ a.given = job[r].given /\ a.left = job[r].left /\ a.port = job[r].port
       /\ a.pulled = job[r].pulled /\ a.asked = job[r].asked /\ a.broke = job[r].broke
       /\ a.failed = job[r].failed /\ a.exit = job[r].exit /\ a.pc = "next"
    BY <1>2, <1>4, PcSet DEF Busy
  <1> HIDE DEF a
  <1>6. /\ b \in Job /\ b.pc = a.pc /\ b.given = a.given /\ b.left = a.left /\ b.port = a.port
       /\ b.pulled = a.pulled /\ b.asked = a.asked /\ b.failed = a.failed /\ b.exit = a.exit
       /\ b.broke = TRUE
    BY <1>2, <1>5, BrokeSet, Zenon
  <1> HIDE DEF b
  <1>7. job' \in [Runner -> Job] /\ job'[r] = b /\ Others(r)
    BY <1>3, <1>6 DEF TypeOK, Job, Others
  <1>8. QED
    BY <1>5, <1>6, <1>7

LEMMA CutDone ==
    ASSUME TypeOK, NEW r \in Runner, NEW pc \in {"clean", "next"}, Cut(r, pc), job[r].left # <<>>
    PROVE  /\ Others(r) /\ job' \in [Runner -> Job]
           /\ job'[r].pc = pc /\ job'[r].given = job[r].given /\ job'[r].left = <<Now(r)>>
           /\ job'[r].port = job[r].port /\ job'[r].pulled = job[r].pulled /\ job'[r].asked = job[r].asked
           /\ job'[r].broke /\ job'[r].failed = job[r].failed /\ job'[r].exit = job[r].exit
  <1>1. job' = [job EXCEPT ![r].pc = pc, ![r].broke = TRUE, ![r].left = <<Now(r)>>]
    BY DEF Cut
  <1>2. TRUE \in BOOLEAN /\ <<Now(r)>> \in Seq(Service) /\ pc \in Busy \union {"idle", "clean", "image", "next"}
    BY ItemsOfTail DEF TypeOK, Now
  <1> DEFINE a == WithPc(job[r], pc)
             b == WithBroke(a, TRUE)
             c == WithLeft(b, <<Now(r)>>)
  <1>3. job' = [job EXCEPT ![r] = c]
    BY <1>1 DEF TypeOK, WithBroke, WithLeft, WithPc
  <1>4. job[r] \in Job
    BY DEF TypeOK, Job
  <1>5. /\ a \in Job /\ a.given = job[r].given /\ a.left = job[r].left /\ a.port = job[r].port
       /\ a.pulled = job[r].pulled /\ a.asked = job[r].asked /\ a.broke = job[r].broke
       /\ a.failed = job[r].failed /\ a.exit = job[r].exit /\ a.pc = pc
    BY <1>2, <1>4, PcSet DEF Busy
  <1> HIDE DEF a
  <1>6. /\ b \in Job /\ b.pc = a.pc /\ b.given = a.given /\ b.left = a.left /\ b.port = a.port
       /\ b.pulled = a.pulled /\ b.asked = a.asked /\ b.failed = a.failed /\ b.exit = a.exit
       /\ b.broke = TRUE
    BY <1>2, <1>5, BrokeSet, Zenon
  <1> HIDE DEF b
  <1>7. /\ c \in Job /\ c.pc = b.pc /\ c.given = b.given /\ c.port = b.port /\ c.pulled = b.pulled
       /\ c.asked = b.asked /\ c.broke = b.broke /\ c.failed = b.failed /\ c.exit = b.exit
       /\ c.left = <<Now(r)>>
    BY <1>2, <1>6, LeftSet
  <1> HIDE DEF c
  <1>8. job' \in [Runner -> Job] /\ job'[r] = c /\ Others(r)
    BY <1>3, <1>7 DEF TypeOK, Job, Others
  <1>9. QED
    BY <1>5, <1>6, <1>7, <1>8

LEMMA KillDone ==
    ASSUME TypeOK, NEW r \in Runner, Kill(r)
    PROVE  /\ Others(r) /\ job' \in [Runner -> Job]
           /\ job'[r].pc = "idle" /\ job'[r].given = <<>> /\ job'[r].left = <<>> /\ job'[r].port = AtRest.port
           /\ ~job'[r].pulled /\ job'[r].asked = 0 /\ ~job'[r].broke /\ ~job'[r].failed
           /\ job'[r].exit = Killed
  <1>1. job' = [job EXCEPT ![r] = [AtRest EXCEPT !.exit = Killed]]
    BY DEF Kill
  <1>2. Killed \in {Running, 0, 1, Killed}
    OBVIOUS
  <1> DEFINE a == WithExit(AtRest, Killed)
  <1>3. job' = [job EXCEPT ![r] = a]
    BY <1>1 DEF TypeOK, WithExit
  <1>4. AtRest \in Job
    BY AtRestIsJob
  <1>5. /\ a \in Job /\ a.pc = AtRest.pc /\ a.given = AtRest.given /\ a.left = AtRest.left
       /\ a.port = AtRest.port /\ a.pulled = AtRest.pulled /\ a.asked = AtRest.asked
       /\ a.broke = AtRest.broke /\ a.failed = AtRest.failed /\ a.exit = Killed
    BY <1>2, <1>4, ExitSet
  <1> HIDE DEF a
  <1>6. job' \in [Runner -> Job] /\ job'[r] = a /\ Others(r)
    BY <1>3, <1>5 DEF TypeOK, Job, Others
  <1>7. QED
    BY <1>5, <1>6, AtRestIsJob

\* An invocation begun, the next service taken, and the last one left.
BegunWith(r, given, hold) ==
    job' = [job EXCEPT ![r] =
                [AtRest EXCEPT !.pc = "look", !.given = given, !.left = given, !.hold = hold]]

LEMMA BegunDone ==
    ASSUME TypeOK, NEW r \in Runner, NEW given \in Wanted[r], NEW hold \in BOOLEAN,
           BegunWith(r, given, hold)
    PROVE  /\ Others(r) /\ job' \in [Runner -> Job]
           /\ job'[r].pc = "look" /\ job'[r].given = given /\ job'[r].left = given
           /\ job'[r].port = AtRest.port /\ ~job'[r].pulled /\ job'[r].asked = 0 /\ ~job'[r].broke
           /\ ~job'[r].failed /\ job'[r].exit = Running
  <1>1. job' = [job EXCEPT ![r] = [AtRest EXCEPT !.pc = "look", !.given = given, !.left = given, !.hold = hold]]
    BY DEF BegunWith
  <1>2. given \in Seq(Service)
    BY RecorderAssumption
  <1> DEFINE a == WithPc(AtRest, "look")
             b == WithGiven(a, given)
             c == WithLeft(b, given)
             d == WithHold(c, hold)
  <1>3. job' = [job EXCEPT ![r] = d]
    BY <1>1 DEF TypeOK, WithGiven, WithHold, WithLeft, WithPc
  <1>4. AtRest \in Job
    BY AtRestIsJob
  <1>5. /\ a \in Job /\ a.given = AtRest.given /\ a.left = AtRest.left /\ a.port = AtRest.port
       /\ a.pulled = AtRest.pulled /\ a.asked = AtRest.asked /\ a.broke = AtRest.broke
       /\ a.failed = AtRest.failed /\ a.exit = AtRest.exit /\ a.pc = "look"
    BY <1>2, <1>4, PcSet DEF Busy
  <1> HIDE DEF a
  <1>6. /\ b \in Job /\ b.pc = a.pc /\ b.left = a.left /\ b.port = a.port /\ b.pulled = a.pulled
       /\ b.asked = a.asked /\ b.broke = a.broke /\ b.failed = a.failed /\ b.exit = a.exit
       /\ b.given = given
    BY <1>2, <1>5, GivenSet
  <1> HIDE DEF b
  <1>7. /\ c \in Job /\ c.pc = b.pc /\ c.given = b.given /\ c.port = b.port /\ c.pulled = b.pulled
       /\ c.asked = b.asked /\ c.broke = b.broke /\ c.failed = b.failed /\ c.exit = b.exit
       /\ c.left = given
    BY <1>2, <1>6, LeftSet
  <1> HIDE DEF c
  <1>8. /\ d \in Job /\ d.pc = c.pc /\ d.given = c.given /\ d.left = c.left /\ d.port = c.port
       /\ d.pulled = c.pulled /\ d.asked = c.asked /\ d.broke = c.broke /\ d.failed = c.failed
       /\ d.exit = c.exit
    BY <1>2, <1>7, HoldSet
  <1> HIDE DEF d
  <1>9. job' \in [Runner -> Job] /\ job'[r] = d /\ Others(r)
    BY <1>3, <1>8 DEF TypeOK, Job, Others
  <1>10. QED
    BY <1>5, <1>6, <1>7, <1>8, <1>9, AtRestIsJob

OnTo(r) ==
    job' = [job EXCEPT ![r] =
                [job[r] EXCEPT !.pc = "look", !.left = Tail(job[r].left), !.failed = Failing(r)]]

LEMMA OnDone ==
    ASSUME TypeOK, NEW r \in Runner, job[r].left # <<>>,
           OnTo(r)
    PROVE  /\ Others(r) /\ job' \in [Runner -> Job]
           /\ job'[r].pc = "look" /\ job'[r].given = job[r].given /\ job'[r].left = Tail(job[r].left)
           /\ job'[r].port = job[r].port /\ job'[r].pulled = job[r].pulled /\ job'[r].asked = job[r].asked
           /\ job'[r].broke = job[r].broke /\ job'[r].failed = Failing(r) /\ job'[r].exit = job[r].exit
  <1>1. job' = [job EXCEPT ![r] = [job[r] EXCEPT !.pc = "look", !.left = Tail(job[r].left), !.failed = Failing(r)]]
    BY DEF OnTo
  <1>2. Tail(job[r].left) \in Seq(Service) /\ Failing(r) \in BOOLEAN
    BY ItemsOfTail DEF TypeOK, Failing
  <1> DEFINE a == WithPc(job[r], "look")
             b == WithLeft(a, Tail(job[r].left))
             c == WithFailed(b, Failing(r))
  <1>3. job' = [job EXCEPT ![r] = c]
    BY <1>1 DEF TypeOK, WithFailed, WithLeft, WithPc
  <1>4. job[r] \in Job
    BY DEF TypeOK, Job
  <1>5. /\ a \in Job /\ a.given = job[r].given /\ a.left = job[r].left /\ a.port = job[r].port
       /\ a.pulled = job[r].pulled /\ a.asked = job[r].asked /\ a.broke = job[r].broke
       /\ a.failed = job[r].failed /\ a.exit = job[r].exit /\ a.pc = "look"
    BY <1>2, <1>4, PcSet DEF Busy
  <1> HIDE DEF a
  <1>6. /\ b \in Job /\ b.pc = a.pc /\ b.given = a.given /\ b.port = a.port /\ b.pulled = a.pulled
       /\ b.asked = a.asked /\ b.broke = a.broke /\ b.failed = a.failed /\ b.exit = a.exit
       /\ b.left = Tail(job[r].left)
    BY <1>2, <1>5, LeftSet
  <1> HIDE DEF b
  <1>7. /\ c \in Job /\ c.pc = b.pc /\ c.given = b.given /\ c.left = b.left /\ c.port = b.port
       /\ c.pulled = b.pulled /\ c.asked = b.asked /\ c.broke = b.broke /\ c.exit = b.exit
       /\ c.failed = Failing(r)
    BY <1>2, <1>6, FailedSet, Zenon
  <1> HIDE DEF c
  <1>8. job' \in [Runner -> Job] /\ job'[r] = c /\ Others(r)
    BY <1>3, <1>7 DEF TypeOK, Job, Others
  <1>9. QED
    BY <1>5, <1>6, <1>7, <1>8

OutWith(r, code) ==
    job' = [job EXCEPT ![r] = [AtRest EXCEPT !.given = job[r].given, !.exit = code]]

LEMMA OutDone ==
    ASSUME TypeOK, NEW r \in Runner, NEW code \in {0, 1},
           OutWith(r, code)
    PROVE  /\ Others(r) /\ job' \in [Runner -> Job]
           /\ job'[r].pc = "idle" /\ job'[r].given = job[r].given /\ job'[r].left = <<>>
           /\ job'[r].port = AtRest.port /\ ~job'[r].pulled /\ job'[r].asked = 0 /\ ~job'[r].broke
           /\ ~job'[r].failed /\ job'[r].exit = code
  <1>1. job' = [job EXCEPT ![r] = [AtRest EXCEPT !.given = job[r].given, !.exit = code]]
    BY DEF OutWith
  <1>2. job[r].given \in Seq(Service) /\ code \in {Running, 0, 1, Killed}
    BY DEF TypeOK
  <1> DEFINE a == WithGiven(AtRest, job[r].given)
             b == WithExit(a, code)
  <1>3. job' = [job EXCEPT ![r] = b]
    BY <1>1 DEF TypeOK, WithExit, WithGiven
  <1>4. AtRest \in Job
    BY AtRestIsJob
  <1>5. /\ a \in Job /\ a.pc = AtRest.pc /\ a.left = AtRest.left /\ a.port = AtRest.port
       /\ a.pulled = AtRest.pulled /\ a.asked = AtRest.asked /\ a.broke = AtRest.broke
       /\ a.failed = AtRest.failed /\ a.exit = AtRest.exit /\ a.given = job[r].given
    BY <1>2, <1>4, GivenSet
  <1> HIDE DEF a
  <1>6. /\ b \in Job /\ b.pc = a.pc /\ b.given = a.given /\ b.left = a.left /\ b.port = a.port
       /\ b.pulled = a.pulled /\ b.asked = a.asked /\ b.broke = a.broke /\ b.failed = a.failed
       /\ b.exit = code
    BY <1>2, <1>5, ExitSet
  <1> HIDE DEF b
  <1>7. job' \in [Runner -> Job] /\ job'[r] = b /\ Others(r)
    BY <1>3, <1>6 DEF TypeOK, Job, Others
  <1>8. QED
    BY <1>5, <1>6, <1>7, AtRestIsJob

\* One more probe asked, and where to from there.
AskedOne(r, next) == job' = [job EXCEPT ![r].asked = @ + 1, ![r].pc = next]

LEMMA AskedDone ==
    ASSUME TypeOK, NEW r \in Runner, NEW next \in {"clean", "probe"}, job[r].asked < Probes,
           AskedOne(r, next)
    PROVE  /\ Others(r) /\ job' \in [Runner -> Job]
           /\ job'[r].pc = next /\ job'[r].given = job[r].given /\ job'[r].left = job[r].left
           /\ job'[r].port = job[r].port /\ job'[r].pulled = job[r].pulled /\ job'[r].asked = job[r].asked + 1
           /\ job'[r].broke = job[r].broke /\ job'[r].failed = job[r].failed /\ job'[r].exit = job[r].exit
  <1>1. job' = [job EXCEPT ![r].asked = @ + 1, ![r].pc = next]
    BY DEF AskedOne
  <1>2. job[r].asked + 1 \in 0..Probes /\ job[r].asked \in Nat /\ next \in Busy \union {"idle", "clean", "image", "next"}
    BY RecorderAssumption DEF TypeOK, Busy
  <1> DEFINE a == WithAsked(job[r], job[r].asked + 1)
             b == WithPc(a, next)
  <1>3. job' = [job EXCEPT ![r] = b]
    BY <1>1 DEF TypeOK, WithAsked, WithPc
  <1>4. job[r] \in Job
    BY DEF TypeOK, Job
  <1>5. /\ a \in Job /\ a.pc = job[r].pc /\ a.given = job[r].given /\ a.left = job[r].left
       /\ a.port = job[r].port /\ a.pulled = job[r].pulled /\ a.broke = job[r].broke
       /\ a.failed = job[r].failed /\ a.exit = job[r].exit /\ a.asked = job[r].asked + 1
    BY <1>2, <1>4, AskedSet
  <1> HIDE DEF a
  <1>6. /\ b \in Job /\ b.given = a.given /\ b.left = a.left /\ b.port = a.port /\ b.pulled = a.pulled
       /\ b.asked = a.asked /\ b.broke = a.broke /\ b.failed = a.failed /\ b.exit = a.exit /\ b.pc = next
    <2>1. CASE next = "clean"
      BY <1>5, <2>1, PcSet
    <2>2. CASE next = "probe"
      <3>1. "probe" \in Busy
        BY DEF Busy
      <3>2. QED
        BY <1>5, <2>2, <3>1, PcSet
    <2>3. QED
      BY <2>1, <2>2
  <1> HIDE DEF b
  <1>7. job' \in [Runner -> Job] /\ job'[r] = b /\ Others(r)
    BY <1>3, <1>6 DEF TypeOK, Job, Others
  <1>8. job'[r].asked = job[r].asked + 1
    <2>1. job'[r].asked = b.asked /\ b.asked = a.asked /\ a.asked = job[r].asked + 1
      BY <1>5, <1>6, <1>7
    <2>2. QED
      BY <2>1
  <1>9. /\ job'[r].pc = next /\ job'[r].given = job[r].given /\ job'[r].left = job[r].left
        /\ job'[r].port = job[r].port /\ job'[r].pulled = job[r].pulled
        /\ job'[r].broke = job[r].broke /\ job'[r].failed = job[r].failed /\ job'[r].exit = job[r].exit
    BY <1>5, <1>6, <1>7
  <1>10. QED
    BY <1>7, <1>8, <1>9
-----------------------------------------------------------------------------
\* An invocation is cut short with the service it is at.
Cuts(r) == ~At(r, "idle") /\ \E pc \in {"clean", "next"} : Cut(r, pc)

LEMMA InterruptCuts ==
    ASSUME NEW r \in Runner, Interrupt(r)
    PROVE  Cuts(r) /\ UNCHANGED <<fixture, misread>>
  BY DEF Interrupt, Cuts, At, Busy

\* What an invocation does next: each step is one of these on what it holds.
JobStep(r) ==
    \/ Look(r) \/ Unknown(r) \/ Break(r) \/ Cuts(r) \/ Kill(r)
    \/ \E pc \in Busy \union {"idle", "clean", "image", "next"} : Go(r, pc)
    \/ \E next \in {"clean", "probe"} : job[r].asked < Probes /\ AskedOne(r, next)
    \/ \E given \in Wanted[r], hold \in BOOLEAN : BegunWith(r, given, hold)
    \/ At(r, "next") /\ OnTo(r)
    \/ \E code \in {0, 1} : OutWith(r, code)

\* An invocation takes the next service, or is out with its code.
LEMMA AfterEither ==
    ASSUME NEW r \in Runner, After(r)
    PROVE  /\ At(r, "next")
           /\ \/ Len(job[r].left) > 1 /\ OnTo(r)
              \/ ~(Len(job[r].left) > 1) /\ OutWith(r, IF Failing(r) THEN 1 ELSE 0)
  <1> DEFINE on == [job[r] EXCEPT !.pc = "look", !.left = Tail(job[r].left), !.failed = Failing(r)]
             out == [AtRest EXCEPT !.given = job[r].given, !.exit = IF Failing(r) THEN 1 ELSE 0]
  <1>1. At(r, "next") /\ job' = [job EXCEPT ![r] = IF Len(job[r].left) > 1 THEN on ELSE out]
    BY Zenon DEF After
  <1>2. OnTo(r) <=> job' = [job EXCEPT ![r] = on]
    BY Zenon DEF OnTo
  <1>3. OutWith(r, IF Failing(r) THEN 1 ELSE 0) <=> job' = [job EXCEPT ![r] = out]
    BY Zenon DEF OutWith
  <1> HIDE DEF on, out
  <1>4. QED
    BY <1>1, <1>2, <1>3

\* A probe is asked only while there is one left to ask.
LEMMA StepIsJobStep ==
    ASSUME NEW r \in Runner, Step(r) \/ Begin(r) \/ Interrupt(r) \/ Kill(r),
           job[r].pc = "probe" => job[r].asked < Probes
    PROVE  JobStep(r)
  <1>1. CASE Look(r) \/ Unknown(r) \/ Interrupt(r) \/ Kill(r)
    BY <1>1, InterruptCuts DEF JobStep
  <1>2. CASE Create(r)
    BY <1>2 DEF Create, JobStep, Busy
  <1>3. CASE Start(r)
    BY <1>3 DEF Start, JobStep, Busy
  <1>4. CASE Ready(r) \/ Setup(r)
    BY <1>4 DEF Ready, Setup, JobStep, Busy
  <1>5. CASE Probe(r)
    <2>1. CASE Break(r)
      BY <2>1 DEF JobStep
    <2>2. CASE ~Break(r)
      <3> DEFINE next == IF job[r].asked + 1 = Probes THEN "clean" ELSE "probe"
      <3>1. job[r].asked < Probes /\ AskedOne(r, next)
        BY <1>5, <2>2 DEF Probe, At, AskedOne
      <3>2. next \in {"clean", "probe"}
        OBVIOUS
      <3> HIDE DEF next
      <3>3. QED
        BY <3>1, <3>2 DEF JobStep
    <2>3. QED
      BY <2>1, <2>2
  <1>6. CASE Clean(r)
    BY <1>6 DEF Clean, JobStep
  <1>7. CASE Image(r)
    BY <1>7 DEF Image, JobStep
  <1>8. CASE After(r)
    BY <1>8, AfterEither DEF JobStep
  <1>9. CASE Begin(r)
    BY <1>9 DEF Begin, BegunWith, JobStep
  <1>10. QED
    BY <1>1, <1>2, <1>3, <1>4, <1>5, <1>6, <1>7, <1>8, <1>9 DEF Step

LEMMA JobStepTyped ==
    ASSUME TypeOK, NEW r \in Runner, UnderWay(r), JobStep(r)
    PROVE  job' \in [Runner -> Job] /\ Others(r)
  <1>1. ~At(r, "idle") => job[r].left # <<>>
    BY DEF UnderWay
  <1>2. CASE Look(r) \/ Unknown(r) \/ Break(r) \/ Kill(r)
    BY <1>2, LookDone, UnknownDone, BreakDone, KillDone
  <1>3. CASE Cuts(r)
    BY <1>1, <1>3, CutDone DEF Cuts
  <1>4. CASE \E pc \in Busy \union {"idle", "clean", "image", "next"} : Go(r, pc)
    BY <1>4, GoDone
  <1>5. CASE \E next \in {"clean", "probe"} : job[r].asked < Probes /\ AskedOne(r, next)
    BY <1>5, AskedDone
  <1>6. CASE \E given \in Wanted[r], hold \in BOOLEAN : BegunWith(r, given, hold)
    BY <1>6, BegunDone
  <1>7. CASE At(r, "next") /\ OnTo(r)
    BY <1>1, <1>7, OnDone DEF At
  <1>8. CASE \E code \in {0, 1} : OutWith(r, code)
    BY <1>8, OutDone
  <1>9. QED
    BY <1>2, <1>3, <1>4, <1>5, <1>6, <1>7, <1>8 DEF JobStep
-----------------------------------------------------------------------------
\* A container as Docker has it.
Made == [by: Runner, port: Port, up: BOOLEAN, care: {"run", "held", "left", "stuck"}]

WithUp(c, v) == [c EXCEPT !.up = v]
WithCare(c, v) == [c EXCEPT !.care = v]

LEMMA UpIsSet ==
    \A c \in Made : \A v \in BOOLEAN :
        /\ WithUp(c, v) \in Made /\ WithUp(c, v).up = v
        /\ WithUp(c, v).by = c.by /\ WithUp(c, v).port = c.port /\ WithUp(c, v).care = c.care
  BY DEF Made, WithUp

LEMMA CareIsSet ==
    \A c \in Made : \A v \in {"run", "held", "left", "stuck"} :
        /\ WithCare(c, v) \in Made /\ WithCare(c, v).care = v
        /\ WithCare(c, v).by = c.by /\ WithCare(c, v).port = c.port /\ WithCare(c, v).up = c.up
  BY DEF Made, WithCare

LEMMA NoneIsNot ==
    None \notin Made /\ None.care = "none" /\ ~None.up /\ None.by = "nobody"
  BY DEF Made, None

\* The containers but one, as they were.
Elsewhere(n) == \A m \in Service \ {n} : container'[m] = container[m]

LEMMA AtService ==
    ASSUME TypeOK, NEW r \in Runner, UnderWay(r), ~At(r, "idle")
    PROVE  Now(r) \in Service /\ Name(Now(r)) = Now(r) /\ Now(r) \in Items(job[r].given)
  BY ItemsOfTail DEF TypeOK, UnderWay, Now, Name

\* What the steps that touch a container make of it.
LEMMA Creates ==
    ASSUME TypeOK, NEW r \in Runner, UnderWay(r), Set(r), Create(r)
    PROVE  \/ Break(r) /\ UNCHANGED <<container, fixture>> /\ (Pull(r) \/ UNCHANGED image)
           \/ /\ At(r, "create") /\ Go(r, "start") /\ UNCHANGED fixture
              /\ container[Now(r)] = None
              /\ container' \in [Service -> Made \union {None}] /\ Elsewhere(Now(r))
              /\ container'[Now(r)] = [by |-> r, port |-> job[r].port, up |-> FALSE, care |-> "run"]
              /\ Pull(r)
  <1>1. CASE Break(r) /\ UNCHANGED container /\ (Pull(r) \/ UNCHANGED image)
    BY <1>1 DEF Create
  <1>2. CASE ~(Break(r) /\ UNCHANGED container /\ (Pull(r) \/ UNCHANGED image))
    <2> DEFINE n == Now(r)
               c == [by |-> r, port |-> job[r].port, up |-> FALSE, care |-> "run"]
    <2>1. n \in Service /\ Name(n) = n /\ job[r].port \in Port
      BY AtService DEF Create, At, Set
    <2>2. /\ At(r, "create") /\ Go(r, "start") /\ UNCHANGED fixture
          /\ container[n] = None
          /\ container' = [container EXCEPT ![n] = c]
          /\ Pull(r)
      BY <1>2, <2>1 DEF Create
    <2>3. c \in Made
      BY <2>1 DEF Made
    <2> HIDE DEF c, n
    <2>4. container' \in [Service -> Made \union {None}] /\ container'[n] = c /\ Elsewhere(n)
      BY <2>1, <2>2, <2>3 DEF TypeOK, Made, Elsewhere
    <2>5. QED
      BY <2>2, <2>4 DEF c, n
  <1>3. QED
    BY <1>1, <1>2

LEMMA Starts ==
    ASSUME TypeOK, NEW r \in Runner, UnderWay(r), Start(r)
    PROVE  \/ Break(r) /\ UNCHANGED <<container, image, fixture>>
           \/ /\ At(r, "start") /\ Go(r, "ready") /\ UNCHANGED <<image, fixture>>
              /\ container[Now(r)] \in Made
              /\ container[Now(r)].up \/ container[Now(r)].port \notin Taken
              /\ container' \in [Service -> Made \union {None}] /\ Elsewhere(Now(r))
              /\ container'[Now(r)] = WithUp(container[Now(r)], TRUE)
  <1>1. CASE Break(r) /\ UNCHANGED container
    BY <1>1 DEF Start
  <1>2. CASE ~(Break(r) /\ UNCHANGED container)
    <2> DEFINE n == Now(r)
               c == WithUp(container[n], TRUE)
    <2>1. n \in Service /\ Name(n) = n
      BY AtService DEF Start, At
    <2>2. /\ At(r, "start") /\ Go(r, "ready") /\ UNCHANGED <<image, fixture>>
          /\ container[n] # None
          /\ container[n].up \/ container[n].port \notin Taken
          /\ container' = [container EXCEPT ![n].up = TRUE]
      BY <1>2, <2>1 DEF Start
    <2>3. container[n] \in Made
      BY <2>1, <2>2 DEF TypeOK, Made
    <2>4. container' = [container EXCEPT ![n] = c]
      BY <2>1, <2>2 DEF TypeOK, WithUp
    <2>5. TRUE \in BOOLEAN
      OBVIOUS
    <2>6. c \in Made
      BY <2>3, <2>5, UpIsSet
    <2> HIDE DEF c, n
    <2>7. container' \in [Service -> Made \union {None}] /\ container'[n] = c /\ Elsewhere(n)
      BY <2>1, <2>4, <2>6 DEF TypeOK, Made, Elsewhere
    <2>8. QED
      BY <2>2, <2>3, <2>7 DEF c, n
  <1>3. QED
    BY <1>1, <1>2

LEMMA Cleans ==
    ASSUME TypeOK, NEW r \in Runner, UnderWay(r), ~At(r, "idle"), TakenDown(r)
    PROVE  /\ container' \in [Service -> Made \union {None}] /\ Elsewhere(Now(r))
           /\ \/ container'[Now(r)] = None
              \/ /\ container[Now(r)] \in Made
                 /\ \E care \in {"left", "held", "stuck"} :
                        container'[Now(r)] = WithCare(container[Now(r)], care)
              \/ /\ ~(container[Now(r)].by = r /\ container[Now(r)].care = "run")
                 /\ container'[Now(r)] = container[Now(r)]
  <1> DEFINE n == Now(r)
  <1>1. n \in Service /\ Name(n) = n
    BY AtService
  <1>2. CASE Freed(n)
    <2>1. container' = [container EXCEPT ![n] = None]
      BY <1>2 DEF Freed
    <2>2. container' \in [Service -> Made \union {None}] /\ container'[n] = None /\ Elsewhere(n)
      BY <1>1, <2>1 DEF TypeOK, Made, Elsewhere
    <2>3. QED
      BY <1>1, <2>2
  <1>3. ASSUME NEW care \in {"left", "held", "stuck"}, Marked(r, n, care),
               container[n].by = r, container[n].care = "run"
        PROVE  /\ container' \in [Service -> Made \union {None}] /\ Elsewhere(n)
               /\ container[n] \in Made /\ container'[n] = WithCare(container[n], care)
    <2> DEFINE c == WithCare(container[n], care)
    <2>1. container' = [container EXCEPT ![n].care = care]
      BY <1>3 DEF Marked
    <2>2. container[n] \in Made
      BY <1>1, <1>3, NoneIsNot DEF TypeOK, Made
    <2>3. container' = [container EXCEPT ![n] = c]
      BY <1>1, <2>1 DEF TypeOK, WithCare
    <2>4. c \in Made
      BY <2>2, CareIsSet
    <2> HIDE DEF c
    <2>5. container' \in [Service -> Made \union {None}] /\ container'[n] = c /\ Elsewhere(n)
      BY <1>1, <2>3, <2>4 DEF TypeOK, Made, Elsewhere
    <2>6. QED
      BY <2>2, <2>5 DEF c
  <1>4. ASSUME NEW care \in {"left", "held", "stuck"}, Marked(r, n, care),
               ~(container[n].by = r /\ container[n].care = "run")
        PROVE  /\ container' \in [Service -> Made \union {None}] /\ Elsewhere(n)
               /\ container'[n] = container[n]
    BY <1>1, <1>4 DEF Marked, TypeOK, Made, Elsewhere
  <1>5. Freed(n) \/ \E care \in {"left", "held", "stuck"} : Marked(r, n, care)
    BY <1>1 DEF TakenDown, Kept
  <1>6. QED
    BY <1>2, <1>3, <1>4, <1>5

LEMMA Kills ==
    ASSUME TypeOK, NEW r \in Runner, Kill(r)
    PROVE  /\ container' \in [Service -> Made \union {None}]
           /\ \A n \in Service :
                  IF container[n].by = r /\ container[n].care = "run"
                  THEN container[n] \in Made /\ container'[n] = WithCare(container[n], "left")
                  ELSE container'[n] = container[n]
           /\ UNCHANGED image
  <1>1. /\ container' = [n \in Service |-> IF container[n].by = r /\ container[n].care = "run"
                           THEN WithCare(container[n], "left") ELSE container[n]]
        /\ UNCHANGED image
    BY DEF Kill, WithCare
  <1>2. \A n \in Service : container[n].care = "run" => container[n] \in Made
    BY NoneIsNot DEF TypeOK, Made
  <1>3. \A n \in Service : container[n].care = "run" => WithCare(container[n], "left") \in Made
    BY <1>2, CareIsSet
  <1>4. \A n \in Service : container[n] \in Made \union {None}
    BY DEF TypeOK, Made
  <1>5. QED
    BY <1>1, <1>2, <1>3, <1>4

\* A container stops, or is removed by hand.
LEMMA TheWorld ==
    ASSUME TypeOK, NEW n \in Service, Stops(n) \/ RemovedByHand(n)
    PROVE  /\ UNCHANGED <<job, image, fixture, misread>>
           /\ container' \in [Service -> Made \union {None}] /\ Elsewhere(n)
           /\ \/ container'[n] = None
              \/ container[n] \in Made /\ container'[n] = WithUp(container[n], FALSE)
  <1>1. CASE RemovedByHand(n)
    <2>1. container' = [container EXCEPT ![n] = None] /\ UNCHANGED <<job, image, fixture, misread>>
      BY <1>1 DEF RemovedByHand
    <2>2. QED
      BY <2>1 DEF TypeOK, Made, Elsewhere
  <1>2. CASE Stops(n)
    <2> DEFINE c == WithUp(container[n], FALSE)
    <2>1. container[n] \in Made /\ UNCHANGED <<job, image, fixture, misread>>
      BY <1>2, NoneIsNot DEF TypeOK, Made, Stops
    <2>2. container' = [container EXCEPT ![n] = c]
      BY <1>2 DEF Stops, TypeOK, WithUp
    <2>3. FALSE \in BOOLEAN
      OBVIOUS
    <2>4. c \in Made
      BY <2>1, <2>3, UpIsSet
    <2> HIDE DEF c
    <2>5. container' \in [Service -> Made \union {None}] /\ container'[n] = c /\ Elsewhere(n)
      BY <2>2, <2>4 DEF TypeOK, Made, Elsewhere
    <2>6. QED
      BY <2>1, <2>5 DEF c
  <1>3. QED
    BY <1>1, <1>2

\* A fixture is written at a probe the service has, or half written.
WriteAt(n, i, v) == fixture' = [fixture EXCEPT ![n][i] = v]

LEMMA Writes ==
    ASSUME TypeOK, NEW n \in Service, NEW i \in 1..Probes, NEW v \in BOOLEAN,
           WriteAt(n, i, v)
    PROVE  /\ fixture' \in [Service -> [1..Probes -> BOOLEAN]]
           /\ \A m \in Service \ {n} : fixture'[m] = fixture[m]
           /\ fixture'[n][i] = v /\ \A k \in (1..Probes) \ {i} : fixture'[n][k] = fixture[n][k]
  BY DEF TypeOK, WriteAt

\* A step asks one probe, spoils one, clears those of a run that begins, or
\* leaves the fixtures alone.
LEMMA Probed ==
    ASSUME TypeOK, NEW r \in Runner, UnderWay(r), Set(r), Probe(r)
    PROVE  \/ Break(r) /\ UNCHANGED <<container, image, fixture>>
           \/ /\ At(r, "probe") /\ UNCHANGED <<container, image>>
              /\ Now(r) \in Service /\ job[r].asked + 1 \in 1..Probes
              /\ WriteAt(Now(r), job[r].asked + 1, TRUE)
              /\ job[r].asked < Probes
              /\ AskedOne(r, IF job[r].asked + 1 = Probes THEN "clean" ELSE "probe")
  <1>1. At(r, "probe") /\ UNCHANGED <<container, image>>
    BY DEF Probe
  <1>2. Now(r) \in Service
    BY <1>1, AtService DEF At
  <1>3. job[r].asked < Probes /\ job[r].asked + 1 \in 1..Probes
    BY <1>1, RecorderAssumption DEF At, Set, TypeOK
  <1>4. QED
    BY <1>1, <1>2, <1>3 DEF Probe, WriteAt, AskedOne

LEMMA Begins ==
    ASSUME TypeOK, NEW r \in Runner, Begin(r)
    PROVE  /\ At(r, "idle") /\ UNCHANGED <<container, image>>
           /\ fixture' \in [Service -> [1..Probes -> BOOLEAN]]
           /\ \E given \in Wanted[r], hold \in BOOLEAN :
                 /\ BegunWith(r, given, hold)
                 /\ \A s \in Service \ Items(given) : fixture'[s] = fixture[s]
  <1> DEFINE clear == [i \in 1..Probes |-> FALSE]
  <1>1. clear \in [1..Probes -> BOOLEAN]
    <2>1. FALSE \in BOOLEAN
      OBVIOUS
    <2>2. QED
      BY <2>1, Zenon
  <1>2. PICK given \in Wanted[r], hold \in BOOLEAN :
            /\ BegunWith(r, given, hold)
            /\ fixture' = [s \in Service |-> IF s \in Items(given) THEN clear ELSE fixture[s]]
    BY DEF Begin, BegunWith
  <1> HIDE DEF clear
  <1>3. At(r, "idle") /\ UNCHANGED <<container, image>>
    BY DEF Begin
  <1>4. QED
    BY <1>1, <1>2, <1>3 DEF TypeOK

LEMMA FixturesTyped ==
    ASSUME TypeOK, NEW r \in Runner, UnderWay(r), Set(r), Step(r) \/ Begin(r) \/ Interrupt(r) \/ Kill(r)
    PROVE  fixture' \in [Service -> [1..Probes -> BOOLEAN]]
  <1>1. ASSUME UNCHANGED fixture PROVE fixture' \in [Service -> [1..Probes -> BOOLEAN]]
    BY <1>1 DEF TypeOK
  <1>2. TRUE \in BOOLEAN /\ FALSE \in BOOLEAN
    OBVIOUS
  <1>3. CASE Probe(r)
    <2>1. CASE UNCHANGED fixture
      BY <1>1, <2>1
    <2>2. CASE WriteAt(Now(r), job[r].asked + 1, TRUE) /\ Now(r) \in Service /\ job[r].asked + 1 \in 1..Probes
      BY <1>2, <2>2, Writes
    <2>3. QED
      BY <1>3, <2>1, <2>2, Probed
  <1>4. CASE Begin(r)
    BY <1>4, Begins
  <1>5. CASE Kill(r)
    <2>1. CASE UNCHANGED fixture
      BY <1>1, <2>1
    <2>2. CASE At(r, "probe") /\ WriteAt(Now(r), job[r].asked + 1, FALSE)
      <3>1. Now(r) \in Service
        BY <2>2, AtService DEF At
      <3>2. job[r].asked + 1 \in 1..Probes
        BY <2>2, RecorderAssumption DEF At, Set, TypeOK
      <3>3. QED
        BY <1>2, <2>2, <3>1, <3>2, Writes
    <2>3. QED
      BY <1>5, <2>1, <2>2 DEF Kill, WriteAt
  <1>6. CASE Look(r) \/ Unknown(r) \/ Create(r) \/ Start(r) \/ Ready(r) \/ Setup(r) \/ Clean(r) \/ Image(r)
             \/ After(r) \/ Interrupt(r)
    BY <1>1, <1>6 DEF Look, Unknown, Create, Start, Ready, Setup, Clean, Image, After, Interrupt
  <1>7. QED
    BY <1>3, <1>4, <1>5, <1>6 DEF Step

LEMMA ContainersTyped ==
    ASSUME TypeOK, NEW r \in Runner, UnderWay(r), Set(r), Step(r) \/ Begin(r) \/ Interrupt(r) \/ Kill(r)
    PROVE  container' \in [Service -> Made \union {None}] /\ image' \in [Service -> {"absent", "theirs", "ours"}]
  <1> DEFINE C == container' \in [Service -> Made \union {None}]
             I == image' \in [Service -> {"absent", "theirs", "ours"}]
  <1>1. UNCHANGED container => C
    BY DEF TypeOK, Made
  <1>2. UNCHANGED image => I
    BY DEF TypeOK
  <1>3. CASE Create(r)
    <2>1. UNCHANGED container \/ C
      BY <1>3, Creates
    <2>2. Pull(r) => I
      BY DEF Pull, TypeOK
    <2>3. QED
      BY <1>1, <1>2, <1>3, <2>1, <2>2, Creates
  <1>4. CASE Start(r)
    BY <1>1, <1>2, <1>4, Starts
  <1>5. CASE Clean(r)
    BY <1>2, <1>5, Cleans DEF Clean, At
  <1>6. CASE Kill(r)
    BY <1>2, <1>6, Kills
  <1>7. Untagged(r) => I
    BY DEF Untagged, TypeOK
  <1>8. CASE Image(r)
    BY <1>1, <1>7, <1>8 DEF Image
  <1>9. CASE Look(r) \/ Unknown(r) \/ Ready(r) \/ Setup(r) \/ Probe(r) \/ After(r) \/ Begin(r)
    <2>1. UNCHANGED <<container, image>>
      BY <1>9 DEF Look, Unknown, Ready, Setup, Probe, After, Begin
    <2>2. QED
      BY <1>1, <1>2, <2>1
  <1>10. CASE Interrupt(r)
    <2>1. CASE At(r, "clean") /\ TakenDown(r) /\ UNCHANGED image
      BY <1>2, <2>1, Cleans DEF At
    <2>2. CASE UNCHANGED container /\ (Untagged(r) \/ UNCHANGED image)
      BY <1>1, <1>2, <1>7, <2>2
    <2>3. QED
      BY <1>10, <2>1, <2>2 DEF Interrupt
  <1>11. QED
    BY <1>3, <1>4, <1>5, <1>6, <1>8, <1>9, <1>10 DEF Step

\* What was misread stays so, and each step but a look leaves it.
LEMMA MisreadGrows ==
    ASSUME TypeOK, NEW r \in Runner, UnderWay(r), Step(r) \/ Begin(r) \/ Interrupt(r) \/ Kill(r)
    PROVE  misread \subseteq misread' /\ misread' \subseteq Service
  <1>1. CASE Look(r)
    <2>1. Now(r) \in Service
      BY <1>1, AtService DEF Look, At
    <2>2. QED
      BY <1>1, <2>1 DEF Look, TypeOK
  <1>2. CASE UNCHANGED misread
    BY <1>2 DEF TypeOK
  <1>3. QED
    BY <1>1, <1>2 DEF Step, Unknown, Create, Start, Ready, Setup, Probe, Clean, Image, After, Begin,
                      Interrupt, Kill

\* The state keeps its type.
LEMMA TypeKept ==
    TypeOK /\ (\A r \in Runner : UnderWay(r) /\ Set(r)) /\ [Next]_vars => TypeOK'
  <1> SUFFICES ASSUME TypeOK, \A r \in Runner : UnderWay(r) /\ Set(r), [Next]_vars PROVE TypeOK'
    OBVIOUS
  <1>1. TypeOK' <=> /\ job' \in [Runner -> Job]
                    /\ container' \in [Service -> Made \union {None}]
                    /\ image' \in [Service -> {"absent", "theirs", "ours"}]
                    /\ fixture' \in [Service -> [1..Probes -> BOOLEAN]]
                    /\ misread' \subseteq Service
    BY DEF TypeOK, Job, Made
  <1>2. ASSUME NEW r \in Runner, Step(r) \/ Begin(r) \/ Interrupt(r) \/ Kill(r) PROVE TypeOK'
    <2>1. JobStep(r)
      BY <1>2, StepIsJobStep DEF Set
    <2>2. QED
      BY <1>1, <1>2, <2>1, JobStepTyped, ContainersTyped, FixturesTyped, MisreadGrows
  <1>3. ASSUME NEW n \in Service, Stops(n) \/ RemovedByHand(n) PROVE TypeOK'
    <2>1. container' \in [Service -> Made \union {None}] /\ UNCHANGED <<job, image, fixture, misread>>
      BY <1>3, TheWorld
    <2>2. QED
      BY <1>1, <2>1 DEF TypeOK, Job
  <1>4. CASE UNCHANGED vars
    BY <1>4 DEF vars, TypeOK
  <1>5. QED
    BY <1>2, <1>3, <1>4 DEF Next
-----------------------------------------------------------------------------
\* A step of an invocation leaves what the others hold, and its own lists and
\* counts in order.
LEMMA WholeKept ==
    ASSUME TypeOK, TheirImagesStay, NEW r \in Runner, Whole(r), Step(r) \/ Begin(r) \/ Interrupt(r) \/ Kill(r)
    PROVE  Whole(r)'
  <1>0. UnderWay(r) /\ Set(r) /\ PulledIsOurs(r) /\ misread \subseteq misread'
    BY MisreadGrows DEF Whole
  <1> DEFINE Steady == job'[r].given = job[r].given /\ job'[r].left = job[r].left
             AsWas == Steady /\ job'[r].pulled = job[r].pulled
             Trying == Busy \ {"look"}
  <1>1. ASSUME AsWas, job[r].pc \in Trying, job'[r].pc \in {"clean", "next"} PROVE Whole(r)'
    BY <1>0, <1>1 DEF Whole, UnderWay, Set, PulledIsOurs, Now, At, Busy
  <1>2. ASSUME Break(r), job[r].pc \in Trying PROVE Whole(r)'
    BY <1>1, <1>2, BreakDone
  <1>3. CASE Look(r)
    <2>1. /\ job[r].pc = "look" /\ job'[r].pc = "create" /\ Steady /\ job'[r].asked = 0
          /\ job'[r].port \in Port
          /\ job'[r].pulled => image[Now(r)] = "absent" \/ Now(r) \in misread'
      BY <1>3, LookDone
    <2>2. job'[r].pulled => Now(r) \notin Theirs \ misread'
      BY <1>0, <2>1 DEF TheirImagesStay
    <2>3. QED
      BY <1>0, <2>1, <2>2 DEF Whole, UnderWay, Set, PulledIsOurs, Now, At
  <1>4. CASE Unknown(r)
    <2>1. job[r].pc = "look" /\ job'[r].pc = "next" /\ Steady
      BY <1>4, UnknownDone DEF Unknown, At
    <2>2. QED
      BY <1>0, <2>1 DEF Whole, UnderWay, Set, PulledIsOurs, At, Busy
  <1>5. CASE Create(r)
    <2>1. job[r].pc = "create"
      BY <1>5 DEF Create, At
    <2>2. CASE Go(r, "start")
      <3>1. job'[r].pc = "start" /\ AsWas /\ job'[r].asked = job[r].asked
        BY <2>2, GoDone DEF Busy
      <3>2. QED
        BY <1>0, <2>1, <3>1 DEF Whole, UnderWay, Set, PulledIsOurs, Now, At, Busy
    <2>3. QED
      BY <1>2, <1>5, <2>1, <2>2 DEF Create, Busy
  <1>6. CASE Start(r)
    <2>1. job[r].pc = "start"
      BY <1>6 DEF Start, At
    <2>2. CASE Go(r, "ready")
      <3>1. job'[r].pc = "ready" /\ AsWas /\ job'[r].asked = job[r].asked
        BY <2>2, GoDone DEF Busy
      <3>2. QED
        BY <1>0, <2>1, <3>1 DEF Whole, UnderWay, Set, PulledIsOurs, Now, At, Busy
    <2>3. QED
      BY <1>2, <1>6, <2>1, <2>2 DEF Start, Busy
  <1>7. CASE Ready(r)
    <2>1. job[r].pc = "ready"
      BY <1>7 DEF Ready, At
    <2>2. CASE Go(r, "setup")
      <3>1. job'[r].pc = "setup" /\ AsWas /\ job'[r].asked = job[r].asked
        BY <2>2, GoDone DEF Busy
      <3>2. QED
        BY <1>0, <2>1, <3>1 DEF Whole, UnderWay, Set, PulledIsOurs, Now, At, Busy
    <2>3. QED
      BY <1>2, <1>7, <2>1, <2>2 DEF Ready, Busy
  <1>8. CASE Setup(r)
    <2>1. job[r].pc = "setup"
      BY <1>8 DEF Setup, At
    <2>2. CASE Go(r, "probe")
      <3>1. job'[r].pc = "probe" /\ AsWas /\ job'[r].asked = job[r].asked
        BY <2>2, GoDone DEF Busy
      <3>2. job'[r].asked < Probes
        BY <1>0, <2>1, <3>1, RecorderAssumption DEF Set
      <3>3. QED
        BY <1>0, <2>1, <3>1, <3>2 DEF Whole, UnderWay, Set, PulledIsOurs, Now, At, Busy
    <2>3. QED
      BY <1>2, <1>8, <2>1, <2>2 DEF Setup, Busy
  <1>9. CASE Probe(r)
    <2>1. job[r].pc = "probe"
      BY <1>9 DEF Probe, At
    <2>2. CASE job[r].asked < Probes /\ AskedOne(r, IF job[r].asked + 1 = Probes THEN "clean" ELSE "probe")
      <3>1. CASE job[r].asked + 1 = Probes
        <4>1. job'[r].pc = "clean" /\ AsWas
          BY <2>2, <3>1, AskedDone
        <4>2. QED
          BY <1>1, <2>1, <4>1 DEF Busy
      <3>2. CASE job[r].asked + 1 # Probes
        <4>1. job'[r].pc = "probe" /\ AsWas /\ job'[r].asked = job[r].asked + 1
          BY <2>2, <3>2, AskedDone
        <4>2. job[r].asked \in Nat
          BY DEF TypeOK
        <4>3. job'[r].asked < Probes
          BY <2>2, <3>2, <4>1, <4>2, RecorderAssumption
        <4>4. QED
          BY <1>0, <2>1, <4>1, <4>3 DEF Whole, UnderWay, Set, PulledIsOurs, Now, At, Busy
      <3>3. QED
        BY <3>1, <3>2
    <2>3. QED
      BY <1>0, <1>2, <1>9, <2>1, <2>2, Probed DEF Busy
  <1>10. CASE Clean(r)
    <2>1. job[r].pc = "clean" /\ ((Go(r, "image") /\ job[r].pulled) \/ Go(r, "next"))
      BY <1>10 DEF Clean, At
    <2>2. job'[r].pc \in {"image", "next"} /\ AsWas /\ (job'[r].pc = "image" => job[r].pulled)
      BY <2>1, GoDone
    <2>3. QED
      BY <1>0, <2>1, <2>2 DEF Whole, UnderWay, Set, PulledIsOurs, Now, At, Busy
  <1>11. CASE Image(r)
    <2>1. job[r].pc = "image" /\ Go(r, "next")
      BY <1>11 DEF Image, At
    <2>2. job'[r].pc = "next" /\ AsWas
      BY <2>1, GoDone
    <2>3. QED
      BY <1>0, <2>1, <2>2 DEF Whole, UnderWay, Set, PulledIsOurs, Now, At, Busy
  <1>12. CASE After(r)
    <2>1. job[r].pc = "next" /\ job[r].left # <<>> /\ job[r].left \in Seq(Service)
      BY <1>0, <1>12 DEF After, At, UnderWay, TypeOK
    <2>2. CASE OnTo(r) /\ Len(job[r].left) > 1
      <3>1. job'[r].pc = "look" /\ job'[r].given = job[r].given /\ job'[r].left = Tail(job[r].left)
        BY <2>1, <2>2, OnDone
      <3>2. Tail(job[r].left) # <<>> /\ Items(Tail(job[r].left)) \subseteq Items(job[r].left)
        BY <2>1, <2>2, ItemsOfTail
      <3>3. job'[r].left # <<>> /\ Items(job'[r].left) \subseteq Items(job'[r].given)
            /\ job'[r].given \in Wanted[r]
        BY <1>0, <2>1, <3>1, <3>2 DEF UnderWay, At
      <3>4. QED
        BY <3>1, <3>3 DEF Whole, UnderWay, Set, PulledIsOurs, At, Busy
    <2>3. CASE \E code \in {0, 1} : OutWith(r, code)
      <3>1. job'[r].pc = "idle"
        BY <2>3, OutDone
      <3>2. QED
        BY <3>1 DEF Whole, UnderWay, Set, PulledIsOurs, At, Busy
    <2>4. QED
      BY <1>12, <2>2, <2>3, AfterEither
  <1>13. CASE Begin(r)
    <2>1. PICK given \in Wanted[r], hold \in BOOLEAN : BegunWith(r, given, hold)
      BY <1>13, Begins
    <2>2. job'[r].pc = "look" /\ job'[r].given = given /\ job'[r].left = given
      BY <2>1, BegunDone
    <2>3. given # <<>>
      BY RecorderAssumption
    <2>4. QED
      BY <2>2, <2>3 DEF Whole, UnderWay, Set, PulledIsOurs, At, Busy
  <1>14. CASE Interrupt(r)
    <2>1. PICK pc \in {"clean", "next"} : /\ Cut(r, pc) /\ ~At(r, "idle")
                                          /\ pc = "clean" => job[r].pc \in Trying
      BY <1>14 DEF Interrupt, Busy, At
    <2>2. job[r].left # <<>>
      BY <1>0, <2>1 DEF UnderWay
    <2>3. /\ job'[r].pc = pc /\ job'[r].given = job[r].given /\ job'[r].left = <<Now(r)>>
          /\ job'[r].pulled = job[r].pulled
      BY <2>1, <2>2, CutDone
    <2>4. Now(r)' = Now(r) /\ Items(job'[r].left) = {Now(r)} /\ job'[r].left # <<>>
      BY <2>3, ItemsOfOne DEF Now
    <2>5. Now(r) \in Items(job[r].given) /\ job[r].given \in Wanted[r]
      BY <1>0, <2>1, AtService DEF UnderWay
    <2>6. UnderWay(r)' /\ Set(r)'
      BY <2>1, <2>3, <2>4, <2>5 DEF UnderWay, Set, Busy
    <2>7. PulledIsOurs(r)'
      BY <1>0, <2>1, <2>3, <2>4 DEF PulledIsOurs, Busy
    <2>8. QED
      BY <2>6, <2>7 DEF Whole
  <1>15. CASE Kill(r)
    <2>1. job'[r].pc = "idle"
      BY <1>15, KillDone
    <2>2. QED
      BY <2>1 DEF Whole, UnderWay, Set, PulledIsOurs, At, Busy
  <1>16. QED
    BY <1>3, <1>4, <1>5, <1>6, <1>7, <1>8, <1>9, <1>10, <1>11, <1>12, <1>13, <1>14, <1>15 DEF Step

\* No step removes an image that was there before: what is removed was absent
\* when the invocation looked, or the look failed.
LEMMA ImagesKept ==
    ASSUME TypeOK, TheirImagesStay, NEW r \in Runner, Whole(r), Step(r) \/ Begin(r) \/ Interrupt(r) \/ Kill(r)
    PROVE  TheirImagesStay'
  <1>0. UnderWay(r) /\ Set(r) /\ PulledIsOurs(r) /\ misread \subseteq misread'
    BY MisreadGrows DEF Whole
  <1>1. UNCHANGED image => TheirImagesStay'
    BY <1>0 DEF TheirImagesStay
  <1>2. Pull(r) => TheirImagesStay'
    BY <1>0, RecorderAssumption DEF Pull, TypeOK, TheirImagesStay
  <1>3. At(r, "image") /\ Untagged(r) => TheirImagesStay'
    <2>1. At(r, "image") => Now(r) \notin Theirs \ misread
      BY <1>0 DEF At, Set, PulledIsOurs
    <2>2. Untagged(r) => image' = image \/ image' = [image EXCEPT ![Now(r)] = "absent"]
      BY DEF Untagged
    <2>3. QED
      BY <1>0, <2>1, <2>2, RecorderAssumption DEF TypeOK, TheirImagesStay
  <1>4. CASE Create(r)
    BY <1>0, <1>1, <1>2, <1>4, Creates
  <1>5. CASE Image(r)
    BY <1>3, <1>5 DEF Image
  <1>6. CASE Interrupt(r)
    BY <1>1, <1>3, <1>6 DEF Interrupt
  <1>7. CASE Look(r) \/ Unknown(r) \/ Start(r) \/ Ready(r) \/ Setup(r) \/ Probe(r) \/ Clean(r) \/ After(r)
             \/ Begin(r) \/ Kill(r)
    BY <1>1, <1>7 DEF Look, Unknown, Start, Ready, Setup, Probe, Clean, After, Begin, Kill
  <1>8. QED
    BY <1>4, <1>5, <1>6, <1>7 DEF Step

\* Two containers are never bound to one port.
LEMMA BoundKept ==
    ASSUME TypeOK, BoundOnce, \A r \in Runner : UnderWay(r) /\ Set(r), [Next]_vars
    PROVE  BoundOnce'
  <1>1. ASSUME \A n \in Service : container'[n].up => container[n].up /\ container'[n].port = container[n].port
        PROVE  BoundOnce'
    BY <1>1 DEF BoundOnce
  <1>2. UNCHANGED container => BoundOnce'
    BY <1>1
  <1>3. ASSUME NEW r \in Runner, Create(r) PROVE BoundOnce'
    <2>1. CASE UNCHANGED container
      BY <1>2, <2>1
    <2>2. CASE Elsewhere(Now(r)) /\ container'[Now(r)] =
                   [by |-> r, port |-> job[r].port, up |-> FALSE, care |-> "run"]
      <3>1. ~container'[Now(r)].up
        BY <2>2
      <3>2. QED
        BY <1>1, <2>2, <3>1 DEF Elsewhere
    <2>3. QED
      BY <1>3, <2>1, <2>2, Creates
  <1>4. ASSUME NEW r \in Runner, Start(r) PROVE BoundOnce'
    <2>1. CASE UNCHANGED container
      BY <1>2, <2>1
    <2>2. CASE /\ container[Now(r)] \in Made
               /\ container[Now(r)].up \/ container[Now(r)].port \notin Taken
               /\ Elsewhere(Now(r))
               /\ container'[Now(r)] = WithUp(container[Now(r)], TRUE)
      <3>1. TRUE \in BOOLEAN
        OBVIOUS
      <3>2. container'[Now(r)].port = container[Now(r)].port
        BY <2>2, <3>1, UpIsSet
      <3>3. \A n \in Service \ {Now(r)} : container'[n] = container[n]
        BY <2>2 DEF Elsewhere
      <3>4. container[Now(r)].up \/ \A n \in Service : container[n].up => container[n].port # container[Now(r)].port
        BY <2>2 DEF Taken
      <3>5. QED
        BY <3>2, <3>3, <3>4 DEF BoundOnce
    <2>3. QED
      BY <1>4, <2>1, <2>2, Starts
  <1>5. ASSUME NEW r \in Runner, At(r, "clean"), TakenDown(r) PROVE BoundOnce'
    <2>1. container'[Now(r)].up =>
              container[Now(r)].up /\ container'[Now(r)].port = container[Now(r)].port
      BY <1>5, Cleans, NoneIsNot, CareIsSet DEF At
    <2>2. Elsewhere(Now(r))
      BY <1>5, Cleans DEF At
    <2>3. QED
      BY <1>1, <2>1, <2>2 DEF Elsewhere
  <1>6. ASSUME NEW r \in Runner, Kill(r) PROVE BoundOnce'
    <2>1. \A n \in Service : container'[n].up => container[n].up /\ container'[n].port = container[n].port
      BY <1>6, Kills, CareIsSet
    <2>2. QED
      BY <1>1, <2>1
  <1>7. ASSUME NEW n \in Service, Stops(n) \/ RemovedByHand(n) PROVE BoundOnce'
    <2>1. ~container'[n].up /\ Elsewhere(n)
      <3>1. FALSE \in BOOLEAN
        OBVIOUS
      <3>2. \A c \in Made : WithUp(c, FALSE).up = FALSE
        BY <3>1, UpIsSet, Zenon
      <3>3. QED
        BY <1>7, <3>2, TheWorld, NoneIsNot
    <2>2. QED
      BY <1>1, <2>1 DEF Elsewhere
  <1>8. ASSUME NEW r \in Runner,
               Look(r) \/ Unknown(r) \/ Ready(r) \/ Setup(r) \/ Probe(r) \/ Image(r) \/ After(r) \/ Begin(r)
        PROVE  BoundOnce'
    BY <1>2, <1>8 DEF Look, Unknown, Ready, Setup, Probe, Image, After, Begin
  <1>9. ASSUME NEW r \in Runner, Clean(r) \/ Interrupt(r) PROVE BoundOnce'
    BY <1>2, <1>5, <1>9 DEF Clean, Interrupt
  <1>10. CASE UNCHANGED vars
    BY <1>2, <1>10 DEF vars
  <1>11. QED
    BY <1>3, <1>4, <1>6, <1>7, <1>8, <1>9, <1>10 DEF Next, Step

\* An invocation that has a container stays at its service, and at its port,
\* until it is past taking it away.
Stays(r) ==
    job[r].pc \in Having =>
        job'[r].pc \in Having /\ job'[r].left # <<>> /\ Now(r)' = Now(r) /\ job'[r].port = job[r].port

LEMMA StaysAt ==
    ASSUME TypeOK, NEW r \in Runner, UnderWay(r), Set(r),
           Look(r) \/ Unknown(r) \/ Create(r) \/ Start(r) \/ Ready(r) \/ Setup(r) \/ Probe(r) \/ Image(r)
               \/ After(r) \/ Begin(r) \/ (Interrupt(r) /\ ~At(r, "clean"))
    PROVE  Stays(r)
  <1>1. ASSUME job[r].pc \notin Having PROVE Stays(r)
    BY <1>1 DEF Stays
  <1>2. ASSUME job[r].pc \in Having, job'[r].pc \in Having, job'[r].left = job[r].left,
               job'[r].port = job[r].port
        PROVE  Stays(r)
    BY <1>2 DEF Stays, Now, UnderWay, At, Having
  <1>3. CASE Break(r)
    <2>1. job'[r].pc = "clean" /\ job'[r].left = job[r].left /\ job'[r].port = job[r].port
      BY <1>3, BreakDone
    <2>2. QED
      BY <1>1, <1>2, <2>1 DEF Having
  <1>4. CASE \E pc \in {"ready", "setup", "probe"} : Go(r, pc)
    <2>1. job'[r].pc \in {"ready", "setup", "probe"} /\ job'[r].left = job[r].left /\ job'[r].port = job[r].port
      BY <1>4, GoDone DEF Busy
    <2>2. QED
      BY <1>1, <1>2, <2>1 DEF Having
  <1>5. CASE Look(r) \/ Unknown(r) \/ Image(r) \/ After(r) \/ Begin(r)
    BY <1>1, <1>5 DEF Look, Unknown, Image, After, Begin, At, Having
  <1>6. CASE Create(r)
    BY <1>1, <1>6 DEF Create, At, Having
  <1>7. CASE Start(r) \/ Ready(r) \/ Setup(r)
    BY <1>3, <1>4, <1>7 DEF Start, Ready, Setup
  <1>8. CASE Probe(r)
    <2>1. CASE job[r].asked < Probes /\ AskedOne(r, IF job[r].asked + 1 = Probes THEN "clean" ELSE "probe")
      <3>1. CASE job[r].asked + 1 = Probes
        BY <1>1, <1>2, <2>1, <3>1, AskedDone DEF Having
      <3>2. CASE job[r].asked + 1 # Probes
        BY <1>1, <1>2, <2>1, <3>2, AskedDone DEF Having
      <3>3. QED
        BY <3>1, <3>2
    <2>2. QED
      BY <1>3, <1>8, <2>1, Probed
  <1>9. CASE Interrupt(r) /\ ~At(r, "clean")
    <2>1. CASE Cut(r, "clean") /\ ~At(r, "idle")
      <3>1. job[r].left # <<>>
        BY <2>1 DEF UnderWay
      <3>2. job'[r].pc = "clean" /\ job'[r].left = <<Now(r)>> /\ job'[r].port = job[r].port
        BY <2>1, <3>1, CutDone
      <3>3. QED
        BY <3>2, ItemsOfOne DEF Stays, Having, Now
    <2>2. CASE job[r].pc \in {"look", "next", "image"}
      BY <1>1, <2>2 DEF Having
    <2>3. QED
      BY <1>9, <2>1, <2>2 DEF Interrupt, At, Busy
  <1>10. QED
    BY <1>5, <1>6, <1>7, <1>8, <1>9

\* Whose a container is, is still so after a step that leaves it as it was.
LEMMA MakerStays ==
    ASSUME TypeOK, NEW n \in Service, MadeByIts(n), NEW r \in Runner, Others(r),
           Stays(r) \/ container[n].by # r \/ Now(r) # n,
           container'[n].care = "run" =>
               /\ container[n].care = "run"
               /\ container'[n].by = container[n].by /\ container'[n].port = container[n].port
    PROVE  MadeByIts(n)'
  <1> SUFFICES ASSUME container'[n].care = "run"
               PROVE  \E q \in Runner : /\ container'[n].by = q
                                        /\ job'[q].pc \in Having
                                        /\ Now(q)' = n
                                        /\ container'[n].port = job'[q].port
    BY DEF MadeByIts, Having
  <1>1. PICK q \in Runner : /\ container[n].by = q
                            /\ job[q].pc \in Having
                            /\ Now(q) = n
                            /\ container[n].port = job[q].port
    BY DEF MadeByIts
  <1>2. CASE q = r
    <2>1. Stays(r)
      BY <1>1, <1>2
    <2>2. QED
      BY <1>1, <1>2, <2>1 DEF Stays
  <1>3. CASE q # r
    <2>1. job'[q] = job[q]
      BY <1>3 DEF Others
    <2>2. QED
      BY <1>1, <2>1 DEF Now
  <1>4. QED
    BY <1>2, <1>3

LEMMA MakersKept ==
    ASSUME TypeOK, NEW r \in Runner, UnderWay(r), Set(r), Step(r) \/ Begin(r) \/ Interrupt(r) \/ Kill(r),
           NEW n \in Service, MadeByIts(n)
    PROVE  MadeByIts(n)'
  <1>1. JobStep(r)
    BY StepIsJobStep DEF Set
  <1>2. Others(r)
    BY <1>1, JobStepTyped
  <1>3. ASSUME UNCHANGED container, Stays(r) PROVE MadeByIts(n)'
    BY <1>2, <1>3, MakerStays
  <1>4. CASE Look(r) \/ Unknown(r) \/ Ready(r) \/ Setup(r) \/ Probe(r) \/ Image(r) \/ After(r) \/ Begin(r)
             \/ (Interrupt(r) /\ ~At(r, "clean"))
    <2>1. UNCHANGED container
      BY <1>4 DEF Look, Unknown, Ready, Setup, Probe, Image, After, Begin, Interrupt
    <2>2. QED
      BY <1>3, <1>4, <2>1, StaysAt
  <1>5. CASE Create(r)
    <2>1. Stays(r) /\ Now(r) \in Service
      BY <1>5, StaysAt, AtService DEF Create, At
    <2>2. CASE UNCHANGED container
      BY <1>3, <2>1, <2>2
    <2>3. CASE /\ Go(r, "start") /\ Elsewhere(Now(r))
               /\ container'[Now(r)] = [by |-> r, port |-> job[r].port, up |-> FALSE, care |-> "run"]
      <3>1. CASE n = Now(r)
        <4>1. job'[r].pc = "start" /\ job'[r].left = job[r].left /\ job'[r].port = job[r].port
          BY <2>3, GoDone DEF Busy
        <4>2. QED
          BY <2>3, <3>1, <4>1 DEF MadeByIts, Having, Now
      <3>2. CASE n # Now(r)
        BY <1>2, <2>1, <2>3, <3>2, MakerStays DEF Elsewhere
      <3>3. QED
        BY <3>1, <3>2
    <2>4. QED
      BY <1>5, <2>2, <2>3, Creates
  <1>6. CASE Start(r)
    <2>1. Stays(r)
      BY <1>6, StaysAt
    <2>2. CASE UNCHANGED container
      BY <1>3, <2>1, <2>2
    <2>3. CASE /\ container[Now(r)] \in Made /\ Elsewhere(Now(r))
               /\ container'[Now(r)] = WithUp(container[Now(r)], TRUE)
      <3>1. TRUE \in BOOLEAN
        OBVIOUS
      <3>2. CASE n = Now(r)
        <4>1. /\ container'[n].care = container[n].care
              /\ container'[n].by = container[n].by /\ container'[n].port = container[n].port
          BY <2>3, <3>1, <3>2, UpIsSet
        <4>2. QED
          BY <1>2, <2>1, <4>1, MakerStays
      <3>3. CASE n # Now(r)
        BY <1>2, <2>1, <2>3, <3>3, MakerStays DEF Elsewhere
      <3>4. QED
        BY <3>2, <3>3
    <2>4. QED
      BY <1>6, <2>2, <2>3, Starts
  <1>7. CASE At(r, "clean") /\ TakenDown(r)
    <2>1. CASE n = Now(r)
      <3>1. CASE container'[n].care # "run"
        BY <3>1 DEF MadeByIts
      <3>2. CASE ~(container[n].by = r /\ container[n].care = "run") /\ container'[n] = container[n]
        <4>1. CASE container[n].care # "run"
          BY <3>2, <4>1 DEF MadeByIts
        <4>2. CASE container[n].by # r
          BY <1>2, <3>2, <4>2, MakerStays
        <4>3. QED
          BY <3>2, <4>1, <4>2
      <3>3. \A c \in Made, care \in {"left", "held", "stuck"} : WithCare(c, care).care # "run"
        BY CareIsSet
      <3>4. QED
        BY <1>7, <2>1, <3>1, <3>2, <3>3, Cleans, NoneIsNot DEF At
    <2>2. CASE n # Now(r)
      <3>1. container'[n] = container[n]
        BY <1>7, <2>2, Cleans DEF Elsewhere, At
      <3>2. QED
        BY <1>2, <2>2, <3>1, MakerStays
    <2>3. QED
      BY <2>1, <2>2
  <1>8. CASE Kill(r)
    <2>1. CASE container[n].by = r /\ container[n].care = "run"
      <3>1. container'[n].care = "left"
        BY <1>8, <2>1, Kills, CareIsSet
      <3>2. QED
        BY <3>1 DEF MadeByIts
    <2>2. CASE container[n].care # "run"
      <3>1. container'[n].care # "run"
        BY <1>8, <2>2, Kills
      <3>2. QED
        BY <3>1 DEF MadeByIts
    <2>3. CASE container[n].by # r
      <3>1. container'[n] = container[n]
        BY <1>8, <2>3, Kills
      <3>2. QED
        BY <1>2, <2>3, <3>1, MakerStays
    <2>4. QED
      BY <2>1, <2>2, <2>3
  <1>9. CASE Clean(r) \/ (Interrupt(r) /\ At(r, "clean"))
    BY <1>7, <1>9 DEF Clean, Interrupt, At, Busy
  <1>10. QED
    BY <1>4, <1>5, <1>6, <1>8, <1>9 DEF Step

\* At the start, nothing has been made and nobody has begun.
LEMMA InitWhose == Init => Whose
  <1> SUFFICES ASSUME Init PROVE Whose
    OBVIOUS
  <1>1. \A r \in Runner : job[r] = AtRest
    BY DEF Init
  <1>2. \A n \in Service : container[n] = None
    BY DEF Init
  <1>3. TypeOK
    <2>1. [i \in 1..Probes |-> FALSE] \in [1..Probes -> BOOLEAN]
      <3>1. FALSE \in BOOLEAN
        OBVIOUS
      <3>2. QED
        BY <3>1, Zenon
    <2>2. fixture \in [Service -> [1..Probes -> BOOLEAN]]
      BY <2>1 DEF Init
    <2>3. job \in [Runner -> Job]
      BY AtRestIsJob DEF Init
    <2>4. QED
      BY <2>2, <2>3 DEF Init, TypeOK, Job
  <1>4. TheirImagesStay
    BY RecorderAssumption DEF Init, TheirImagesStay
  <1>5. BoundOnce /\ \A n \in Service : MadeByIts(n)
    BY <1>2, NoneIsNot DEF BoundOnce, MadeByIts
  <1>6. \A r \in Runner : Whole(r)
    BY <1>1, AtRestIsJob DEF Whole, UnderWay, Set, PulledIsOurs, At, Busy
  <1>7. QED
    BY <1>3, <1>4, <1>5, <1>6 DEF Whose

\* The invariant of whose the containers, the images and the answers are.
THEOREM WhoseInvariant == Spec => []Whose
  <1>1. Init => Whose
    BY InitWhose
  <1>2. Whose /\ [Next]_vars => Whose'
    <2> SUFFICES ASSUME Whose, [Next]_vars PROVE Whose'
      OBVIOUS
    <2>1. /\ TypeOK /\ TheirImagesStay /\ BoundOnce
          /\ \A r \in Runner : Whole(r) /\ UnderWay(r) /\ Set(r)
          /\ \A n \in Service : MadeByIts(n)
      BY DEF Whose, Whole
    <2>2. TypeOK' /\ BoundOnce'
      BY <2>1, TypeKept, BoundKept
    <2>3. ASSUME NEW r \in Runner, Step(r) \/ Begin(r) \/ Interrupt(r) \/ Kill(r) PROVE Whose'
      <3>1. JobStep(r)
        BY <2>1, <2>3, StepIsJobStep DEF Set
      <3>2. Others(r)
        BY <2>1, <3>1, JobStepTyped
      <3>3. Whole(r)' /\ TheirImagesStay' /\ misread \subseteq misread'
        BY <2>1, <2>3, WholeKept, ImagesKept, MisreadGrows
      <3>4. ASSUME NEW q \in Runner, q # r PROVE Whole(q)'
        <4>1. job'[q] = job[q] /\ Whole(q)
          BY <2>1, <3>2, <3>4 DEF Others
        <4>2. QED
          BY <3>3, <4>1 DEF Whole, UnderWay, Set, PulledIsOurs, At, Now
      <3>5. \A n \in Service : MadeByIts(n)'
        BY <2>1, <2>3, MakersKept
      <3>6. QED
        BY <2>2, <3>3, <3>4, <3>5 DEF Whose
    <2>4. ASSUME NEW n \in Service, Stops(n) \/ RemovedByHand(n) PROVE Whose'
      <3>1. UNCHANGED <<job, image, fixture, misread>> /\ Elsewhere(n)
        BY <2>1, <2>4, TheWorld
      <3>2. container'[n].care = "run" =>
                /\ container[n].care = "run"
                /\ container'[n].by = container[n].by /\ container'[n].port = container[n].port
        <4>1. \/ container'[n] = None
              \/ container[n] \in Made /\ container'[n] = WithUp(container[n], FALSE)
          BY <2>1, <2>4, TheWorld
        <4>2. FALSE \in BOOLEAN
          OBVIOUS
        <4>3. CASE container'[n] = None
          BY <4>3, NoneIsNot
        <4>4. CASE container[n] \in Made /\ container'[n] = WithUp(container[n], FALSE)
          BY <4>2, <4>4, UpIsSet
        <4>5. QED
          BY <4>1, <4>3, <4>4
      <3>3. \A m \in Service : container'[m].care = "run" =>
                /\ container[m].care = "run"
                /\ container'[m].by = container[m].by /\ container'[m].port = container[m].port
        BY <3>1, <3>2 DEF Elsewhere
      <3>4. \A m \in Service : MadeByIts(m)'
        BY <2>1, <3>1, <3>3 DEF MadeByIts, Now
      <3>5. TheirImagesStay' /\ \A r \in Runner : Whole(r)'
        BY <2>1, <3>1 DEF TheirImagesStay, Whole, UnderWay, Set, PulledIsOurs, At, Now
      <3>6. QED
        BY <2>2, <3>4, <3>5 DEF Whose
    <2>5. CASE UNCHANGED vars
      BY <2>1, <2>5 DEF vars, Whose, TypeOK, TheirImagesStay, BoundOnce, MadeByIts, Whole, UnderWay, Set,
                        PulledIsOurs, At, Now
    <2>6. QED
      BY <2>3, <2>4, <2>5 DEF Next
  <1>3. QED
    BY <1>1, <1>2, PTL DEF Spec

\* The state keeps its type.
THEOREM RecorderTyping == Spec => []TypeOK
  BY WhoseInvariant, PTL DEF Whose

\* An image that was on the machine before is never taken away, unless a look
\* for it failed while it was there.
THEOREM NoImageOfTheirsIsRemoved == Spec => []TheirImagesStay
  BY WhoseInvariant, PTL DEF Whose

\* No invocation goes on to its next service, or ends, over a container of its
\* own that it neither removed, nor tried to, nor holds.
THEOREM EachContainerIsClearedAway == Spec => []ClearedAway
  <1>1. Whose => ClearedAway
    BY DEF Whose, MadeByIts, ClearedAway, Having, Busy, Name
  <1>2. QED
    BY <1>1, WhoseInvariant, PTL

\* While its container is up, what an invocation asks is that container and no
\* other, whatever took a port in the meantime.
THEOREM WhatIsAskedIsItsOwn == Spec => []AsksItsOwn
  <1>1. Whose => AsksItsOwn
    <2> SUFFICES ASSUME Whose, NEW r \in Runner, job[r].pc \in {"ready", "setup", "probe"},
                        container[Name(Now(r))].by = r, container[Name(Now(r))].care = "run",
                        container[Name(Now(r))].up
                 PROVE  Answering(job[r].port) = {Name(Now(r))}
      BY DEF AsksItsOwn
    <2>1. Now(r) \in Service /\ Name(Now(r)) = Now(r)
      BY AtService DEF Whose, Whole, At
    <2>2. container[Now(r)].port = job[r].port
      BY <2>1 DEF Whose, MadeByIts
    <2>3. \A n \in Service : container[n].up /\ container[n].port = job[r].port => n = Now(r)
      BY <2>1, <2>2 DEF Whose, BoundOnce
    <2>4. QED
      BY <2>1, <2>2, <2>3 DEF Answering
  <1>2. QED
    BY <1>1, WhoseInvariant, PTL
-----------------------------------------------------------------------------
\* What is written of a service's fixtures stays.
Stands(s) == \A i \in 1..Probes : fixture[s][i] => fixture'[s][i]

\* A step spoils the fixtures only of a service its invocation is, or was just,
\* given.
LEMMA SpoilsItsOwn ==
    ASSUME TypeOK, NEW r \in Runner, Whole(r), Step(r) \/ Begin(r) \/ Interrupt(r) \/ Kill(r),
           NEW s \in Service, \A mine \in Wanted[r] : s \notin Items(mine)
    PROVE  Stands(s)
  <1>0. UnderWay(r) /\ Set(r)
    BY DEF Whole
  <1>1. UNCHANGED fixture => Stands(s)
    BY DEF Stands
  <1>2. CASE Probe(r)
    <2>1. CASE /\ WriteAt(Now(r), job[r].asked + 1, TRUE)
               /\ Now(r) \in Service /\ job[r].asked + 1 \in 1..Probes
      <3>1. TRUE \in BOOLEAN
        OBVIOUS
      <3>2. /\ \A m \in Service \ {Now(r)} : fixture'[m] = fixture[m]
            /\ \A k \in (1..Probes) \ {job[r].asked + 1} : fixture'[Now(r)][k] = fixture[Now(r)][k]
            /\ fixture'[Now(r)][job[r].asked + 1] = TRUE
        BY <2>1, <3>1, Writes
      <3>3. QED
        BY <3>2 DEF Stands
    <2>2. QED
      BY <1>0, <1>1, <1>2, <2>1, Probed
  <1>3. CASE Begin(r)
    BY <1>3, Begins DEF Stands
  <1>4. CASE Kill(r)
    <2>1. CASE At(r, "probe") /\ WriteAt(Now(r), job[r].asked + 1, FALSE)
      <3>1. Now(r) \in Service /\ Now(r) # s
        BY <1>0, <2>1, AtService DEF At, UnderWay
      <3>2. job[r].asked + 1 \in 1..Probes
        BY <1>0, <2>1, RecorderAssumption DEF At, Set, TypeOK
      <3>3. FALSE \in BOOLEAN
        OBVIOUS
      <3>4. fixture'[s] = fixture[s]
        BY <2>1, <3>1, <3>2, <3>3, Writes
      <3>5. QED
        BY <3>4 DEF Stands
    <2>2. QED
      BY <1>1, <1>4, <2>1 DEF Kill, WriteAt
  <1>5. CASE Look(r) \/ Unknown(r) \/ Create(r) \/ Start(r) \/ Ready(r) \/ Setup(r) \/ Clean(r) \/ Image(r)
             \/ After(r) \/ Interrupt(r)
    BY <1>1, <1>5 DEF Look, Unknown, Create, Start, Ready, Setup, Clean, Image, After, Interrupt
  <1>6. QED
    BY <1>2, <1>3, <1>4, <1>5 DEF Step

\* What an invocation has to show stands with the fixtures of its services.
LEMMA WrittenStands ==
    ASSUME TypeOK, NEW q \in Runner, UnderWay(q), Set(q), Written(q), job'[q] = job[q],
           \A s \in Items(job[q].given) : Stands(s)
    PROVE  Written(q)'
  <1>1. \A s \in Items(job[q].given) : Recorded(s) => Recorded(s)'
    BY DEF Stands, Recorded
  <1>2. ~At(q, "idle") => Now(q) \in Items(job[q].given)
    BY AtService
  <1>3. GivenIts(q)' /\ Behind(q)' /\ AllWritten(q)'
    BY <1>1 DEF Written, GivenIts, Behind, AllWritten, At
  <1>4. Now(q)' = Now(q)
    BY DEF Now
  <1>5. job[q].pc = "probe" => \A i \in 1..job[q].asked : fixture'[Now(q)][i]
    <2> SUFFICES ASSUME job[q].pc = "probe", NEW i \in 1..job[q].asked PROVE fixture'[Now(q)][i]
      OBVIOUS
    <2>1. i \in 1..Probes
      BY RecorderAssumption DEF TypeOK
    <2>2. fixture[Now(q)][i] /\ Stands(Now(q))
      BY <1>2 DEF Written, Current, At
    <2>3. QED
      BY <2>1, <2>2 DEF Stands
  <1>6. job[q].pc \in {"clean", "image", "next"} /\ ~job[q].broke => Recorded(Now(q))'
    BY <1>1, <1>2, <1>4 DEF Written, Current, At
  <1>7. Current(q)'
    BY <1>4, <1>5, <1>6 DEF Written, Current
  <1>8. QED
    BY <1>3, <1>7 DEF Written

\* The steps that write nothing and leave the lists, and what they leave of
\* what the invocation has to show.
LEMMA GoesOn ==
    ASSUME TypeOK, NEW r \in Runner, UnderWay(r), Written(r), UNCHANGED fixture, ~At(r, "idle"),
           job'[r].given = job[r].given, job'[r].left = job[r].left,
           job'[r].failed = job[r].failed, job'[r].pc # "idle"
    PROVE  /\ job'[r].broke = job[r].broke => Behind(r)'
           /\ GivenIts(r)' /\ AllWritten(r)' /\ Now(r)' = Now(r)
           /\ \A s : Recorded(s)' <=> Recorded(s)
  BY DEF Written, GivenIts, Behind, AllWritten, At, Now, Recorded

LEMMA BreaksOff ==
    ASSUME TypeOK, NEW r \in Runner, UnderWay(r), Written(r), ~At(r, "idle"),
           job'[r].pc \in {"clean", "next"}, job'[r].broke,
           job'[r].given = job[r].given
    PROVE  Written(r)'
  BY DEF Written, GivenIts, Behind, AllWritten, Current, UnderWay, At

LEMMA WrittenKept ==
    ASSUME TypeOK, NEW r \in Runner, Whole(r), Written(r), Step(r) \/ Begin(r) \/ Interrupt(r) \/ Kill(r)
    PROVE  Written(r)'
  <1>0. UnderWay(r) /\ Set(r)
    BY DEF Whole
  <1>1. CASE Break(r) /\ ~At(r, "idle")
    BY <1>0, <1>1, BreakDone, BreaksOff
  <1>2. CASE Look(r)
    <2>1. /\ job[r].pc = "look" /\ job'[r].pc = "create" /\ job'[r].given = job[r].given
          /\ job'[r].left = job[r].left /\ ~job'[r].broke /\ job'[r].failed = job[r].failed
          /\ UNCHANGED fixture
      BY <1>2, LookDone DEF Look
    <2>2. GivenIts(r)' /\ AllWritten(r)'
      BY <1>0, <2>1, GoesOn DEF At
    <2>3. Behind(r)'
      BY <2>1 DEF Written, Behind, Current, At, Recorded
    <2>4. QED
      BY <2>1, <2>2, <2>3 DEF Written, Current
  <1>3. CASE Unknown(r)
    BY <1>0, <1>3, UnknownDone, BreaksOff DEF Unknown, At
  <1>4. ASSUME NEW pc \in {"start", "ready", "setup"}, Go(r, pc), UNCHANGED fixture, ~At(r, "idle")
        PROVE  Written(r)'
    <2>1. /\ job'[r].pc = pc /\ job'[r].given = job[r].given /\ job'[r].left = job[r].left
          /\ job'[r].broke = job[r].broke /\ job'[r].failed = job[r].failed
      BY <1>4, GoDone DEF Busy
    <2>2. GivenIts(r)' /\ AllWritten(r)' /\ Behind(r)'
      BY <1>0, <1>4, <2>1, GoesOn
    <2>3. QED
      BY <2>1, <2>2 DEF Written, Current
  <1>5. CASE Create(r)
    BY <1>0, <1>1, <1>4, <1>5, Creates DEF Create, At
  <1>6. CASE Start(r)
    BY <1>0, <1>1, <1>4, <1>6, Starts DEF Start, At
  <1>7. CASE Ready(r)
    BY <1>1, <1>4, <1>7 DEF Ready, At
  <1>8. CASE Setup(r)
    <2>1. CASE Go(r, "probe")
      <3>1. /\ job'[r].pc = "probe" /\ job'[r].given = job[r].given /\ job'[r].left = job[r].left
            /\ job'[r].broke = job[r].broke /\ job'[r].failed = job[r].failed /\ job'[r].asked = job[r].asked
        BY <2>1, GoDone DEF Busy
      <3>2. job[r].pc = "setup" /\ UNCHANGED fixture
        BY <1>8 DEF Setup, At
      <3>3. job'[r].asked = 0
        BY <1>0, <3>1, <3>2 DEF Set
      <3>4. GivenIts(r)' /\ AllWritten(r)' /\ Behind(r)'
        BY <1>0, <3>1, <3>2, GoesOn DEF At
      <3>5. QED
        BY <3>1, <3>3, <3>4 DEF Written, Current
    <2>2. QED
      BY <1>1, <1>8, <2>1 DEF Setup, At
  <1>9. CASE Probe(r)
    <2>1. CASE /\ WriteAt(Now(r), job[r].asked + 1, TRUE)
               /\ Now(r) \in Service /\ job[r].asked + 1 \in 1..Probes
               /\ job[r].asked < Probes
               /\ AskedOne(r, IF job[r].asked + 1 = Probes THEN "clean" ELSE "probe")
      <3>1. job[r].pc = "probe" /\ job[r].asked \in Nat
        BY <1>9 DEF Probe, At, TypeOK
      <3>2. /\ job'[r].pc = IF job[r].asked + 1 = Probes THEN "clean" ELSE "probe"
            /\ job'[r].given = job[r].given /\ job'[r].left = job[r].left
            /\ job'[r].broke = job[r].broke /\ job'[r].failed = job[r].failed
            /\ job'[r].asked = job[r].asked + 1
        <4>1. CASE job[r].asked + 1 = Probes
          BY <2>1, <4>1, AskedDone
        <4>2. CASE job[r].asked + 1 # Probes
          BY <2>1, <4>2, AskedDone
        <4>3. QED
          BY <4>1, <4>2
      <3>3. /\ \A m \in Service \ {Now(r)} : fixture'[m] = fixture[m]
            /\ \A k \in (1..Probes) \ {job[r].asked + 1} : fixture'[Now(r)][k] = fixture[Now(r)][k]
            /\ fixture'[Now(r)][job[r].asked + 1] = TRUE
        <4>1. TRUE \in BOOLEAN
          OBVIOUS
        <4>2. QED
          BY <2>1, <4>1, Writes
      <3>4. \A s \in Service : Recorded(s) => Recorded(s)'
        BY <3>3 DEF Recorded
      <3>5. \A i \in 1..(job[r].asked + 1) : fixture'[Now(r)][i]
        <4> SUFFICES ASSUME NEW i \in 1..(job[r].asked + 1) PROVE fixture'[Now(r)][i]
          OBVIOUS
        <4>1. CASE i = job[r].asked + 1
          BY <3>3, <4>1
        <4>2. CASE i # job[r].asked + 1
          <5>1. i \in 1..job[r].asked /\ i \in 1..Probes
            BY <2>1, <3>1, <4>2, RecorderAssumption
          <5>2. fixture[Now(r)][i]
            BY <3>1, <5>1 DEF Written, Current
          <5>3. QED
            BY <3>3, <4>2, <5>1, <5>2
        <4>3. QED
          BY <4>1, <4>2
      <3>6. Now(r)' = Now(r)
        BY <3>2 DEF Now
      <3>7. Items(job[r].given) \subseteq Service
        BY ItemsInService DEF TypeOK
      <3>8. GivenIts(r)' /\ AllWritten(r)' /\ Behind(r)'
        BY <3>1, <3>2, <3>4, <3>7 DEF Written, GivenIts, AllWritten, Behind, At
      <3>9. Current(r)'
        BY <3>2, <3>5, <3>6 DEF Current, Recorded
      <3>10. QED
        BY <3>8, <3>9 DEF Written
    <2>2. ~At(r, "idle")
      BY <1>9 DEF Probe, At
    <2>3. QED
      BY <1>0, <1>1, <1>9, <2>1, <2>2, Probed
  <1>10. CASE Clean(r) \/ Image(r)
    <2>1. job[r].pc \in {"clean", "image"} /\ UNCHANGED fixture
      BY <1>10 DEF Clean, Image, At
    <2>2. \E pc \in {"image", "next"} : Go(r, pc)
      BY <1>10 DEF Clean, Image
    <2>3. /\ job'[r].pc \in {"image", "next"} /\ job'[r].given = job[r].given /\ job'[r].left = job[r].left
          /\ job'[r].broke = job[r].broke /\ job'[r].failed = job[r].failed
      BY <2>2, GoDone
    <2>4. /\ GivenIts(r)' /\ AllWritten(r)' /\ Behind(r)' /\ Now(r)' = Now(r)
          /\ Recorded(Now(r))' <=> Recorded(Now(r))
      BY <1>0, <2>1, <2>3, GoesOn DEF At
    <2>5. ~job[r].broke => Recorded(Now(r))
      BY <2>1 DEF Written, Current
    <2>6. Current(r)'
      BY <2>3, <2>4, <2>5 DEF Current, Recorded
    <2>7. QED
      BY <2>4, <2>6 DEF Written
  <1>11. CASE After(r)
    <2>1. job[r].pc = "next" /\ job[r].left # <<>> /\ job[r].left \in Seq(Service) /\ UNCHANGED fixture
      BY <1>0, <1>11 DEF After, At, UnderWay, TypeOK
    <2>2. \A s : Recorded(s)' <=> Recorded(s)
      BY <2>1 DEF Recorded
    <2>3. ~Failing(r) => /\ Recorded(Now(r))
                         /\ \A s \in Items(job[r].given) \ Items(job[r].left) : Recorded(s)
      BY <2>1 DEF Written, Current, Behind, Failing, At
    <2>4. CASE Len(job[r].left) > 1 /\ OnTo(r)
      <3>1. /\ job'[r].pc = "look" /\ job'[r].given = job[r].given /\ job'[r].left = Tail(job[r].left)
            /\ job'[r].failed = Failing(r) /\ job'[r].broke = job[r].broke
        BY <2>1, <2>4, OnDone
      <3>2. Items(job[r].left) \subseteq Items(Tail(job[r].left)) \union {Now(r)}
        BY <2>1, ItemsOfTail DEF Now
      <3>3. Behind(r)'
        BY <2>2, <2>3, <3>1, <3>2 DEF Behind
      <3>4. job'[r].broke => job'[r].failed
        BY <3>1 DEF Failing
      <3>5. QED
        BY <3>1, <3>3, <3>4 DEF Written, GivenIts, AllWritten, Current, At
    <2>5. CASE ~(Len(job[r].left) > 1) /\ OutWith(r, IF Failing(r) THEN 1 ELSE 0)
      <3>1. /\ job'[r].pc = "idle" /\ job'[r].given = job[r].given
            /\ job'[r].exit = IF Failing(r) THEN 1 ELSE 0
        <4>1. CASE Failing(r)
          BY <2>5, <4>1, OutDone
        <4>2. CASE ~Failing(r)
          BY <2>5, <4>2, OutDone
        <4>3. QED
          BY <4>1, <4>2
      <3>2. Items(job[r].left) = {Now(r)}
        BY <2>1, <2>5, ItemsOfTail DEF Now
      <3>3. AllWritten(r)'
        BY <2>2, <2>3, <3>1, <3>2 DEF AllWritten
      <3>4. QED
        BY <3>1, <3>3 DEF Written, GivenIts, Behind, Current, At
    <2>6. QED
      BY <1>11, <2>4, <2>5, AfterEither
  <1>12. CASE Begin(r)
    <2>1. PICK given \in Wanted[r], hold \in BOOLEAN : BegunWith(r, given, hold)
      BY <1>12, Begins
    <2>2. /\ job'[r].pc = "look" /\ job'[r].given = given /\ job'[r].left = given
          /\ ~job'[r].broke
      BY <2>1, BegunDone
    <2>3. QED
      BY <2>2 DEF Written, GivenIts, Behind, AllWritten, Current, At
  <1>13. CASE Interrupt(r)
    <2>1. PICK pc \in {"clean", "next"} : Cut(r, pc) /\ ~At(r, "idle")
      BY <1>13, InterruptCuts DEF Cuts
    <2>2. job[r].left # <<>>
      BY <1>0, <2>1 DEF UnderWay
    <2>3. QED
      BY <1>0, <2>1, <2>2, CutDone, BreaksOff
  <1>14. CASE Kill(r)
    <2>1. job'[r].pc = "idle" /\ job'[r].exit = Killed /\ job'[r].given = <<>>
      BY <1>14, KillDone
    <2>2. QED
      BY <2>1 DEF Written, GivenIts, Behind, AllWritten, Current, At, Killed
  <1>15. QED
    BY <1>2, <1>3, <1>5, <1>6, <1>7, <1>8, <1>9, <1>10, <1>11, <1>12, <1>13, <1>14 DEF Step

\* The invocations given different services, every one of them has written what
\* it has to show.
THEOREM RecordingInvariant == ASSUME Apart PROVE Spec => []RInv
  <1>1. Init => RInv
    <2> SUFFICES ASSUME Init PROVE \A r \in Runner : Written(r)
      <3>1. Init => Whose
        BY InitWhose
      <3>2. QED
        BY <3>1 DEF RInv
    <2>1. \A r \in Runner : job[r] = AtRest
      BY DEF Init
    <2>2. QED
      BY <2>1, AtRestIsJob, ItemsOfNone DEF Written, GivenIts, Behind, AllWritten, Current, At, Running
  <1>2. RInv /\ Whose' /\ [Next]_vars => RInv'
    <2> SUFFICES ASSUME RInv, [Next]_vars PROVE \A r \in Runner : Written(r)'
      BY DEF RInv
    <2>1. /\ TypeOK
          /\ \A r \in Runner : Whole(r) /\ UnderWay(r) /\ Set(r) /\ Written(r)
      BY DEF RInv, Whose, Whole
    <2>2. ASSUME NEW r \in Runner, Step(r) \/ Begin(r) \/ Interrupt(r) \/ Kill(r), NEW q \in Runner
          PROVE  Written(q)'
      <3>1. CASE q = r
        BY <2>1, <2>2, <3>1, WrittenKept
      <3>2. CASE q # r
        <4>1. JobStep(r)
          BY <2>1, <2>2, StepIsJobStep DEF Set
        <4>2. job'[q] = job[q]
          BY <2>1, <3>2, <4>1, JobStepTyped DEF Others
        <4>3. ASSUME NEW s \in Items(job[q].given) PROVE Stands(s)
          <5>1. job[q].given \in Wanted[q] /\ s \in Service
            BY <2>1, <4>3, ItemsOfNone, ItemsInService DEF Written, GivenIts, TypeOK
          <5>2. \A mine \in Wanted[r] : s \notin Items(mine)
            BY <3>2, <4>3, <5>1 DEF Apart
          <5>3. QED
            BY <2>1, <2>2, <5>1, <5>2, SpoilsItsOwn
        <4>4. QED
          BY <2>1, <4>2, <4>3, WrittenStands
      <3>3. QED
        BY <3>1, <3>2
    <2>3. ASSUME UNCHANGED <<job, fixture>>, NEW q \in Runner PROVE Written(q)'
      BY <2>1, <2>3 DEF Written, GivenIts, Behind, AllWritten, Current, At, Recorded, Now
    <2>4. CASE \E n \in Service : Stops(n) \/ RemovedByHand(n)
      BY <2>3, <2>4 DEF Stops, RemovedByHand
    <2>5. CASE UNCHANGED vars
      BY <2>3, <2>5 DEF vars
    <2>6. QED
      BY <2>2, <2>4, <2>5 DEF Next
  <1>3. QED
    BY <1>1, <1>2, WhoseInvariant, PTL DEF Spec

\* An exit of 0: each fixture of each service given has been written whole, and
\* none was spoilt since by an invocation beside it.
THEOREM AnExitOfZeroMeansRecorded == ASSUME Apart PROVE Spec => []ExitMeansRecorded
  <1>1. RInv => ExitMeansRecorded
    BY DEF RInv, Written, AllWritten, Recorded, ExitMeansRecorded, Over
  <1>2. QED
    BY <1>1, RecordingInvariant, PTL

\* No invocation takes away the container another has under way.
THEOREM NoneIsTakenFromAnother == ASSUME Apart PROVE Spec => NotEachOthers
  <1>1. Whose /\ [Next]_vars =>
          [\A n \in Service : container[n].care = "run" /\ container'[n] = None /\ ~UNCHANGED job
             => job'[container[n].by] # job[container[n].by]]_vars
    <2> SUFFICES ASSUME Whose, Next, NEW n \in Service, container[n].care = "run", container'[n] = None,
                        ~UNCHANGED job
                 PROVE  job'[container[n].by] # job[container[n].by]
      OBVIOUS
    <2>1. /\ TypeOK /\ MadeByIts(n) /\ container[n] # None
          /\ \A r \in Runner : UnderWay(r) /\ Set(r)
      BY NoneIsNot DEF Whose, Whole
    <2>2. PICK q \in Runner : container[n].by = q /\ job[q].pc \in Having /\ Now(q) = n
      BY <2>1 DEF MadeByIts
    <2>3. PICK r \in Runner : Step(r) \/ Begin(r) \/ Interrupt(r) \/ Kill(r)
      BY DEF Next, Stops, RemovedByHand
    <2>4. (Clean(r) \/ Interrupt(r)) /\ At(r, "clean") /\ Now(r) = n
      <3>1. CASE Look(r) \/ Unknown(r) \/ Ready(r) \/ Setup(r) \/ Probe(r) \/ Image(r) \/ After(r) \/ Begin(r)
                 \/ (Interrupt(r) /\ ~At(r, "clean"))
        BY <2>1, <3>1 DEF Look, Unknown, Ready, Setup, Probe, Image, After, Begin, Interrupt
      <3>2. CASE Create(r)
        <4>1. CASE /\ Elsewhere(Now(r))
                   /\ container'[Now(r)] = [by |-> r, port |-> job[r].port, up |-> FALSE, care |-> "run"]
          <5>1. container'[Now(r)] # None
            <6>1. container'[Now(r)].care = "run"
              BY <4>1
            <6>2. QED
              BY <6>1, NoneIsNot
          <5>2. container'[n] = None /\ container[n] # None
            BY <2>1
          <5>3. n \in Service \ {Now(r)}
            BY <5>1, <5>2
          <5>4. QED
            BY <4>1, <5>2, <5>3 DEF Elsewhere
        <4>2. QED
          BY <2>1, <3>2, <4>1, Creates
      <3>3. CASE Start(r)
        <4>1. CASE /\ container[Now(r)] \in Made /\ Elsewhere(Now(r))
                   /\ container'[Now(r)] = WithUp(container[Now(r)], TRUE)
          <5>1. TRUE \in BOOLEAN
            OBVIOUS
          <5>2. container'[Now(r)].care = container[Now(r)].care
            BY <4>1, <5>1, UpIsSet
          <5>3. QED
            BY <2>1, <4>1, <5>2, NoneIsNot DEF Elsewhere
        <4>2. QED
          BY <2>1, <3>3, <4>1, Starts
      <3>4. CASE Clean(r) \/ (Interrupt(r) /\ At(r, "clean"))
        <4>1. At(r, "clean") /\ TakenDown(r)
          BY <3>4 DEF Clean, Interrupt, At, Busy
        <4>2. QED
          BY <2>1, <3>4, <4>1, Cleans DEF Elsewhere, At
      <3>5. CASE Kill(r)
        <4>1. CASE container[n].by = r
          BY <3>5, <4>1, <2>1, Kills, CareIsSet, NoneIsNot
        <4>2. CASE container[n].by # r
          BY <2>1, <3>5, <4>2, Kills
        <4>3. QED
          BY <4>1, <4>2
      <3>6. QED
        BY <2>3, <3>1, <3>2, <3>3, <3>4, <3>5 DEF Step
    <2>5. job[r].pc = "clean" 
      BY <2>4 DEF At
    <2>6. job'[r].pc # job[r].pc
      <3>1. job[r].left # <<>>
        BY <2>1, <2>5 DEF UnderWay, At
      <3>2. CASE \E pc \in {"image", "next"} : Go(r, pc)
        BY <2>1, <2>5, <3>2, GoDone
      <3>3. CASE Interrupt(r)
        <4>1. Cut(r, "next")
          BY <2>4, <3>3 DEF Interrupt, At, Busy
        <4>2. QED
          BY <2>1, <2>5, <3>1, <4>1, CutDone
      <3>4. QED
        BY <2>4, <3>2, <3>3 DEF Clean
    <2>7. q = r
      <3>1. /\ n \in Items(job[q].given) /\ job[q].given \in Wanted[q]
            /\ n \in Items(job[r].given) /\ job[r].given \in Wanted[r]
        BY <2>1, <2>2, <2>4, <2>5, AtService DEF UnderWay, At, Having
      <3>2. QED
        BY <3>1 DEF Apart
    <2>8. QED
      BY <2>2, <2>6, <2>7
  <1>2. QED
    BY <1>1, WhoseInvariant, PTL DEF Spec, NotEachOthers
=============================================================================
