--------------------------- MODULE PinBumpProofs ---------------------------
(***************************************************************************)
(* What the pipeline of a pin keeps to for any services, any number of     *)
(* releases and commits, wherever a job dies, whatever people edit and     *)
(* whichever commit a run begins at: a pin never moves without its         *)
(* recordings, nothing that landed is undone, no pull request is emptied   *)
(* and no commit is made on top of what an earlier run left.               *)
(***************************************************************************)
EXTENDS PinBump, TLAPS

\* Every commit of main has the recordings of its pins, pins nothing that was
\* never published, and edits are counted one for a commit at most.
MainIs ==
    \A i \in 1..Len(main), s \in Service :
        /\ Holds(s, main[i][s])
        /\ main[i][s].pin <= registry[s]
        /\ main[i][s].rest < i

\* A job's commit is one of main's, and what is dispatched is newer than what
\* was pinned there.
Based(s) ==
    /\ job[s].base \in 1..Len(main)
    /\ job[s].to <= registry[s]
    /\ (s \in Own /\ ~At(s, "none")) => job[s].to >= main[job[s].base][s].pin

\* Its files are those of that commit but for the pin and its recordings: a pin
\* that moves goes forward, to what was published, and is staged validated.
Carries(s) ==
    /\ At(s, "move") => job[s].files = main[job[s].base][s]
    /\ job[s].pc \in Working => job[s].files.rest = main[job[s].base][s].rest
    /\ job[s].pc \in Working \ {"move"} =>
           job[s].files.pin > main[job[s].base][s].pin /\ job[s].files.pin <= registry[s]
    /\ job[s].pc \in Working \ {"move", "record", "validate"} => Holds(s, job[s].files)

\* The scratch ref is the job's own from where it is staged.
Staged(s) ==
    /\ At(s, "commit") => ref[Scratch(s)] = Bare(s, job[s].base)
    /\ At(s, "across") => ref[Scratch(s)] = Built(s)

\* An own image's bump that is still waiting is based so, too.
Waits(s) ==
    /\ dispatched[s].base \in 1..Len(main)
    /\ dispatched[s].to <= registry[s]
    /\ dispatched[s] # NoJob => dispatched[s].to >= main[dispatched[s].base][s].pin

\* The branch of a pull request is at a commit a job built.
Proposed(s, c) ==
    c # None =>
        /\ c.on \in 1..Len(main)
        /\ Holds(s, c.files)
        /\ c.files.pin > main[c.on][s].pin /\ c.files.pin <= registry[s]
        /\ c.files.rest = main[c.on][s].rest
Proposes(s) == Proposed(s, ref[Branch(s)])

Open(s) == armed[s] # None => ref[Branch(s)] # None

JobIs(s) == Based(s) /\ Carries(s) /\ Staged(s)

PInv ==
    /\ TypeOK /\ MainIs /\ run.base \in 1..Len(main)
    /\ \A s \in Service : JobIs(s) /\ Proposes(s) /\ Open(s)
    /\ \A s \in Own : Waits(s)
-----------------------------------------------------------------------------
\* The records of the model, and one field of them set.
Jobs == [pc: Working \union {"none", "done", "failed"}, base: 1..MaxMain, to: 0..MaxPin, files: Files]

WithPin(f, v) == [f EXCEPT !.pin = v]
WithRec(f, v) == [f EXCEPT !.rec = v]
WithRest(f, v) == [f EXCEPT !.rest = v]
WithPc(j, v) == [j EXCEPT !.pc = v]
WithFiles(j, v) == [j EXCEPT !.files = v]

LEMMA PinSet ==
    \A f \in Files : \A v \in 0..MaxPin :
        /\ WithPin(f, v) \in Files /\ WithPin(f, v).pin = v
        /\ WithPin(f, v).rec = f.rec /\ WithPin(f, v).rest = f.rest
  BY DEF Files, WithPin

LEMMA RecSet ==
    \A f \in Files : \A v \in 0..MaxPin :
        /\ WithRec(f, v) \in Files /\ WithRec(f, v).rec = v
        /\ WithRec(f, v).pin = f.pin /\ WithRec(f, v).rest = f.rest
  BY DEF Files, WithRec

LEMMA RestSet ==
    \A f \in Files : \A v \in 0..MaxMain :
        /\ WithRest(f, v) \in Files /\ WithRest(f, v).rest = v
        /\ WithRest(f, v).pin = f.pin /\ WithRest(f, v).rec = f.rec
  BY DEF Files, WithRest

LEMMA PcSet ==
    \A j \in Jobs : \A v \in Working \union {"none", "done", "failed"} :
        /\ WithPc(j, v) \in Jobs /\ WithPc(j, v).pc = v
        /\ WithPc(j, v).base = j.base /\ WithPc(j, v).to = j.to /\ WithPc(j, v).files = j.files
  BY DEF Jobs, WithPc

LEMMA FilesSet ==
    \A j \in Jobs : \A v \in Files :
        /\ WithFiles(j, v) \in Jobs /\ WithFiles(j, v).files = v
        /\ WithFiles(j, v).pc = j.pc /\ WithFiles(j, v).base = j.base /\ WithFiles(j, v).to = j.to
  BY DEF Jobs, WithFiles

LEMMA FilesHas == \A f \in Files : f.pin \in 0..MaxPin /\ f.rec \in 0..MaxPin /\ f.rest \in 0..MaxMain
  BY DEF Files

LEMMA JobsHas ==
    \A j \in Jobs : /\ j.pc \in Working \union {"none", "done", "failed"}
                    /\ j.base \in 1..MaxMain /\ j.to \in 0..MaxPin /\ j.files \in Files
  BY DEF Jobs

LEMMA NoneIs ==
    /\ None \notin Commit /\ None.files \in Files
    /\ None.files.pin = 0 /\ None.files.rec = 0 /\ None.files.rest = 0
    /\ \A s \in Service : Holds(s, None.files)
  BY PinBumpAssumption DEF None, Commit, Files, Holds

LEMMA NoJobIs ==
    /\ NoJob \in Jobs
    /\ NoJob.pc = "none" /\ NoJob.base = 1 /\ NoJob.to = 0
  BY NoneIs, PinBumpAssumption DEF NoJob, Jobs

LEMMA CommitIs ==
    \A on \in 1..MaxMain : \A f \in Files :
        /\ [on |-> on, files |-> f] \in Commit
        /\ [on |-> on, files |-> f] # None
        /\ [on |-> on, files |-> f].on = on /\ [on |-> on, files |-> f].files = f
  BY DEF Commit, None

\* The two refs of each service are refs of their own.
Refs == {"branch", "staging"} \X Service

LEMMA RefsApart ==
    ASSUME NEW s \in Service
    PROVE  /\ Branch(s) \in Refs /\ Scratch(s) \in Refs /\ Branch(s) # Scratch(s)
           /\ \A t \in Service : t # s => /\ Branch(t) # Branch(s) /\ Scratch(t) # Scratch(s)
                                          /\ Branch(t) # Scratch(s) /\ Scratch(t) # Branch(s)
  BY DEF Branch, Scratch, Refs

\* What is on main, and what the newest commit holds.
LEMMA OnMain ==
    ASSUME TypeOK
    PROVE  /\ Len(main) \in Nat /\ Len(main) >= 1 /\ Len(main) <= MaxMain
           /\ MaxMain \in Nat /\ MaxPin \in Nat
           /\ \A i \in 1..Len(main) : main[i] \in [Service -> Files] /\ i \in 1..MaxMain
           /\ \A i \in 1..Len(main), s \in Service : main[i][s] \in Files
           /\ Last(main) = main[Len(main)]
           /\ Last(main) \in [Service -> Files]
           /\ \A s \in Service : Last(main)[s] \in Files
  BY PinBumpAssumption DEF TypeOK, Last

LEMMA OnRegistry == ASSUME TypeOK PROVE \A s \in Service : registry[s] \in 0..MaxPin /\ registry[s] \in Nat
  BY PinBumpAssumption DEF TypeOK

LEMMA LastIs ==
    ASSUME TypeOK, MainIs, NEW s \in Service
    PROVE  /\ Last(main)[s].pin \in 0..MaxPin /\ Last(main)[s].rec \in 0..MaxPin
           /\ Last(main)[s].rest \in 0..MaxMain
           /\ Last(main)[s].pin \in Nat /\ Last(main)[s].rest \in Nat
           /\ Holds(s, Last(main)[s]) /\ Last(main)[s].pin <= registry[s] /\ Last(main)[s].rest < Len(main)
  <1>1. Last(main)[s] \in Files /\ Last(main) = main[Len(main)] /\ Len(main) \in 1..Len(main)
    BY OnMain
  <1>2. /\ Last(main)[s].pin \in 0..MaxPin /\ Last(main)[s].rec \in 0..MaxPin
        /\ Last(main)[s].rest \in 0..MaxMain
    BY <1>1, FilesHas
  <1>3. Holds(s, Last(main)[s]) /\ Last(main)[s].pin <= registry[s] /\ Last(main)[s].rest < Len(main)
    BY <1>1 DEF MainIs
  <1>4. QED
    BY <1>2, <1>3, PinBumpAssumption

LEMMA StartingIs ==
    ASSUME TypeOK, NEW s \in Service, NEW base \in 1..Len(main), NEW to \in 0..MaxPin
    PROVE  /\ Starting(s, base, to) \in Jobs
           /\ Starting(s, base, to) # NoJob
           /\ Starting(s, base, to) \in [pc: {"none", "move"}, base: 1..MaxMain, to: 0..MaxPin, files: Files]
           /\ Starting(s, base, to).pc = "move" /\ Starting(s, base, to).base = base
           /\ Starting(s, base, to).to = to /\ Starting(s, base, to).files = main[base][s]
  <1>1. main[base][s] \in Files /\ base \in 1..MaxMain
    BY OnMain
  <1>2. "move" \in Working
    BY DEF Working
  <1>3. Starting(s, base, to) = [pc |-> "move", base |-> base, to |-> to, files |-> main[base][s]]
    BY DEF Starting
  <1>4. Starting(s, base, to).pc = "move"
    BY <1>3
  <1>5. QED
    BY <1>1, <1>2, <1>3, <1>4, NoJobIs DEF Jobs
-----------------------------------------------------------------------------
\* The jobs of the services but one, as they were, and a step that takes one
\* on, or that sets its files.
Beside(s) == \A t \in Service \ {s} : job'[t] = job[t]

LEMMA StepDone ==
    ASSUME TypeOK, NEW s \in Service, NEW pc \in Working \union {"none", "done", "failed"}, Step(s, pc)
    PROVE  /\ Beside(s) /\ job' \in [Service -> Jobs]
           /\ job'[s].pc = pc /\ job'[s].base = job[s].base /\ job'[s].to = job[s].to
           /\ job'[s].files = job[s].files
  <1> DEFINE j == WithPc(job[s], pc)
  <1>1. job' = [job EXCEPT ![s] = j]
    BY DEF Step, TypeOK, WithPc
  <1>2. job \in [Service -> Jobs]
    BY DEF TypeOK, Jobs
  <1>3. /\ j \in Jobs /\ j.pc = pc /\ j.base = job[s].base /\ j.to = job[s].to /\ j.files = job[s].files
    BY <1>2, PcSet
  <1> HIDE DEF j
  <1>4. job' \in [Service -> Jobs] /\ job'[s] = j /\ Beside(s)
    BY <1>1, <1>2, <1>3 DEF Beside
  <1>5. QED
    BY <1>3, <1>4

LEMMA TargetIs == ASSUME TypeOK, NEW s \in Service PROVE Target(s) \in 0..MaxPin
  BY DEF TypeOK, Target

LEMMA MoveDone ==
    ASSUME TypeOK, NEW s \in Service, Move(s)
    PROVE  /\ At(s, "move")
           /\ \/ Target(s) = job[s].files.pin /\ Step(s, "done")
              \/ /\ Target(s) # job[s].files.pin
                 /\ Beside(s) /\ job' \in [Service -> Jobs]
                 /\ job'[s].pc = IF s \in Own THEN "validate" ELSE "record"
                 /\ job'[s].base = job[s].base /\ job'[s].to = job[s].to
                 /\ job'[s].files = WithPin(job[s].files, Target(s))
  <1>1. At(s, "move")
    BY DEF Move
  <1>2. CASE Target(s) = job[s].files.pin
    BY <1>1, <1>2 DEF Move
  <1>3. CASE Target(s) # job[s].files.pin
    <2> DEFINE f == WithPin(job[s].files, Target(s))
               i == WithFiles(job[s], f)
               pc == IF s \in Own THEN "validate" ELSE "record"
               j == WithPc(i, pc)
    <2>1. job' = [job EXCEPT ![s].files.pin = Target(s), ![s].pc = IF s \in Own THEN "validate" ELSE "record"]
      BY <1>3 DEF Move
    <2>2. job' = [job EXCEPT ![s] = j]
      BY <2>1 DEF TypeOK, WithPin, WithFiles, WithPc
    <2>3. job \in [Service -> Jobs]
      BY DEF TypeOK, Jobs
    <2>4. pc \in Working
      BY DEF Working
    <2>5. f \in Files
      BY <2>3, JobsHas, PinSet, TargetIs
    <2> HIDE DEF f, pc
    <2>6. i \in Jobs /\ i.files = f /\ i.base = job[s].base /\ i.to = job[s].to
      BY <2>3, <2>5, FilesSet
    <2> HIDE DEF i
    <2>7. j \in Jobs /\ j.pc = pc /\ j.files = i.files /\ j.base = i.base /\ j.to = i.to
      BY <2>4, <2>6, PcSet
    <2> HIDE DEF j
    <2>8. job' \in [Service -> Jobs] /\ job'[s] = j /\ Beside(s)
      BY <2>2, <2>3, <2>7 DEF Beside
    <2>9. QED
      BY <1>1, <1>3, <2>6, <2>7, <2>8 DEF f, pc
  <1>4. QED
    BY <1>2, <1>3

LEMMA RecordDone ==
    ASSUME TypeOK, NEW s \in Service, Record(s)
    PROVE  /\ At(s, "record")
           /\ Beside(s) /\ job' \in [Service -> Jobs]
           /\ job'[s].pc = "validate" /\ job'[s].base = job[s].base /\ job'[s].to = job[s].to
           /\ job'[s].files = WithRec(job[s].files,
                                      IF s \in Claiming THEN job[s].files.pin ELSE job[s].files.rec)
  <1> DEFINE rec == IF s \in Claiming THEN job[s].files.pin ELSE job[s].files.rec
             f == WithRec(job[s].files, rec)
             i == WithPc(job[s], "validate")
             j == WithFiles(i, f)
  <1>1. At(s, "record")
    BY DEF Record
  <1>2. job' = [job EXCEPT ![s].pc = "validate",
                           ![s].files.rec = IF s \in Claiming THEN job[s].files.pin ELSE @]
    BY DEF Record
  <1>3. job \in [Service -> Jobs]
    BY DEF TypeOK, Jobs
  <1>4. /\ i \in Jobs /\ i.pc = "validate" /\ i.base = job[s].base /\ i.to = job[s].to
        /\ i.files = job[s].files
    BY <1>3, PcSet DEF Working
  <1>5. job' = [job EXCEPT ![s] = j]
    <2> DEFINE k == [job EXCEPT ![s] = i]
    <2>1. job' = [k EXCEPT ![s].files.rec = rec]
      BY <1>2 DEF WithPc
    <2>2. k[s] = i /\ \A v : [k EXCEPT ![s] = v] = [job EXCEPT ![s] = v]
      BY <1>3
    <2> HIDE DEF k, i, rec
    <2>3. job' = [k EXCEPT ![s] = WithFiles(k[s], WithRec(k[s].files, rec))]
      BY <2>1 DEF WithFiles, WithRec
    <2>4. QED
      BY <1>4, <2>2, <2>3
  <1>6. rec \in 0..MaxPin
    BY <1>3, JobsHas, FilesHas
  <1> HIDE DEF rec
  <1>7. f \in Files
    BY <1>3, <1>6, JobsHas, RecSet
  <1> HIDE DEF f, i
  <1>8. j \in Jobs /\ j.pc = i.pc /\ j.files = f /\ j.base = i.base /\ j.to = i.to
    BY <1>4, <1>7, FilesSet
  <1> HIDE DEF j
  <1>9. job' \in [Service -> Jobs] /\ job'[s] = j /\ Beside(s)
    BY <1>3, <1>5, <1>8 DEF Beside
  <1>10. QED
    BY <1>1, <1>4, <1>8, <1>9 DEF f, rec
-----------------------------------------------------------------------------
\* Main only grows, and so does the registry: what was said of a commit of main
\* is true of it still.
Grows ==
    /\ main' \in Seq([Service -> Files]) /\ Len(main') \in 1..MaxMain /\ Len(main') >= Len(main)
    /\ \A i \in 1..Len(main) : main'[i] = main[i]
    /\ registry' \in [Service -> 0..MaxPin]
    /\ \A s \in Service : registry'[s] >= registry[s]

LEMMA WorldStands == ASSUME TypeOK, UNCHANGED world PROVE Grows
  BY DEF TypeOK, Grows, world

LEMMA JobStands ==
    ASSUME TypeOK, Grows, NEW s \in Service, JobIs(s), job'[s] = job[s],
           ref'[Scratch(s)] = ref[Scratch(s)]
    PROVE  JobIs(s)'
  <1>1. /\ job[s].base \in 1..Len(main) /\ job[s].base \in 1..Len(main')
        /\ main'[job[s].base] = main[job[s].base] /\ registry'[s] >= registry[s]
        /\ registry'[s] \in Nat /\ registry[s] \in Nat
    BY OnMain, OnRegistry DEF JobIs, Based, Grows
  <1>2. job[s].to \in Nat /\ job[s].files.pin \in Nat
    BY JobsHas, FilesHas DEF TypeOK, Jobs
  <1>3. Based(s)'
    BY <1>1, <1>2 DEF JobIs, Based, At
  <1>4. Carries(s)'
    BY <1>1, <1>2 DEF JobIs, Carries, At, Holds
  <1>5. Bare(s, job[s].base)' = Bare(s, job[s].base) /\ Built(s)' = Built(s)
    BY <1>1 DEF Bare, Built, Base
  <1>6. Scratch(s)' = Scratch(s)
    BY DEF Scratch
  <1>7. Staged(s)'
    BY <1>1, <1>5, <1>6 DEF JobIs, Staged, At
  <1>8. QED
    BY <1>3, <1>4, <1>7 DEF JobIs

LEMMA WaitsStands ==
    ASSUME TypeOK, Grows, NEW s \in Own, Waits(s), dispatched'[s] = dispatched[s]
    PROVE  Waits(s)'
  <1>1. /\ dispatched[s].base \in 1..Len(main) /\ dispatched[s].base \in 1..Len(main')
        /\ main'[dispatched[s].base] = main[dispatched[s].base] /\ registry'[s] >= registry[s]
        /\ registry'[s] \in Nat /\ registry[s] \in Nat
    BY OnMain, PinBumpAssumption DEF Waits, Grows, TypeOK
  <1>2. dispatched[s].to \in Nat
    BY PinBumpAssumption DEF TypeOK
  <1>3. NoJob' = NoJob
    BY DEF NoJob, None
  <1>4. QED
    BY <1>1, <1>2, <1>3 DEF Waits

LEMMA ProposedStands ==
    ASSUME TypeOK, Grows, NEW s \in Service, NEW c \in Commit \union {None}, Proposed(s, c)
    PROVE  Proposed(s, c)'
  <1> SUFFICES ASSUME c # None PROVE Proposed(s, c)'
    BY DEF Proposed, None
  <1>1. /\ c.on \in 1..Len(main) /\ c.on \in 1..Len(main')
        /\ main'[c.on] = main[c.on] /\ registry'[s] >= registry[s]
        /\ registry'[s] \in Nat /\ registry[s] \in Nat
    BY OnMain DEF Proposed, Grows, TypeOK
  <1>2. c.files.pin \in Nat
    BY FilesHas DEF Commit
  <1>3. QED
    BY <1>1, <1>2 DEF Proposed, Holds

LEMMA ProposesStands ==
    ASSUME TypeOK, Grows, NEW s \in Service, Proposes(s), ref'[Branch(s)] = ref[Branch(s)]
    PROVE  Proposes(s)'
  <1>1. ref[Branch(s)] \in Commit \union {None}
    BY RefsApart DEF TypeOK, Refs
  <1>2. Proposed(s, ref[Branch(s)])'
    <2>1. PICK c \in Commit \union {None} : c = ref[Branch(s)]
      BY <1>1
    <2>2. Proposed(s, c)'
      BY <2>1, ProposedStands DEF Proposes
    <2>3. ref'[Branch(s)] = c /\ Branch(s)' = Branch(s)
      BY <2>1 DEF Branch
    <2>4. QED
      BY <2>2, <2>3 DEF Proposed
  <1>3. QED
    BY <1>2 DEF Proposes

LEMMA OpenStands ==
    ASSUME NEW s \in Service, Open(s), ref'[Branch(s)] = ref[Branch(s)], armed'[s] = armed[s]
    PROVE  Open(s)'
  BY DEF Open, Branch, None

\* One branch set.
RefSet(r, c) == ref' = [ref EXCEPT ![r] = c]

LEMMA RefDone ==
    ASSUME TypeOK, NEW r \in Refs, NEW c \in Commit \union {None}, RefSet(r, c)
    PROVE  /\ ref' \in [Refs -> Commit \union {None}] /\ ref'[r] = c
           /\ \A q \in Refs : q # r => ref'[q] = ref[q]
  BY DEF TypeOK, Refs, RefSet
-----------------------------------------------------------------------------
\* What lands on main is a service's files, with the recordings of the pin, and
\* neither the pin nor what people wrote goes back.
Lands(s) ==
    /\ Len(main) < MaxMain
    /\ \E files \in Files :
          /\ main' = Append(main, [Last(main) EXCEPT ![s] = files])
          /\ Holds(s, files)
          /\ files.pin >= Last(main)[s].pin /\ files.pin <= registry[s]
          /\ files.rest >= Last(main)[s].rest /\ files.rest <= Last(main)[s].rest + 1

NothingBack ==
    \A s \in Service : /\ Last(main')[s].rest >= Last(main)[s].rest
                       /\ Last(main')[s].pin >= Last(main)[s].pin

LEMMA Landed ==
    ASSUME TypeOK, MainIs, NEW s \in Service, Lands(s), UNCHANGED registry
    PROVE  Grows /\ MainIs' /\ NothingBack
  <1> DEFINE n == Len(main)
  <1>1. PICK files \in Files :
          /\ main' = Append(main, [Last(main) EXCEPT ![s] = files])
          /\ Holds(s, files)
          /\ files.pin >= Last(main)[s].pin /\ files.pin <= registry[s]
          /\ files.rest >= Last(main)[s].rest /\ files.rest <= Last(main)[s].rest + 1
    BY DEF Lands
  <1> DEFINE new == [Last(main) EXCEPT ![s] = files]
  <1>2. n \in Nat /\ n >= 1 /\ n < MaxMain /\ MaxMain \in Nat /\ main \in Seq([Service -> Files])
    BY OnMain DEF Lands, TypeOK
  <1>3. new \in [Service -> Files] /\ new[s] = files /\ \A t \in Service \ {s} : new[t] = Last(main)[t]
    BY OnMain
  <1>4. main' = Append(main, new)
    BY <1>1
  <1> HIDE DEF new
  <1>5. /\ main' \in Seq([Service -> Files]) /\ Len(main') = n + 1
        /\ main'[n + 1] = new /\ \A i \in 1..n : main'[i] = main[i]
    BY <1>2, <1>3, <1>4
  <1>6. /\ Last(main') = new /\ Last(main) = main[n]
        /\ \A t \in Service : Last(main)[t] \in Files
    BY <1>5, OnMain DEF Last
  <1>7. Grows
    BY <1>2, <1>5 DEF TypeOK, Grows
  <1>8. ASSUME NEW t \in Service
        PROVE  /\ Holds(t, new[t]) /\ new[t].pin <= registry[t] /\ new[t].rest < n + 1
               /\ new[t].rest >= Last(main)[t].rest /\ new[t].pin >= Last(main)[t].pin
    <2>1. /\ Holds(t, Last(main)[t]) /\ Last(main)[t].pin <= registry[t] /\ Last(main)[t].rest < n
          /\ Last(main)[t].pin \in Nat /\ Last(main)[t].rest \in Nat /\ registry[t] \in Nat
      BY LastIs, OnRegistry
    <2>2. CASE t = s
      <3>1. files.pin \in Nat /\ files.rest \in Nat
        BY FilesHas, PinBumpAssumption
      <3>2. QED
        BY <1>1, <1>2, <1>3, <2>1, <2>2, <3>1
    <2>3. CASE t # s
      BY <1>2, <1>3, <2>1, <2>3
    <2>4. QED
      BY <2>2, <2>3
  <1>9. MainIs'
    <2> SUFFICES ASSUME NEW i \in 1..Len(main'), NEW t \in Service
                 PROVE  Holds(t, main'[i][t]) /\ main'[i][t].pin <= registry'[t] /\ main'[i][t].rest < i
      BY DEF MainIs, Holds
    <2>1. CASE i \in 1..n
      BY <1>5, <2>1 DEF MainIs
    <2>2. CASE i = n + 1
      BY <1>5, <1>8, <2>2
    <2>3. QED
      BY <1>2, <1>5, <2>1, <2>2
  <1>10. NothingBack
    BY <1>6, <1>8 DEF NothingBack
  <1>11. QED
    BY <1>7, <1>9, <1>10

\* Somebody's edit lands so.
LEMMA EditDone ==
    ASSUME TypeOK, MainIs, NEW s \in Service, Edit(s)
    PROVE  Lands(s) /\ UNCHANGED <<registry, ref, run, job, dispatched, armed>>
  <1> DEFINE was == Last(main)[s]
             edited == WithRest(was, was.rest + 1)
             rec == IF s \in Claiming THEN registry[s] ELSE was.rec
             moved == WithRec(WithPin(was, registry[s]), rec)
  <1>1. Len(main) < MaxMain /\ UNCHANGED <<registry, ref, run, job, dispatched, armed>>
    BY DEF Edit
  <1>2. /\ was \in Files /\ was.pin \in 0..MaxPin /\ was.rest \in Nat /\ was.rec \in 0..MaxPin
        /\ registry[s] \in 0..MaxPin
        /\ Holds(s, was) /\ was.pin <= registry[s] /\ was.rest < Len(main)
    BY OnMain, LastIs, OnRegistry
  <1>3. \E files \in {edited, moved} : main' = Append(main, [Last(main) EXCEPT ![s] = files])
    BY DEF Edit, WithRest, WithRec, WithPin
  <1>4. was.rest + 1 \in 0..MaxMain
    BY <1>1, <1>2, OnMain
  <1>5. /\ edited \in Files /\ edited.rest = was.rest + 1 /\ edited.pin = was.pin /\ edited.rec = was.rec
    BY <1>2, <1>4, RestSet
  <1>6. rec \in 0..MaxPin
    BY <1>2
  <1>7. /\ moved \in Files /\ moved.rest = was.rest /\ moved.pin = registry[s] /\ moved.rec = rec
    <2> DEFINE pinned == WithPin(was, registry[s])
    <2>1. pinned \in Files /\ pinned.rest = was.rest /\ pinned.pin = registry[s]
      BY <1>2, PinSet
    <2> HIDE DEF pinned, rec, was
    <2>2. /\ WithRec(pinned, rec) \in Files /\ WithRec(pinned, rec).rest = pinned.rest
          /\ WithRec(pinned, rec).pin = pinned.pin /\ WithRec(pinned, rec).rec = rec
      BY <1>6, <2>1, RecSet
    <2>3. QED
      BY <2>1, <2>2 DEF pinned
  <1>8. Holds(s, edited) /\ Holds(s, moved)
    BY <1>2, <1>5, <1>7 DEF Holds
  <1> HIDE DEF edited, moved, rec
  <1>9. \A files \in {edited, moved} :
          /\ files \in Files /\ Holds(s, files)
          /\ files.pin >= was.pin /\ files.pin <= registry[s]
          /\ files.rest >= was.rest /\ files.rest <= was.rest + 1
    <2>1. was.pin \in Int /\ was.rest \in Int /\ registry[s] \in Int
      BY <1>2, OnMain
    <2>2. QED
      BY <1>2, <1>5, <1>7, <1>8, <2>1
  <1>10. Lands(s)
    BY <1>1, <1>3, <1>9 DEF Lands
  <1>11. QED
    BY <1>1, <1>10

\* And so does a pull request that merges: a line of its commit that is not its
\* base's is as main has it, or is that of main's since.
LEMMA MergeDone ==
    ASSUME TypeOK, MainIs, NEW s \in Service, Proposes(s), Merge(s)
    PROVE  /\ Lands(s) /\ UNCHANGED <<registry, run, job, dispatched>>
           /\ armed' = [armed EXCEPT ![s] = None]
           /\ ref' = ref \/ RefSet(Branch(s), None)
  <1> DEFINE now == Last(main)[s]
             was == main[armed[s].on][s]
             new == armed[s].files
             merged == [line \in {"pin", "rec", "rest"} |-> Merged(was[line], now[line], new[line])]
  <1>1. /\ armed[s] # None /\ ref[Branch(s)] = armed[s] /\ Len(main) < MaxMain
        /\ Holds(s, new) /\ UNCHANGED <<registry, run, job, dispatched>>
        /\ armed' = [armed EXCEPT ![s] = None]
        /\ ref' = ref \/ RefSet(Branch(s), None)
    BY DEF Merge, RefSet
  <1>2. /\ \A line \in {"pin", "rec", "rest"} : ~Clash(was[line], now[line], new[line])
        /\ main' = Append(main, [Last(main) EXCEPT ![s] = merged])
    BY DEF Merge
  <1>3. /\ armed[s].on \in 1..Len(main)
        /\ new.pin > was.pin /\ new.pin <= registry[s] /\ new.rest = was.rest
    BY <1>1 DEF Proposes, Proposed
  <1>4. armed[s] \in Commit
    BY <1>1 DEF TypeOK
  <1>5. was \in Files /\ now \in Files /\ new \in Files
    <2>1. new \in Files
      BY <1>4 DEF Commit
    <2>2. QED
      BY <1>3, <2>1, OnMain
  <1>6. /\ Holds(s, was) /\ Holds(s, now) /\ now.pin <= registry[s]
    BY <1>3, LastIs DEF MainIs
  <1> HIDE DEF was, now, new
  <1>7. /\ was.pin \in 0..MaxPin /\ was.rec \in 0..MaxPin /\ was.rest \in 0..MaxMain
        /\ now.pin \in 0..MaxPin /\ now.rec \in 0..MaxPin /\ now.rest \in 0..MaxMain
        /\ new.pin \in 0..MaxPin /\ new.rec \in 0..MaxPin /\ new.rest \in 0..MaxMain
    BY <1>5, FilesHas
  <1>8. /\ merged.pin = Merged(was.pin, now.pin, new.pin)
        /\ merged.rec = Merged(was.rec, now.rec, new.rec)
        /\ merged.rest = Merged(was.rest, now.rest, new.rest)
        /\ ~Clash(was.pin, now.pin, new.pin)
    BY <1>2
  <1>9. merged \in Files
    <2>1. \A line \in {"pin", "rec", "rest"} : merged[line] = Merged(was[line], now[line], new[line])
      OBVIOUS
    <2>2. merged["pin"] \in 0..MaxPin /\ merged["rec"] \in 0..MaxPin /\ merged["rest"] \in 0..MaxMain
      BY <1>7 DEF Merged
    <2>3. QED
      BY <2>2 DEF Files
  <1> HIDE DEF merged
  <1>10. merged.rest = now.rest
    BY <1>3, <1>8 DEF Merged
  <1>11. merged.pin = new.pin /\ (now.pin = was.pin \/ now.pin = new.pin)
    BY <1>3, <1>7, <1>8, OnMain DEF Merged, Clash
  <1>12. Holds(s, merged)
    <2> SUFFICES ASSUME s \in Claiming PROVE merged.rec = merged.pin
      BY DEF Holds
    <2>1. was.rec = was.pin /\ now.rec = now.pin /\ new.rec = new.pin
      BY <1>1, <1>6 DEF Holds, new
    <2>2. QED
      BY <1>8, <2>1 DEF Merged
  <1>13. /\ merged.pin >= now.pin /\ merged.pin <= registry[s]
         /\ merged.rest >= now.rest /\ merged.rest <= now.rest + 1
    BY <1>3, <1>7, <1>10, <1>11, OnMain
  <1>14. Lands(s)
    BY <1>1, <1>2, <1>9, <1>12, <1>13 DEF Lands, now
  <1>15. QED
    BY <1>1, <1>14
-----------------------------------------------------------------------------
\* What a job that goes on has to show, in the world as it is.
LEMMA JobGoesOn ==
    ASSUME TypeOK, UNCHANGED world, NEW s \in Service, Based(s), ~At(s, "none"),
           job'[s].base = job[s].base, job'[s].to = job[s].to
    PROVE  Based(s)'
  BY DEF Based, At, world

LEMMA JobOver ==
    ASSUME TypeOK, UNCHANGED world, NEW s \in Service, Based(s), ~At(s, "none"),
           job'[s].base = job[s].base, job'[s].to = job[s].to, job'[s].pc \in {"done", "failed"}
    PROVE  JobIs(s)'
  <1>1. Based(s)'
    BY JobGoesOn
  <1>2. Carries(s)' /\ Staged(s)'
    BY DEF Carries, Staged, At, Working
  <1>3. QED
    BY <1>1, <1>2 DEF JobIs

\* One that has moved its pin, and keeps its files.
LEMMA JobCarriesOn ==
    ASSUME TypeOK, UNCHANGED world, NEW s \in Service, JobIs(s), job[s].pc \in Working \ {"move"},
           job'[s].base = job[s].base, job'[s].to = job[s].to, job'[s].files = job[s].files,
           job'[s].pc \in Working \ {"move"},
           job'[s].pc \notin {"record", "validate"} => Holds(s, job[s].files)
    PROVE  Based(s)' /\ Carries(s)'
  <1>1. Based(s)'
    BY JobGoesOn DEF JobIs, At, Working
  <1>2. UNCHANGED <<main, registry>>
    BY DEF world
  <1>3. Carries(s)'
    BY <1>2 DEF JobIs, Carries, At, Holds
  <1>4. QED
    BY <1>1, <1>3

\* What a job's step makes of its own state, its two refs and its pull request,
\* and leaves of all else.
JobMade(s) ==
    /\ UNCHANGED <<world, run, dispatched>>
    /\ job' \in [Service -> Jobs] /\ Beside(s) /\ JobIs(s)'
    /\ ref' \in [Refs -> Commit \union {None}]
    /\ \A t \in Service \ {s} : ref'[Branch(t)] = ref[Branch(t)] /\ ref'[Scratch(t)] = ref[Scratch(t)]
    /\ Proposes(s)'
    /\ armed' \in [Service -> Commit \union {None}] /\ Open(s)'
    /\ \A t \in Service \ {s} : armed'[t] = armed[t]

LEMMA RefsStay ==
    ASSUME TypeOK, NEW s \in Service, Proposes(s), Open(s), UNCHANGED <<world, run, dispatched, ref, armed>>,
           job' \in [Service -> Jobs], Beside(s), JobIs(s)'
    PROVE  JobMade(s)
  <1>1. ref' = ref /\ armed' = armed /\ Branch(s)' = Branch(s)
    BY DEF Branch
  <1>2. Proposes(s)'
    BY <1>1, WorldStands, ProposesStands
  <1>3. Open(s)'
    BY <1>1, OpenStands
  <1>4. ref' \in [Refs -> Commit \union {None}] /\ armed' \in [Service -> Commit \union {None}]
    BY <1>1 DEF TypeOK, Refs
  <1>5. QED
    BY <1>1, <1>2, <1>3, <1>4 DEF JobMade

\* A step that sets the job's scratch ref, and no other.
LEMMA ScratchMade ==
    ASSUME TypeOK, NEW s \in Service, Proposes(s), Open(s), UNCHANGED <<world, run, dispatched, armed>>,
           job' \in [Service -> Jobs], Beside(s), JobIs(s)',
           NEW c \in Commit \union {None}, RefSet(Scratch(s), c)
    PROVE  JobMade(s)
  <1>1. /\ ref' \in [Refs -> Commit \union {None}]
        /\ \A q \in Refs : q # Scratch(s) => ref'[q] = ref[q]
    BY RefDone, RefsApart
  <1>2. ref'[Branch(s)] = ref[Branch(s)]
    BY <1>1, RefsApart
  <1>3. \A t \in Service \ {s} : ref'[Branch(t)] = ref[Branch(t)] /\ ref'[Scratch(t)] = ref[Scratch(t)]
    BY <1>1, RefsApart
  <1>4. armed' = armed
    OBVIOUS
  <1>5. Proposes(s)'
    BY <1>2, WorldStands, ProposesStands
  <1>6. Open(s)'
    BY <1>2, <1>4, OpenStands
  <1>7. armed' \in [Service -> Commit \union {None}]
    BY <1>4 DEF TypeOK
  <1>8. QED
    BY <1>1, <1>3, <1>4, <1>5, <1>6, <1>7 DEF JobMade

\* The commit a job builds on main's, and main's own, are commits.
LEMMA BuiltIs ==
    ASSUME TypeOK, NEW s \in Service, Based(s)
    PROVE  /\ Built(s) \in Commit /\ Built(s) # None /\ Built(s).on = job[s].base /\ Built(s).files = job[s].files
           /\ Bare(s, job[s].base) \in Commit /\ Bare(s, job[s].base) # None
           /\ Base(s) = job[s].base
  <1>1. job[s].base \in 1..MaxMain /\ job[s].files \in Files /\ main[job[s].base][s] \in Files
    BY OnMain, JobsHas DEF Based, TypeOK, Jobs
  <1>2. QED
    BY <1>1, CommitIs DEF Built, Bare, Base

LEMMA WorkingIs ==
    /\ Working = {"move", "record", "validate", "stage", "commit", "across", "drop", "open"}
    /\ "none" \notin Working
  BY DEF Working

LEMMA MoveMakes ==
    ASSUME TypeOK, MainIs, NEW s \in Service, JobIs(s), Proposes(s), Open(s), Move(s)
    PROVE  JobMade(s)
  <1>1. UNCHANGED <<world, ref, run, dispatched, armed>>
    BY DEF Move
  <1>2. At(s, "move") /\ ~At(s, "none")
    BY MoveDone DEF At
  <1>3. CASE Step(s, "done")
    <2>1. /\ Beside(s) /\ job' \in [Service -> Jobs] /\ job'[s].pc = "done"
          /\ job'[s].base = job[s].base /\ job'[s].to = job[s].to
      BY <1>3, StepDone
    <2>2. JobIs(s)'
      BY <1>1, <1>2, <2>1, JobOver DEF JobIs
    <2>3. QED
      BY <1>1, <2>1, <2>2, RefsStay
  <1>4. CASE /\ Target(s) # job[s].files.pin
             /\ Beside(s) /\ job' \in [Service -> Jobs]
             /\ job'[s].pc = IF s \in Own THEN "validate" ELSE "record"
             /\ job'[s].base = job[s].base /\ job'[s].to = job[s].to
             /\ job'[s].files = WithPin(job[s].files, Target(s))
    <2> DEFINE was == main[job[s].base][s]
    <2>1. job[s].files = was /\ job[s].base \in 1..Len(main)
      BY <1>2 DEF JobIs, Carries, Based
    <2>2. was \in Files /\ was.pin \in Nat /\ was.pin <= registry[s]
      BY <2>1, OnMain, OnRegistry, FilesHas DEF MainIs
    <2>3. Target(s) \in 0..MaxPin /\ Target(s) \in Nat /\ Target(s) <= registry[s] /\ Target(s) >= was.pin
      <3>1. Target(s) \in 0..MaxPin
        BY TargetIs
      <3>2. CASE s \in Own
        BY <1>2, <3>1, <3>2, OnMain DEF Target, JobIs, Based
      <3>3. CASE s \notin Own
        BY <2>2, <3>1, <3>3, OnRegistry DEF Target
      <3>4. QED
        BY <3>2, <3>3, <3>1
    <2>4. /\ job'[s].files.pin = Target(s) /\ job'[s].files.rest = was.rest
      BY <1>4, <2>1, <2>2, <2>3, PinSet
    <2>5. UNCHANGED <<main, registry>>
      BY <1>1 DEF world
    <2>6. job'[s].files.pin > was.pin
      BY <1>4, <2>1, <2>2, <2>3, <2>4
    <2>7. job'[s].pc \in {"validate", "record"}
      BY <1>4
    <2>8. Carries(s)' /\ Staged(s)'
      BY <1>4, <2>3, <2>4, <2>5, <2>6, <2>7 DEF Carries, Staged, At
    <2>9. Based(s)'
      BY <1>1, <1>2, <1>4, JobGoesOn DEF JobIs
    <2>10. QED
      BY <1>1, <1>4, <2>8, <2>9, RefsStay DEF JobIs
  <1>5. QED
    BY <1>3, <1>4, MoveDone

LEMMA RecordMakes ==
    ASSUME TypeOK, NEW s \in Service, JobIs(s), Proposes(s), Open(s), Record(s)
    PROVE  JobMade(s)
  <1>1. UNCHANGED <<world, ref, run, dispatched, armed>> /\ UNCHANGED <<main, registry>>
    BY DEF Record, world
  <1> DEFINE rec == IF s \in Claiming THEN job[s].files.pin ELSE job[s].files.rec
  <1>2. /\ At(s, "record") /\ ~At(s, "none")
        /\ Beside(s) /\ job' \in [Service -> Jobs]
        /\ job'[s].pc = "validate" /\ job'[s].base = job[s].base /\ job'[s].to = job[s].to
        /\ job'[s].files = WithRec(job[s].files, rec)
    BY RecordDone DEF At
  <1>3. job[s].files \in Files
    BY JobsHas DEF TypeOK, Jobs
  <1>4. rec \in 0..MaxPin
    BY <1>3, FilesHas
  <1> HIDE DEF rec
  <1>5. job'[s].files.pin = job[s].files.pin /\ job'[s].files.rest = job[s].files.rest
    BY <1>2, <1>3, <1>4, RecSet
  <1>6. Carries(s)' /\ Staged(s)'
    BY <1>1, <1>2, <1>5 DEF JobIs, Carries, Staged, At, Working
  <1>7. Based(s)'
    BY <1>1, <1>2, JobGoesOn DEF JobIs
  <1>8. QED
    BY <1>1, <1>2, <1>6, <1>7, RefsStay DEF JobIs

\* A job that fails, and one that is validated.
LEMMA EndsMakes ==
    ASSUME TypeOK, NEW s \in Service, JobIs(s), Proposes(s), Open(s), ~At(s, "none"),
           NEW pc \in {"done", "failed"}, Step(s, pc), UNCHANGED <<world, ref, run, dispatched, armed>>
    PROVE  JobMade(s)
  <1>1. /\ Beside(s) /\ job' \in [Service -> Jobs] /\ job'[s].pc = pc
        /\ job'[s].base = job[s].base /\ job'[s].to = job[s].to
    BY StepDone
  <1>2. JobIs(s)'
    BY <1>1, JobOver DEF JobIs
  <1>3. QED
    BY <1>1, <1>2, RefsStay

LEMMA ValidateMakes ==
    ASSUME TypeOK, NEW s \in Service, JobIs(s), Proposes(s), Open(s), Validate(s)
    PROVE  JobMade(s)
  <1>1. UNCHANGED <<world, ref, run, dispatched, armed>> /\ At(s, "validate") /\ ~At(s, "none")
    BY DEF Validate, At
  <1>2. CASE ~Holds(s, job[s].files)
    <2>1. Step(s, "failed")
      BY <1>2 DEF Validate
    <2>2. QED
      BY <1>1, <2>1, EndsMakes
  <1>3. CASE Holds(s, job[s].files)
    <2>1. Step(s, "stage")
      BY <1>3 DEF Validate
    <2>2. /\ Beside(s) /\ job' \in [Service -> Jobs] /\ job'[s].pc = "stage"
          /\ job'[s].base = job[s].base /\ job'[s].to = job[s].to /\ job'[s].files = job[s].files
      BY <2>1, StepDone DEF Working
    <2>3. Based(s)' /\ Carries(s)'
      BY <1>1, <1>3, <2>2, JobCarriesOn DEF At, Working
    <2>4. Staged(s)'
      BY <2>2 DEF Staged, At
    <2>5. QED
      BY <1>1, <2>2, <2>3, <2>4, RefsStay DEF JobIs
  <1>4. QED
    BY <1>2, <1>3

\* From where it is staged on, a job's files hold.
LEMMA StagedGoesOn ==
    ASSUME TypeOK, NEW s \in Service, JobIs(s), job[s].pc \in {"stage", "commit", "across", "drop", "open"},
           NEW pc \in {"commit", "across", "drop", "open"}, Step(s, pc), UNCHANGED world
    PROVE  /\ Beside(s) /\ job' \in [Service -> Jobs] /\ job'[s].pc = pc
           /\ job'[s].base = job[s].base /\ job'[s].files = job[s].files
           /\ Based(s)' /\ Carries(s)'
  <1>1. /\ Beside(s) /\ job' \in [Service -> Jobs] /\ job'[s].pc = pc
        /\ job'[s].base = job[s].base /\ job'[s].to = job[s].to /\ job'[s].files = job[s].files
    BY StepDone DEF Working
  <1>2. Holds(s, job[s].files)
    BY DEF JobIs, Carries, Working
  <1>3. Based(s)' /\ Carries(s)'
    BY <1>1, <1>2, JobCarriesOn DEF Working
  <1>4. QED
    BY <1>1, <1>3

LEMMA StageMakes ==
    ASSUME TypeOK, NEW s \in Service, JobIs(s), Proposes(s), Open(s), Stage(s)
    PROVE  JobMade(s)
  <1>1. /\ UNCHANGED <<world, run, dispatched, armed>> /\ At(s, "stage") /\ Step(s, "commit")
        /\ RefSet(Scratch(s), Bare(s, job[s].base))
    BY DEF Stage, RefSet, Base
  <1>2. /\ Beside(s) /\ job' \in [Service -> Jobs] /\ job'[s].pc = "commit"
        /\ job'[s].base = job[s].base /\ Based(s)' /\ Carries(s)'
    BY <1>1, StagedGoesOn DEF At
  <1>3. Bare(s, job[s].base) \in Commit
    BY BuiltIs DEF JobIs
  <1>4. ref'[Scratch(s)] = Bare(s, job[s].base)
    BY <1>1, <1>3, RefDone, RefsApart
  <1>5. Staged(s)'
    <2>1. Bare(s, job[s].base)' = Bare(s, job[s].base) /\ Scratch(s)' = Scratch(s)
      BY <1>1, <1>2 DEF Bare, Scratch, world
    <2>2. QED
      BY <1>2, <1>4, <2>1 DEF Staged, At
  <1>6. QED
    BY <1>1, <1>2, <1>3, <1>5, ScratchMade DEF JobIs

LEMMA CommitMakes ==
    ASSUME TypeOK, NEW s \in Service, JobIs(s), Proposes(s), Open(s), CommitOnScratch(s)
    PROVE  JobMade(s)
  <1>1. /\ UNCHANGED <<world, run, dispatched, armed>> /\ At(s, "commit") /\ Step(s, "across")
        /\ RefSet(Scratch(s), Built(s))
    BY DEF CommitOnScratch, RefSet
  <1>2. /\ Beside(s) /\ job' \in [Service -> Jobs] /\ job'[s].pc = "across"
        /\ job'[s].base = job[s].base /\ job'[s].files = job[s].files /\ Based(s)' /\ Carries(s)'
    BY <1>1, StagedGoesOn DEF At
  <1>3. Built(s) \in Commit
    BY BuiltIs DEF JobIs
  <1>4. ref'[Scratch(s)] = Built(s)
    BY <1>1, <1>3, RefDone, RefsApart
  <1>5. Staged(s)'
    <2>1. Built(s)' = Built(s) /\ Scratch(s)' = Scratch(s)
      BY <1>2 DEF Built, Base, Scratch
    <2>2. QED
      BY <1>2, <1>4, <2>1 DEF Staged, At
  <1>6. QED
    BY <1>1, <1>2, <1>3, <1>5, ScratchMade DEF JobIs

LEMMA AcrossMakes ==
    ASSUME TypeOK, NEW s \in Service, JobIs(s), Proposes(s), Open(s), MoveAcross(s)
    PROVE  JobMade(s)
  <1>1. /\ UNCHANGED <<world, run, dispatched, armed>> /\ At(s, "across") /\ Step(s, "drop")
        /\ ref[Scratch(s)] = Built(s)
        /\ RefSet(Branch(s), Built(s))
    BY DEF MoveAcross, RefSet, JobIs, Staged
  <1>2. /\ Beside(s) /\ job' \in [Service -> Jobs] /\ job'[s].pc = "drop"
        /\ job'[s].base = job[s].base /\ Based(s)' /\ Carries(s)'
    BY <1>1, StagedGoesOn DEF At
  <1>3. JobIs(s)'
    BY <1>2 DEF JobIs, Staged, At
  <1>4. Built(s) \in Commit /\ Built(s) # None /\ Built(s).on = job[s].base /\ Built(s).files = job[s].files
    BY BuiltIs DEF JobIs
  <1>5. Proposed(s, Built(s))
    <2>1. "across" \in Working \ {"move", "record", "validate"}
      BY DEF Working
    <2>2. QED
      BY <1>1, <1>4, <2>1 DEF Proposed, JobIs, Based, Carries, At
  <1>6. /\ ref' \in [Refs -> Commit \union {None}] /\ ref'[Branch(s)] = Built(s)
        /\ \A q \in Refs : q # Branch(s) => ref'[q] = ref[q]
    BY <1>1, <1>4, RefDone, RefsApart
  <1>7. \A t \in Service \ {s} : ref'[Branch(t)] = ref[Branch(t)] /\ ref'[Scratch(t)] = ref[Scratch(t)]
    BY <1>6, RefsApart
  <1>8. Proposes(s)'
    <2>1. PICK c \in Commit : c = Built(s)
      BY <1>4
    <2>2. Proposed(s, c)'
      BY <1>1, <1>5, <2>1, WorldStands, ProposedStands
    <2>3. ref'[Branch(s)] = c /\ Branch(s)' = Branch(s)
      BY <1>6, <2>1 DEF Branch
    <2>4. QED
      BY <2>2, <2>3 DEF Proposes, Proposed
  <1>9. Open(s)' /\ armed' \in [Service -> Commit \union {None}]
    BY <1>1, <1>4, <1>6 DEF Open, Branch, None, TypeOK
  <1>10. QED
    BY <1>1, <1>2, <1>3, <1>6, <1>7, <1>8, <1>9 DEF JobMade

LEMMA DropMakes ==
    ASSUME TypeOK, NEW s \in Service, JobIs(s), Proposes(s), Open(s), Drop(s)
    PROVE  JobMade(s)
  <1>1. /\ UNCHANGED <<world, run, dispatched, armed>> /\ At(s, "drop") /\ Step(s, "open")
        /\ UNCHANGED ref \/ RefSet(Scratch(s), None)
    BY DEF Drop, RefSet
  <1>2. /\ Beside(s) /\ job' \in [Service -> Jobs] /\ job'[s].pc = "open"
        /\ job'[s].base = job[s].base /\ Based(s)' /\ Carries(s)'
    BY <1>1, StagedGoesOn DEF At
  <1>3. JobIs(s)'
    BY <1>2 DEF JobIs, Staged, At
  <1>4. QED
    BY <1>1, <1>2, <1>3, RefsStay, ScratchMade

LEMMA OpenMakes ==
    ASSUME TypeOK, NEW s \in Service, JobIs(s), Proposes(s), Open(s), OpenOrEdit(s)
    PROVE  JobMade(s)
  <1>1. UNCHANGED <<world, ref, run, dispatched>> /\ At(s, "open") /\ ~At(s, "none")
    BY DEF OpenOrEdit, At
  <1>2. CASE Step(s, "failed") /\ UNCHANGED armed
    BY <1>1, <1>2, EndsMakes
  <1>3. CASE /\ ref[Branch(s)] = Built(s) /\ armed' = [armed EXCEPT ![s] = Built(s)] /\ Step(s, "done")
    <2>1. /\ Beside(s) /\ job' \in [Service -> Jobs] /\ job'[s].pc = "done"
          /\ job'[s].base = job[s].base /\ job'[s].to = job[s].to
      BY <1>3, StepDone
    <2>2. JobIs(s)'
      BY <1>1, <2>1, JobOver DEF JobIs
    <2>3. Built(s) \in Commit /\ Built(s) # None
      BY BuiltIs DEF JobIs
    <2>4. /\ armed' \in [Service -> Commit \union {None}] /\ \A t \in Service \ {s} : armed'[t] = armed[t]
      BY <1>3, <2>3 DEF TypeOK
    <2>5. Proposes(s)'
      BY <1>1, WorldStands, ProposesStands
    <2>6. Open(s)'
      BY <1>1, <1>3, <2>3 DEF Open, Branch, None
    <2>7. ref' = ref /\ ref \in [Refs -> Commit \union {None}]
      BY <1>1 DEF TypeOK, Refs
    <2>8. QED
      BY <1>1, <2>1, <2>2, <2>4, <2>5, <2>6, <2>7 DEF JobMade
  <1>4. QED
    BY <1>2, <1>3 DEF OpenOrEdit

LEMMA JobMakes ==
    ASSUME TypeOK, MainIs, NEW s \in Service, JobIs(s), Proposes(s), Open(s), Job(s) \/ Fail(s)
    PROVE  JobMade(s)
  <1>1. CASE Fail(s)
    <2>1. Step(s, "failed") /\ ~At(s, "none") /\ UNCHANGED <<world, ref, run, dispatched, armed>>
      BY <1>1, WorkingIs DEF Fail, At
    <2>2. QED
      BY <2>1, EndsMakes
  <1>2. QED
    BY <1>1, MoveMakes, RecordMakes, ValidateMakes, StageMakes, CommitMakes, AcrossMakes, DropMakes, OpenMakes
       DEF Job
-----------------------------------------------------------------------------
\* A job that starts, one there is not, and a bump that waits.
LEMMA StartedIs ==
    ASSUME TypeOK, UNCHANGED world, NEW s \in Service, NEW base \in 1..Len(main), NEW to \in 0..MaxPin,
           to <= registry[s], s \in Own => to >= main[base][s].pin, job'[s] = Starting(s, base, to)
    PROVE  JobIs(s)'
  <1>1. /\ job'[s].pc = "move" /\ job'[s].base = base /\ job'[s].to = to /\ job'[s].files = main[base][s]
        /\ UNCHANGED <<main, registry>>
    BY StartingIs DEF world
  <1>2. Based(s)'
    BY <1>1 DEF Based
  <1>3. Carries(s)' /\ Staged(s)'
    BY <1>1 DEF Carries, Staged, At
  <1>4. QED
    BY <1>2, <1>3 DEF JobIs

LEMMA NoneStarted ==
    ASSUME TypeOK, UNCHANGED world, NEW s \in Service, job'[s] = NoJob
    PROVE  JobIs(s)'
  <1>1. /\ job'[s].pc = "none" /\ job'[s].base = 1 /\ job'[s].to = 0
        /\ UNCHANGED <<main, registry>>
    BY NoJobIs DEF world
  <1>2. 1 \in 1..Len(main) /\ 0 <= registry[s]
    BY OnMain, OnRegistry
  <1>3. Based(s)'
    BY <1>1, <1>2 DEF Based, At
  <1>4. Carries(s)' /\ Staged(s)'
    BY <1>1, WorkingIs DEF Carries, Staged, At
  <1>5. QED
    BY <1>3, <1>4 DEF JobIs

Waiting == [pc: {"none", "move"}, base: 1..MaxMain, to: 0..MaxPin, files: Files]

LEMMA StartedWaits ==
    ASSUME TypeOK, UNCHANGED main, NEW s \in Own, NEW base \in 1..Len(main), NEW to \in 0..MaxPin,
           to <= registry'[s], to >= main[base][s].pin, dispatched'[s] = Starting(s, base, to)
    PROVE  Waits(s)'
  <1>1. s \in Service
    BY PinBumpAssumption
  <1>2. dispatched'[s].base = base /\ dispatched'[s].to = to
    BY <1>1, StartingIs
  <1>3. QED
    BY <1>2 DEF Waits

LEMMA NoneWaits ==
    ASSUME TypeOK, UNCHANGED world, NEW s \in Own, dispatched'[s] = NoJob
    PROVE  Waits(s)'
  <1>1. s \in Service /\ NoJob.base = 1 /\ NoJob.to = 0 /\ NoJob' = NoJob
    BY PinBumpAssumption, NoJobIs DEF NoJob, None
  <1>2. 1 \in 1..Len(main) /\ 0 <= registry[s]
    BY <1>1, OnMain, OnRegistry
  <1>3. QED
    BY <1>1, <1>2 DEF Waits, world

LEMMA MainStands == ASSUME TypeOK, MainIs, UNCHANGED world PROVE MainIs'
  BY DEF MainIs, world, Holds

\* The type of the state, from those of its parts.
LEMMA TypeKept ==
    ASSUME Grows, run' \in [pc: {"idle", "plan", "bump"}, base: 1..MaxMain],
           ref' \in [Refs -> Commit \union {None}], job' \in [Service -> Jobs],
           dispatched' \in [Own -> Waiting], armed' \in [Service -> Commit \union {None}]
    PROVE  TypeOK'
  BY DEF TypeOK, Grows, Refs, Jobs, Waiting, Files, Commit, None

LEMMA TypeParts ==
    ASSUME TypeOK
    PROVE  /\ run \in [pc: {"idle", "plan", "bump"}, base: 1..MaxMain]
           /\ ref \in [Refs -> Commit \union {None}] /\ job \in [Service -> Jobs]
           /\ dispatched \in [Own -> Waiting] /\ armed \in [Service -> Commit \union {None}]
           /\ \A s \in Service : job[s] \in Jobs
           /\ \A s \in Own : dispatched[s] \in Waiting
  BY DEF TypeOK, Refs, Jobs, Waiting

LEMMA PInvParts ==
    ASSUME PInv
    PROVE  /\ TypeOK /\ MainIs /\ run.base \in 1..Len(main)
           /\ \A s \in Service : JobIs(s) /\ Based(s) /\ Proposes(s) /\ Open(s)
           /\ \A s \in Own : Waits(s) /\ s \in Service
  BY PinBumpAssumption DEF PInv, JobIs

\* What is as it was keeps to the invariant in a world that grows.
LEMMA RestStands ==
    ASSUME PInv, Grows, MainIs', run'.base \in 1..Len(main), TypeOK',
           \A s \in Service : JobIs(s)' \/ (job'[s] = job[s] /\ ref'[Scratch(s)] = ref[Scratch(s)]),
           \A s \in Service : Proposes(s)' \/ ref'[Branch(s)] = ref[Branch(s)],
           \A s \in Service : Open(s)' \/ (ref'[Branch(s)] = ref[Branch(s)] /\ armed'[s] = armed[s]),
           \A s \in Own : Waits(s)' \/ dispatched'[s] = dispatched[s]
    PROVE  PInv'
  <1>1. \A s \in Service : JobIs(s)'
    BY PInvParts, JobStands
  <1>2. \A s \in Service : Proposes(s)'
    BY PInvParts, ProposesStands
  <1>3. \A s \in Service : Open(s)'
    BY PInvParts, OpenStands
  <1>4. \A s \in Own : Waits(s)'
    BY PInvParts, WaitsStands
  <1>5. run'.base \in 1..Len(main')
    BY PInvParts, OnMain DEF Grows
  <1>6. QED
    BY <1>1, <1>2, <1>3, <1>4, <1>5 DEF PInv

LEMMA RunsKeep ==
    ASSUME PInv, Begin \/ Plan \/ RunOver
    PROVE  PInv'
  <1>1. UNCHANGED <<world, ref, dispatched, armed>>
    BY DEF Begin, Plan, RunOver
  <1>2. TypeOK /\ MainIs /\ run.base \in 1..Len(main) /\ run.base \in 1..MaxMain /\ Len(main) \in 1..Len(main)
        /\ Len(main) \in 1..MaxMain
    BY PInvParts, OnMain
  <1>3. Grows /\ MainIs'
    BY <1>1, <1>2, WorldStands, MainStands
  <1>4. ASSUME run' \in [pc: {"idle", "plan", "bump"}, base: 1..MaxMain], run'.base \in 1..Len(main),
               job' \in [Service -> Jobs], \A s \in Service : JobIs(s)' \/ job'[s] = job[s]
        PROVE  PInv'
    <2>1. /\ ref' = ref /\ dispatched' = dispatched /\ armed' = armed
      BY <1>1
    <2>2. TypeOK'
      BY <1>2, <1>3, <1>4, <2>1, TypeParts, TypeKept
    <2>3. QED
      BY <1>3, <1>4, <2>1, <2>2, RestStands
  <1>5. CASE Begin
    <2>1. PICK base \in {run.base, Len(main)} : run' = [pc |-> "plan", base |-> base]
      BY <1>5 DEF Begin
    <2>2. run' \in [pc: {"idle", "plan", "bump"}, base: 1..MaxMain] /\ run'.base \in 1..Len(main)
      BY <1>2, <2>1
    <2>3. job' = [s \in Service |-> IF s \in Own THEN job[s] ELSE NoJob]
      BY <1>5 DEF Begin
    <2>4. job' \in [Service -> Jobs]
      BY <1>2, <2>3, NoJobIs, TypeParts
    <2>5. \A s \in Service : JobIs(s)' \/ job'[s] = job[s]
      BY <1>1, <1>2, <2>3, NoneStarted
    <2>6. QED
      BY <1>4, <2>2, <2>4, <2>5
  <1>6. CASE Plan
    <2>1. PICK planned \in SUBSET Due :
            /\ job' = [s \in Service |-> IF s \in planned THEN Starting(s, run.base, 0) ELSE job[s]]
            /\ run' = [run EXCEPT !.pc = IF planned = {} THEN "idle" ELSE "bump"]
      BY <1>6 DEF Plan
    <2>2. run' \in [pc: {"idle", "plan", "bump"}, base: 1..MaxMain] /\ run'.base = run.base
      BY <1>2, <2>1, TypeParts
    <2>3. 0 \in 0..MaxPin /\ \A s \in Service : 0 <= registry[s]
      BY <1>2, OnMain, OnRegistry
    <2>4. \A s \in Service : Starting(s, run.base, 0) \in Jobs
      BY <1>2, <2>3, StartingIs
    <2>5. job' \in [Service -> Jobs]
      BY <1>2, <2>1, <2>4, TypeParts
    <2>6. ASSUME NEW s \in Service PROVE JobIs(s)' \/ job'[s] = job[s]
      <3>1. CASE s \in planned
        <4>1. s \notin Own /\ job'[s] = Starting(s, run.base, 0)
          BY <2>1, <3>1 DEF Due
        <4>2. QED
          BY <1>1, <1>2, <2>3, <4>1, StartedIs
      <3>2. CASE s \notin planned
        BY <2>1, <3>2
      <3>3. QED
        BY <3>1, <3>2
    <2>7. QED
      BY <1>2, <1>4, <2>2, <2>5, <2>6
  <1>7. CASE RunOver
    <2>1. run' = [run EXCEPT !.pc = "idle"] /\ job' = job
      BY <1>7 DEF RunOver
    <2>2. run' \in [pc: {"idle", "plan", "bump"}, base: 1..MaxMain] /\ run'.base = run.base
      BY <1>2, <2>1, TypeParts
    <2>3. QED
      BY <1>2, <1>4, <2>1, <2>2, TypeParts
  <1>8. QED
    BY <1>5, <1>6, <1>7

LEMMA AgainKeeps ==
    ASSUME PInv, NEW s \in Own, Again(s) \/ Admit(s)
    PROVE  PInv'
  <1>1. UNCHANGED <<world, run, ref, armed>> /\ UNCHANGED <<main, registry>>
    BY DEF Again, Admit, world
  <1>2. TypeOK /\ MainIs /\ s \in Service /\ run.base \in 1..Len(main) /\ Based(s) /\ Waits(s)
    BY PInvParts
  <1>3. Grows /\ MainIs' /\ run' = run /\ ref' = ref /\ armed' = armed
    BY <1>1, <1>2, WorldStands, MainStands
  <1>4. CASE Again(s)
    <2>1. /\ job[s].pc \in {"done", "failed"} /\ job' = job
          /\ dispatched' = [dispatched EXCEPT ![s] = Starting(s, job[s].base, job[s].to)]
      BY <1>4 DEF Again
    <2>2. /\ job[s].base \in 1..Len(main) /\ job[s].to \in 0..MaxPin
          /\ job[s].to <= registry[s] /\ job[s].to >= main[job[s].base][s].pin
      BY <1>2, <2>1, TypeParts, JobsHas DEF Based, At
    <2>3. Starting(s, job[s].base, job[s].to) \in Waiting
      BY <1>2, <2>2, StartingIs DEF Waiting
    <2>4. /\ dispatched' \in [Own -> Waiting]
          /\ dispatched'[s] = Starting(s, job[s].base, job[s].to)
          /\ \A t \in Own \ {s} : dispatched'[t] = dispatched[t]
      BY <1>2, <2>1, <2>3, TypeParts
    <2>5. Waits(s)'
      BY <1>1, <1>2, <2>2, <2>4, StartedWaits
    <2>6. TypeOK'
      BY <1>2, <1>3, <2>1, <2>4, TypeParts, TypeKept
    <2>7. QED
      BY <1>2, <1>3, <2>1, <2>4, <2>5, <2>6, RestStands
  <1>5. CASE Admit(s)
    <2>1. /\ dispatched[s] # NoJob
          /\ job' = [job EXCEPT ![s] = Starting(s, dispatched[s].base, dispatched[s].to)]
          /\ dispatched' = [dispatched EXCEPT ![s] = NoJob]
      BY <1>5 DEF Admit
    <2>2. /\ dispatched[s].base \in 1..Len(main) /\ dispatched[s].to \in 0..MaxPin
          /\ dispatched[s].to <= registry[s] /\ dispatched[s].to >= main[dispatched[s].base][s].pin
      BY <1>2, <2>1, TypeParts DEF Waits, Waiting
    <2>3. Starting(s, dispatched[s].base, dispatched[s].to) \in Jobs
      BY <1>2, <2>2, StartingIs
    <2>4. /\ job' \in [Service -> Jobs]
          /\ job'[s] = Starting(s, dispatched[s].base, dispatched[s].to)
          /\ \A t \in Service \ {s} : job'[t] = job[t]
      BY <1>2, <2>1, <2>3, TypeParts
    <2>5. JobIs(s)'
      BY <1>1, <1>2, <2>2, <2>4, StartedIs
    <2>6. NoJob \in Waiting
      BY <1>2, NoneIs, OnMain DEF NoJob, Waiting
    <2>7. /\ dispatched' \in [Own -> Waiting] /\ dispatched'[s] = NoJob
          /\ \A t \in Own \ {s} : dispatched'[t] = dispatched[t]
      BY <1>2, <2>1, <2>6, TypeParts
    <2>8. Waits(s)'
      BY <1>1, <1>2, <2>7, NoneWaits
    <2>9. TypeOK'
      BY <1>2, <1>3, <2>4, <2>7, TypeParts, TypeKept
    <2>10. QED
      BY <1>2, <1>3, <2>4, <2>5, <2>7, <2>8, <2>9, RestStands
  <1>6. QED
    BY <1>4, <1>5

LEMMA JobKeeps ==
    ASSUME PInv, NEW s \in Service, Job(s) \/ Fail(s)
    PROVE  PInv'
  <1>1. TypeOK /\ MainIs /\ run.base \in 1..Len(main)
    BY PInvParts
  <1>2. JobMade(s)
    BY PInvParts, JobMakes
  <1>3. Grows /\ MainIs' /\ run' = run /\ dispatched' = dispatched
    BY <1>1, <1>2, WorldStands, MainStands DEF JobMade
  <1>4. TypeOK'
    BY <1>1, <1>2, <1>3, TypeParts, TypeKept DEF JobMade
  <1>5. QED
    BY <1>1, <1>2, <1>3, <1>4, RestStands DEF JobMade, Beside

LEMMA LandsKeep ==
    ASSUME PInv, NEW s \in Service, Merge(s) \/ Edit(s)
    PROVE  PInv' /\ NothingBack
  <1>1. TypeOK /\ MainIs /\ run.base \in 1..Len(main)
    BY PInvParts
  <1>2. /\ Lands(s) /\ UNCHANGED <<registry, run, job, dispatched>>
        /\ \/ UNCHANGED <<ref, armed>>
           \/ armed' = [armed EXCEPT ![s] = None] /\ (ref' = ref \/ RefSet(Branch(s), None))
    BY PInvParts, EditDone, MergeDone
  <1>3. Grows /\ MainIs' /\ NothingBack
    BY <1>1, <1>2, Landed
  <1>4. run' = run /\ job' = job /\ dispatched' = dispatched
    BY <1>2
  <1>5. CASE UNCHANGED <<ref, armed>>
    <2>1. TypeOK'
      BY <1>1, <1>3, <1>4, <1>5, TypeParts, TypeKept
    <2>2. QED
      BY <1>1, <1>3, <1>4, <1>5, <2>1, RestStands
  <1>6. CASE armed' = [armed EXCEPT ![s] = None] /\ (ref' = ref \/ RefSet(Branch(s), None))
    <2>1. /\ armed' \in [Service -> Commit \union {None}] /\ armed'[s] = None
          /\ \A t \in Service \ {s} : armed'[t] = armed[t]
      BY <1>1, <1>6, TypeParts
    <2>2. Open(s)'
      BY <2>1 DEF Open, None
    <2>3. CASE ref' = ref
      <3>1. TypeOK'
        BY <1>1, <1>3, <1>4, <2>1, <2>3, TypeParts, TypeKept
      <3>2. QED
        BY <1>1, <1>3, <1>4, <2>1, <2>2, <2>3, <3>1, RestStands
    <2>4. CASE RefSet(Branch(s), None)
      <3>1. /\ ref' \in [Refs -> Commit \union {None}] /\ ref'[Branch(s)] = None
            /\ \A q \in Refs : q # Branch(s) => ref'[q] = ref[q]
        BY <1>1, <2>4, RefDone, RefsApart
      <3>2. /\ \A t \in Service \ {s} : ref'[Branch(t)] = ref[Branch(t)]
            /\ \A t \in Service : ref'[Scratch(t)] = ref[Scratch(t)]
        BY <3>1, RefsApart
      <3>3. Proposes(s)'
        BY <3>1 DEF Proposes, Proposed, Branch, None
      <3>4. TypeOK'
        BY <1>1, <1>3, <1>4, <2>1, <3>1, TypeParts, TypeKept
      <3>5. QED
        BY <1>1, <1>3, <1>4, <2>1, <2>2, <3>2, <3>3, <3>4, RestStands
    <2>5. QED
      BY <1>6, <2>3, <2>4
  <1>7. QED
    BY <1>2, <1>5, <1>6

LEMMA CloseKeeps ==
    ASSUME PInv, NEW s \in Service, CloseIt(s)
    PROVE  PInv'
  <1>1. /\ UNCHANGED <<world, ref, run, job, dispatched>> /\ armed' = [armed EXCEPT ![s] = None]
        /\ ref' = ref /\ run' = run /\ job' = job /\ dispatched' = dispatched
    BY DEF CloseIt
  <1>2. TypeOK /\ MainIs /\ run.base \in 1..Len(main)
    BY PInvParts
  <1>3. Grows /\ MainIs'
    BY <1>1, <1>2, WorldStands, MainStands
  <1>4. /\ armed' \in [Service -> Commit \union {None}] /\ armed'[s] = None
        /\ \A t \in Service \ {s} : armed'[t] = armed[t]
    BY <1>1, <1>2, TypeParts
  <1>5. Open(s)'
    BY <1>4 DEF Open, None
  <1>6. TypeOK'
    BY <1>1, <1>2, <1>3, <1>4, TypeParts, TypeKept
  <1>7. QED
    BY <1>1, <1>2, <1>3, <1>4, <1>5, <1>6, RestStands

LEMMA PublishKeeps ==
    ASSUME PInv, NEW s \in Service, Publish(s)
    PROVE  PInv'
  <1>1. /\ UNCHANGED <<main, ref, run, job, armed>>
        /\ ref' = ref /\ run' = run /\ job' = job /\ armed' = armed
        /\ registry[s] < MaxPin /\ registry' = [registry EXCEPT ![s] = registry[s] + 1]
    BY DEF Publish
  <1>2. TypeOK /\ MainIs /\ run.base \in 1..Len(main) /\ MaxPin \in Nat
    BY PInvParts, OnMain
  <1>3. /\ registry' \in [Service -> 0..MaxPin] /\ registry'[s] = registry[s] + 1
        /\ \A t \in Service : registry'[t] >= registry[t] /\ registry'[t] \in Nat
    BY <1>1, <1>2, OnRegistry DEF TypeOK
  <1>4. Grows
    BY <1>1, <1>2, <1>3, OnMain DEF Grows, TypeOK
  <1>5. MainIs'
    <2> SUFFICES ASSUME NEW i \in 1..Len(main), NEW t \in Service
                 PROVE  Holds(t, main[i][t]) /\ main[i][t].pin <= registry'[t] /\ main[i][t].rest < i
      BY <1>1 DEF MainIs, Holds
    <2>1. Holds(t, main[i][t]) /\ main[i][t].pin <= registry[t] /\ main[i][t].rest < i
      BY <1>2 DEF MainIs
    <2>2. main[i][t].pin \in Nat /\ registry[t] \in Nat /\ registry'[t] \in Nat /\ registry'[t] >= registry[t]
      BY <1>2, <1>3, OnMain, OnRegistry, FilesHas
    <2>3. QED
      BY <2>1, <2>2
  <1>6. CASE s \notin Own
    <2>1. dispatched' = dispatched
      BY <1>6 DEF Publish
    <2>2. TypeOK'
      BY <1>1, <1>2, <1>4, <2>1, TypeParts, TypeKept
    <2>3. QED
      BY <1>1, <1>2, <1>4, <1>5, <2>1, <2>2, RestStands
  <1>7. CASE s \in Own
    <2> DEFINE to == registry[s] + 1
               n == Len(main)
    <2>1. dispatched' = [dispatched EXCEPT ![s] = Starting(s, n, to)]
      BY <1>7 DEF Publish
    <2>2. n \in 1..Len(main) /\ to \in 0..MaxPin /\ to <= registry'[s]
      BY <1>1, <1>2, <1>3, OnMain, OnRegistry
    <2>3. to >= main[n][s].pin
      <3>1. main[n][s].pin <= registry[s] /\ main[n][s].pin \in Nat /\ registry[s] \in Nat
        BY <1>2, <2>2, OnMain, OnRegistry, FilesHas DEF MainIs
      <3>2. QED
        BY <3>1
    <2> HIDE DEF to, n
    <2>4. Starting(s, n, to) \in Waiting
      BY <1>2, <2>2, StartingIs DEF Waiting
    <2>5. /\ dispatched' \in [Own -> Waiting] /\ dispatched'[s] = Starting(s, n, to)
          /\ \A t \in Own \ {s} : dispatched'[t] = dispatched[t]
      BY <1>2, <1>7, <2>1, <2>4, TypeParts
    <2>6. Waits(s)'
      BY <1>1, <1>2, <1>7, <2>2, <2>3, <2>5, StartedWaits
    <2>7. TypeOK'
      BY <1>1, <1>2, <1>4, <2>5, TypeParts, TypeKept
    <2>8. QED
      BY <1>1, <1>2, <1>4, <1>5, <2>5, <2>6, <2>7, RestStands
  <1>8. QED
    BY <1>6, <1>7
-----------------------------------------------------------------------------
LEMMA InitPInv == Init => PInv
  <1> SUFFICES ASSUME Init PROVE PInv
    OBVIOUS
  <1> DEFINE first == [s \in Service |-> None.files]
  <1>1. first \in [Service -> Files] /\ \A s \in Service : first[s] = None.files
    BY NoneIs
  <1>2. main = <<first>>
    BY DEF Init
  <1> HIDE DEF first
  <1>3. main \in Seq([Service -> Files]) /\ Len(main) = 1 /\ main[1] = first
    BY <1>1, <1>2
  <1>4. 1 \in 1..MaxMain /\ 0 \in 0..MaxPin
    BY PinBumpAssumption
  <1>5. /\ registry = [s \in Service |-> 0]
        /\ ref = [r \in Refs |-> None]
        /\ run = [pc |-> "idle", base |-> 1]
        /\ job = [s \in Service |-> NoJob]
        /\ dispatched = [s \in Own |-> NoJob]
        /\ armed = [s \in Service |-> None]
    BY DEF Init, Refs
  <1>6. NoJob \in Waiting
    BY <1>4, NoneIs DEF NoJob, Waiting
  <1>7. TypeOK
    <2>1. main \in Seq([Service -> Files]) /\ Len(main) \in 1..MaxMain
      BY <1>3, <1>4
    <2>2. registry \in [Service -> 0..MaxPin]
      BY <1>4, <1>5
    <2>3. ref \in [Refs -> Commit \union {None}]
      BY <1>5
    <2>4. run \in [pc: {"idle", "plan", "bump"}, base: 1..MaxMain]
      BY <1>4, <1>5
    <2>5. job \in [Service -> Jobs]
      BY <1>5, NoJobIs
    <2>6. dispatched \in [Own -> Waiting]
      BY <1>5, <1>6
    <2>7. armed \in [Service -> Commit \union {None}]
      BY <1>5
    <2>8. QED
      BY <2>1, <2>2, <2>3, <2>4, <2>5, <2>6, <2>7 DEF TypeOK, Refs, Jobs, Waiting
  <1>8. MainIs
    <2>1. \A i \in 1..Len(main) : i = 1
      BY <1>3
    <2>2. \A s \in Service : main[1][s] = None.files /\ registry[s] = 0
      BY <1>1, <1>3, <1>5
    <2>3. QED
      BY <2>1, <2>2, NoneIs DEF MainIs
  <1>9. ASSUME NEW s \in Service PROVE JobIs(s) /\ Proposes(s) /\ Open(s)
    <2>1. job[s] = NoJob /\ ref[Branch(s)] = None /\ armed[s] = None /\ registry[s] = 0
      BY <1>5, RefsApart
    <2>2. Based(s)
      BY <1>3, <2>1, NoJobIs DEF Based, At
    <2>3. Carries(s) /\ Staged(s)
      BY <2>1, NoJobIs, WorkingIs DEF Carries, Staged, At
    <2>4. Proposes(s) /\ Open(s)
      BY <2>1 DEF Proposes, Proposed, Open
    <2>5. QED
      BY <2>2, <2>3, <2>4 DEF JobIs
  <1>10. ASSUME NEW s \in Own PROVE Waits(s)
    <2>1. dispatched[s] = NoJob /\ registry[s] = 0
      BY <1>5, PinBumpAssumption
    <2>2. QED
      BY <1>3, <2>1, NoJobIs DEF Waits
  <1>11. run.base \in 1..Len(main)
    BY <1>3, <1>5
  <1>12. QED
    BY <1>7, <1>8, <1>9, <1>10, <1>11 DEF PInv

LEMMA PInvKept == PInv /\ [Next]_vars => PInv' /\ (main' # main => NothingBack)
  <1> SUFFICES ASSUME PInv, [Next]_vars PROVE PInv' /\ (main' # main => NothingBack)
    OBVIOUS
  <1>1. ASSUME NEW s \in Service, Again(s) \/ Admit(s) PROVE PInv' /\ main' = main
    <2>1. s \in Own /\ main' = main
      BY <1>1 DEF Again, Admit, world
    <2>2. QED
      BY <1>1, <2>1, AgainKeeps
  <1>2. ASSUME NEW s \in Service, Job(s) \/ Fail(s) PROVE PInv' /\ main' = main
    BY <1>2, JobKeeps, PInvParts, JobMakes DEF JobMade, world
  <1>3. ASSUME NEW s \in Service, CloseIt(s) \/ Publish(s) PROVE PInv' /\ main' = main
    BY <1>3, CloseKeeps, PublishKeeps DEF CloseIt, Publish, world
  <1>4. CASE Begin \/ Plan \/ RunOver
    BY <1>4, RunsKeep DEF Begin, Plan, RunOver, world
  <1>5. CASE UNCHANGED vars
    <2>1. /\ UNCHANGED world /\ main' = main /\ ref' = ref /\ run' = run /\ job' = job
          /\ dispatched' = dispatched /\ armed' = armed
      BY <1>5 DEF vars, world
    <2>2. TypeOK /\ Grows /\ MainIs' /\ run.base \in 1..Len(main)
      BY <2>1, PInvParts, WorldStands, MainStands
    <2>3. TypeOK'
      BY <2>1, <2>2, TypeParts, TypeKept
    <2>4. QED
      BY <2>1, <2>2, <2>3, RestStands
  <1>6. QED
    BY <1>1, <1>2, <1>3, <1>4, <1>5, LandsKeep DEF Next

\* The invariant of the pipeline: what stands on main, on the branches and in
\* each job, wherever another died.
THEOREM PipelineInvariant == Spec => []PInv
  <1>1. PInv /\ [Next]_vars => PInv'
    BY PInvKept
  <1>2. QED
    BY <1>1, InitPInv, PTL DEF Spec

\* The state keeps its type.
THEOREM PipelineTyping == Spec => []TypeOK
  BY PipelineInvariant, PTL DEF PInv

\* A pin and its recordings move in one commit, whoever moves it: a job that
\* dies, a merge over an edit, or somebody by hand.
THEOREM PinsMoveWithRecordings == Spec => []PinAndRecordings
  <1>1. PInv => PinAndRecordings
    <2> SUFFICES ASSUME PInv, NEW s \in Service
                 PROVE  Holds(s, Last(main)[s]) /\ Holds(s, ref[Branch(s)].files)
      BY DEF PinAndRecordings
    <2>1. Holds(s, Last(main)[s])
      BY PInvParts, LastIs
    <2>2. Holds(s, ref[Branch(s)].files)
      BY PInvParts, NoneIs DEF Proposes, Proposed
    <2>3. QED
      BY <2>1, <2>2
  <1>2. QED
    BY <1>1, PipelineInvariant, PTL

\* The branch of an open pull request always has a commit of its own.
THEOREM NoPullRequestIsEmptied == Spec => []NeverEmptied
  <1>1. PInv => NeverEmptied
    <2> SUFFICES ASSUME PInv, NEW s \in Service, armed[s] # None
                 PROVE  ref[Branch(s)] # None /\ ref[Branch(s)] # Bare(s, ref[Branch(s)].on)
      BY DEF NeverEmptied
    <2>1. ref[Branch(s)] # None /\ Proposed(s, ref[Branch(s)])
      BY PInvParts DEF Open, Proposes
    <2>2. /\ ref[Branch(s)].on \in 1..Len(main)
          /\ ref[Branch(s)].files.pin > main[ref[Branch(s)].on][s].pin
      BY <2>1 DEF Proposed
    <2>3. main[ref[Branch(s)].on][s].pin \in Nat
      BY <2>2, PInvParts, OnMain, FilesHas
    <2>4. ref[Branch(s)] = Bare(s, ref[Branch(s)].on) => ref[Branch(s)].files = main[ref[Branch(s)].on][s]
      BY DEF Bare
    <2>5. QED
      BY <2>1, <2>2, <2>3, <2>4
  <1>2. QED
    BY <1>1, PipelineInvariant, PTL

\* Whatever an earlier run left on the scratch ref, the commit is made on the
\* commit of main the files were read from.
THEOREM EveryCommitFindsItsBase == Spec => []CommitFindsItsBase
  <1>1. PInv => CommitFindsItsBase
    BY PInvParts DEF JobIs, Staged, CommitFindsItsBase
  <1>2. QED
    BY <1>1, PipelineInvariant, PTL

\* Nothing that landed is undone: neither what people wrote, nor a newer pin.
THEOREM NothingLandedIsUndone == Spec => NothingUndone
  <1>1. PInv /\ [Next]_vars =>
          [main' # main =>
              \A s \in Service : /\ Last(main')[s].rest >= Last(main)[s].rest
                                 /\ Last(main')[s].pin >= Last(main)[s].pin]_vars
    BY PInvKept DEF NothingBack
  <1>2. QED
    BY <1>1, PipelineInvariant, PTL DEF Spec, NothingUndone
=============================================================================
