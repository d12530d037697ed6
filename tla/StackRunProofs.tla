--------------------------- MODULE StackRunProofs ---------------------------
(***************************************************************************)
(* What a run of the stack says of itself, for any manifest, any profiles  *)
(* and any register of defects: a pass means that it ran, and alone; a     *)
(* failure has a reason.  Proved from one inductive invariant, by what     *)
(* each phase of the run may rely on.                                      *)
(***************************************************************************)
EXTENDS StackRun, TLAPS

\* The roster is judged, and the run is still to say so or has.
Judged == phase \in {"recount", "report"} \/ (phase = "down" /\ ~raised) \/ Passed

\* What a run begins with: nothing asked, nothing looked at, and of the
\* containers only those an earlier run left, which are told as they stand.
Fresh ==
    phase \in {"write", "up"} =>
        /\ fell = {} /\ errors = {} /\ ~raised /\ verdict = NotAsked
        /\ \A s \in Service : box[s] \in {Created(TRUE), Absent}

\* Nothing is inspected before the wait is over, and nothing twice.
Unlooked ==
    /\ phase \in {"write", "up", "wait"} => Seen = {} /\ listed = {}
    /\ phase = "roster" => listed \intersect Seen = {}

\* A container waits to be restarted only if it may be.
MayReturn == \A s \in Service : box[s].state = "restarting" => box[s].restarts < MaxRestarts

\* What a container fell over from still shows when it is inspected: it does
\* not run, or its count of restarts is not zero.  And one of which that
\* shows, or which is gone since it was listed, has fallen.
FallShows ==
    phase \in {"wait", "roster"} => \A s \in Service \ Seen :
        /\ s \in fell => ~(box[s].state = "running" /\ box[s].restarts = 0)
        /\ box[s] # Absent /\ ~(box[s].state = "running" /\ box[s].restarts = 0) => s \in fell
        /\ s \in listed /\ box[s] = Absent => s \in fell

\* And so it shows in the roster, where the row of one that could not be read
\* is not steady either.
FallSeen ==
    \A s \in Seen :
        /\ s \in fell => ~Steady(s)
        /\ ~Steady(s) => s \in fell \union unread

\* The roster is taken once every probe is decided.
Decided ==
    phase = "roster" \/ (Judged /\ errors = {}) => \A s \in Chosen : verdict[s] # "none"

\* A run that has no error to report is one of which nothing was told.
Clean ==
    /\ phase = "abandon" => errors # {}
    /\ Judged /\ errors = {} => Verdicts = {}
    /\ Passed => errors = {}

\* And the last `ps', if it could tell, found nothing.
Alone ==
    (phase = "report" /\ errors = {}) \/ Passed => blind \/ Present = {}

\* What holds of a run in which nothing is the matter.
AsPinned ==
    ~flawed /\ phase \in {"wait", "roster"} => \A s \in Service :
        /\ s \notin Chosen => box[s] = Absent /\ s \notin listed /\ s \notin Seen
        /\ s \in Proved => box[s] = Created(TRUE) /\ verdict[s] # "late"
        /\ s \in Proved /\ phase = "roster" => s \in listed \/ rows[s] = Created(TRUE)

OnlyMended ==
    ~flawed =>
        /\ ~raised /\ phase # "abandon"
        /\ phase \in {"down", "recount", "report"} =>
               errors \subseteq {"fixed"} /\ ("fixed" \in errors => Mended # {})
        /\ phase = "recount" => Present = {}
        /\ Idle /\ exit = Failed => Mended # {}

IInv ==
    /\ TypeOK
    /\ Fresh /\ Unlooked /\ MayReturn /\ FallShows /\ FallSeen
    /\ Decided /\ Clean /\ Alone
    /\ AsPinned /\ OnlyMended
-----------------------------------------------------------------------------

\* A container as the daemon may hold it: of its type, and waiting to be
\* restarted only if it may be.
Fit(b) == b \in Boxes \union {Absent} /\ (b.state = "restarting" => b.restarts < MaxRestarts)

LEMMA Containers ==
    /\ Fit(Absent) /\ Absent.state = "absent"
    /\ \A p \in BOOLEAN : /\ Fit(Created(p)) /\ Created(p) # Absent /\ Created(p) # Unlisted
                          /\ Created(p).state = "running" /\ Created(p).restarts = 0 /\ Created(p).pinned = p
    /\ Absent # Unlisted /\ Absent \notin Boxes /\ Unlisted \notin Boxes
    /\ \A b \in Boxes : /\ b.state \in {"running", "restarting", "exited"}
                        /\ b.restarts \in 0..MaxRestarts
                        /\ b.pinned \in BOOLEAN
  BY StackRunAssumption DEF Fit, Boxes, Absent, Unlisted, Created

\* A container that falls, and one that is started again, are still fit.
LEMMA FallenFit ==
    ASSUME NEW b, Fit(b), b.state = "running", b.restarts < MaxRestarts,
           NEW c \in {[b EXCEPT !.state = "restarting"], [b EXCEPT !.state = "exited"], Absent}
    PROVE  /\ Fit(c)
           /\ c.state # "running"
  BY StackRunAssumption DEF Fit, Boxes, Absent

LEMMA ReturnedFit ==
    ASSUME TypeOK, NEW s \in Service, Fit(box[s]), Return(s)
    PROVE  /\ Fit(box'[s])
           /\ box'[s].state = "running" /\ box'[s].restarts # 0
           /\ \A q \in Service \ {s} : box'[q] = box[q]
           /\ box' = [box EXCEPT ![s] = box'[s]]
  <1> DEFINE b == box[s]
             c == [state |-> "running", restarts |-> b.restarts + 1, pinned |-> b.pinned]
  <1>1. b \in Boxes /\ b.state = "restarting" /\ b.restarts < MaxRestarts
    BY DEF Return, Fit, Absent
  <1>2. b = [state |-> b.state, restarts |-> b.restarts, pinned |-> b.pinned]
        /\ b.restarts \in 0..MaxRestarts /\ b.pinned \in BOOLEAN
    BY <1>1 DEF Boxes
  <1>3. b.restarts + 1 \in 0..MaxRestarts /\ b.restarts + 1 # 0
    BY <1>1, <1>2, StackRunAssumption
  <1>4. c \in Boxes
    BY <1>2, <1>3 DEF Boxes
  <1>5. box' = [box EXCEPT ![s].state = "running", ![s].restarts = @ + 1]
    BY DEF Return
  <1>5a. box' = [box EXCEPT ![s] = box'[s]]
    BY <1>5 DEF TypeOK
  <1>6. box'[s] = [[box[s] EXCEPT !.state = "running"] EXCEPT !.restarts = box[s].restarts + 1]
        /\ (\A q \in Service \ {s} : box'[q] = box[q]) 
    BY <1>5 DEF TypeOK
  <1>7. box'[s] = c
    BY <1>2, <1>6
  <1>8. QED
    BY <1>3, <1>4, <1>5a, <1>6, <1>7 DEF Fit

\* The steps that leave the containers alone, and the fit of those that do not.
LEMMA BoxesKept ==
    TypeOK /\ MayReturn /\ [Next]_vars => box' \in [Service -> Boxes \union {Absent}] /\ MayReturn'
  <1> SUFFICES ASSUME TypeOK, MayReturn, [Next]_vars
               PROVE  box' \in [Service -> Boxes \union {Absent}] /\ MayReturn'
    OBVIOUS
  <1>1. \A s \in Service : Fit(box[s])
    BY DEF TypeOK, MayReturn, Fit
  <1>2. ASSUME NEW f, f = [s \in Service |-> f[s]], \A s \in Service : Fit(f[s])
        PROVE  f \in [Service -> Boxes \union {Absent}]
               /\ \A s \in Service : f[s].state = "restarting" => f[s].restarts < MaxRestarts
    BY <1>2 DEF Fit
  <1>3. ASSUME NEW came, NEW wrong, Create(came, wrong)
        PROVE  box' \in [Service -> Boxes \union {Absent}] /\ MayReturn'
    <2>1. \A s \in Service : (s \notin wrong) \in BOOLEAN
      OBVIOUS
    <2>2. box' = [s \in Service |-> box'[s]] /\ \A s \in Service : Fit(box'[s])
      BY <1>1, <1>3, <2>1, Containers DEF Create
    <2>3. QED
      BY <1>2, <2>2 DEF MayReturn
  <1>4. ASSUME NEW left, Remove(left)
        PROVE  box' \in [Service -> Boxes \union {Absent}] /\ MayReturn'
    <2>1. box' = [s \in Service |-> box'[s]] /\ \A s \in Service : Fit(box'[s])
      BY <1>1, <1>4, Containers DEF Remove
    <2>2. QED
      BY <1>2, <2>1 DEF MayReturn
  <1>5. ASSUME box' = box PROVE box' \in [Service -> Boxes \union {Absent}] /\ MayReturn'
    BY <1>5 DEF TypeOK, MayReturn
  <1>6. CASE Asked
    <2>1. box' = [s \in Service |-> box'[s]] /\ \A s \in Service : Fit(box'[s])
      BY <1>6, Containers DEF Asked, LeftFromBefore
    <2>2. QED
      BY <1>2, <2>1 DEF MayReturn
  <1>7. CASE Up
    BY <1>3, <1>7 DEF Up
  <1>8. CASE Abandon \/ Down
    BY <1>4, <1>8 DEF Abandon, Down
  <1>9. CASE Interrupt
    BY <1>3, <1>4, <1>5, <1>9 DEF Interrupt
  <1>10. ASSUME NEW s \in Service, Fall(s)
         PROVE  box' \in [Service -> Boxes \union {Absent}] /\ MayReturn'
    <2>1. PICK c \in {[box[s] EXCEPT !.state = "restarting"], [box[s] EXCEPT !.state = "exited"], Absent} :
              box' = [box EXCEPT ![s] = c]
      BY <1>10 DEF Fall
    <2>2. Fit(c)
      BY <1>1, <1>10, FallenFit DEF Fall
    <2>3. box' = [q \in Service |-> box'[q]] /\ \A q \in Service : Fit(box'[q])
      BY <1>1, <2>1, <2>2 DEF TypeOK
    <2>4. QED
      BY <1>2, <2>3 DEF MayReturn
  <1>11. ASSUME NEW s \in Service, Return(s)
         PROVE  box' \in [Service -> Boxes \union {Absent}] /\ MayReturn'
    <2>1. Fit(box'[s]) /\ box' = [box EXCEPT ![s] = box'[s]]
      BY <1>1, <1>11, ReturnedFit
    <2>2. box' = [q \in Service |-> box'[q]] /\ \A q \in Service : Fit(box'[q])
      BY <1>1, <2>1 DEF TypeOK
    <2>3. QED
      BY <1>2, <2>2 DEF MayReturn
  <1>12. CASE Write \/ List \/ Judge \/ Raise \/ Recount \/ Report \/ Kill \/ UNCHANGED vars
    BY <1>5, <1>12 DEF Write, List, Judge, Raise, Recount, Report, Kill, vars
  <1>13. ASSUME NEW s \in Service, Heard(s) \/ Late(s) \/ Inspect(s) \/ Boot(s) \/ Hang(s)
         PROVE  box' \in [Service -> Boxes \union {Absent}] /\ MayReturn'
    BY <1>5, <1>13 DEF Heard, Late, Inspect, Boot, Hang
  <1>14. QED
    BY <1>6, <1>7, <1>8, <1>9, <1>10, <1>11, <1>12, <1>13 DEF Next, Script, World

\* The state of a run keeps its type.
LEMMA TypeKept == TypeOK /\ MayReturn /\ [Next]_vars => TypeOK' /\ MayReturn'
  <1> SUFFICES ASSUME TypeOK, MayReturn, [Next]_vars PROVE TypeOK'
    BY BoxesKept
  <1>0. box' \in [Service -> Boxes \union {Absent}]
    BY BoxesKept
  <1>00. /\ serving \subseteq Service /\ listed \subseteq Service /\ fell \subseteq Service
         /\ unread \subseteq Service
         /\ box \in [Service -> Boxes \union {Absent}]
         /\ rows \in [Service -> Boxes \union {Absent, Unlisted}]
         /\ flawed \in BOOLEAN
    BY DEF TypeOK
  <1>01. ASSUME NEW s \in Service, Inspect(s) \/ Boot(s) \/ Hang(s) \/ Fall(s) \/ Return(s)
         PROVE  /\ serving' \subseteq Service /\ listed' \subseteq Service /\ fell' \subseteq Service
                /\ unread' \subseteq Service /\ flawed' \in BOOLEAN
                /\ rows' \in [Service -> Boxes \union {Absent, Unlisted}]
    <2>1. CASE Inspect(s)
      BY <1>00, <2>1 DEF Inspect
    <2>2. CASE Boot(s) \/ Hang(s) \/ Return(s)
      BY <1>00, <2>2 DEF Boot, Hang, Return, history
    <2>3. CASE Fall(s)
      BY <1>00, <2>3 DEF Fall
    <2>4. QED
      BY <1>01, <2>1, <2>2, <2>3
  <1>03. ASSUME UNCHANGED <<phase, profiles, errors, raised, exit, verdict, blind>>,
                serving' \subseteq Service, listed' \subseteq Service, fell' \subseteq Service,
                unread' \subseteq Service, flawed' \in BOOLEAN,
                rows' \in [Service -> Boxes \union {Absent, Unlisted}]
         PROVE  TypeOK'
    BY <1>0, <1>03 DEF TypeOK
  <1>02. Interrupt => serving' \subseteq Service
    BY <1>00 DEF Interrupt, Create, Remove
  <1> USE StackRunAssumption DEF TypeOK, Running, Ran, Failed, Refused, Killed, run, history, Idle
  <1>1. CASE Asked
    BY <1>1, <1>0 DEF Asked, NothingKnown, NotAsked, Nothing
  <1>2. CASE Write
    BY <1>2, <1>0 DEF Write
  <1>3. CASE Up
    BY <1>3, <1>0 DEF Up, Create
  <1>4. CASE List
    BY <1>4, <1>0 DEF List, Present
  <1>5. CASE Judge
    BY <1>5, <1>0 DEF Judge, Verdicts, Told
  <1>6. CASE Raise
    BY <1>6, <1>0 DEF Raise
  <1>7. CASE Abandon
    BY <1>7, <1>0 DEF Abandon, Remove
  <1>8. CASE Down
    BY <1>8, <1>0 DEF Down, Remove
  <1>9. CASE Recount
    BY <1>9, <1>0 DEF Recount
  <1>10. CASE Report
    BY <1>10, <1>0 DEF Report
  <1>11. CASE Interrupt
    BY <1>11, <1>0, <1>02 DEF Interrupt, NothingKnown, NotAsked, Nothing
  <1>12. CASE Kill
    BY <1>12, <1>0 DEF Kill, NothingKnown, NotAsked, Nothing
  <1>13. ASSUME NEW s \in Service, Heard(s) PROVE TypeOK'
    BY <1>13, <1>0 DEF Heard, Wait!Hear, Wait!Decide
  <1>14. ASSUME NEW s \in Service, Late(s) PROVE TypeOK'
    BY <1>14, <1>0 DEF Late, Wait!GiveUp, Wait!Decide
  <1>15. ASSUME NEW s \in Service, Inspect(s) \/ Boot(s) \/ Hang(s) \/ Fall(s) \/ Return(s) PROVE TypeOK'
    <2>1. UNCHANGED <<phase, profiles, errors, raised, exit, verdict, blind>>
      BY <1>15 DEF Inspect, Boot, Hang, Fall, Return
    <2>2. /\ serving' \subseteq Service /\ listed' \subseteq Service /\ fell' \subseteq Service
          /\ unread' \subseteq Service /\ flawed' \in BOOLEAN
          /\ rows' \in [Service -> Boxes \union {Absent, Unlisted}]
      BY <1>01, <1>15
    <2>3. QED
      BY <1>03, <2>1, <2>2
  <1>20. CASE UNCHANGED vars
    BY <1>20 DEF vars
  <1>21. QED
    BY <1>1, <1>2, <1>3, <1>4, <1>5, <1>6, <1>7, <1>8, <1>9, <1>10, <1>11, <1>12, <1>13, <1>14, <1>15, <1>20 DEF Next, Script, World
-----------------------------------------------------------------------------
\* What the steps of a run leave of its beginning.
LEMMA FreshKept == TypeOK /\ Fresh /\ Unlooked /\ [Next]_vars => Fresh' /\ Unlooked'
  <1> SUFFICES ASSUME TypeOK, Fresh, Unlooked, [Next]_vars PROVE Fresh' /\ Unlooked'
    OBVIOUS
  <1> USE DEF Fresh, Unlooked, Seen, run, history
  <1>1. CASE Asked
    BY <1>1 DEF Asked, NothingKnown, Nothing, LeftFromBefore
  <1>2. CASE Write
    BY <1>2 DEF Write
  <1>3. CASE Up
    BY <1>3 DEF Up
  <1>4. ASSUME phase' \notin {"write", "up", "wait", "roster"} PROVE Fresh' /\ Unlooked'
    BY <1>4
  <1>5. CASE List
    BY <1>5 DEF List
  <1>5a. CASE Judge \/ Raise \/ Abandon \/ Down \/ Recount \/ Report \/ Interrupt \/ Kill
    BY <1>4, <1>5a DEF Judge, Raise, Abandon, Down, Recount, Report, Interrupt, Kill
  <1>6. ASSUME NEW s \in Service, Heard(s) \/ Late(s) PROVE Fresh' /\ Unlooked'
    BY <1>6 DEF Heard, Late
  <1>7. ASSUME NEW s \in Service, Inspect(s) PROVE Fresh' /\ Unlooked'
    <2>1. /\ phase = "roster" /\ phase' = phase
          /\ listed' = listed \ {s}
          /\ \E b : rows' = [rows EXCEPT ![s] = b]
      BY <1>7 DEF Inspect
    <2>2. \A q \in Service \ {s} : rows'[q] = rows[q]
      BY <2>1 DEF TypeOK
    <2>3. QED
      BY <2>1, <2>2
  <1>8. ASSUME NEW s \in Service, Boot(s) \/ Hang(s) PROVE Fresh' /\ Unlooked'
    BY <1>8 DEF Boot, Hang, Watched
  <1>9. ASSUME NEW s \in Service, Fall(s) \/ Return(s) PROVE Fresh' /\ Unlooked'
    BY <1>9 DEF Fall, Return, Watched
  <1>10. CASE UNCHANGED vars
    BY <1>10 DEF vars
  <1>11. QED
    BY <1>1, <1>2, <1>3, <1>5, <1>5a, <1>6, <1>7, <1>8, <1>9, <1>10 DEF Next, Script, World

\* What a container fell over from shows until it is inspected, and is then
\* in the roster.
LEMMA FallKept ==
    TypeOK /\ MayReturn /\ Fresh /\ Unlooked /\ FallShows /\ FallSeen /\ [Next]_vars => FallShows' /\ FallSeen'
  <1> SUFFICES ASSUME TypeOK, MayReturn, Fresh, Unlooked, FallShows, FallSeen, [Next]_vars
               PROVE  FallShows' /\ FallSeen'
    OBVIOUS
  <1>0. \A s \in Service : Fit(box[s])
    BY DEF TypeOK, MayReturn, Fit
  <1>1. ASSUME phase' \notin {"wait", "roster"}, UNCHANGED <<rows, fell, unread>> PROVE FallShows' /\ FallSeen'
    BY <1>1 DEF FallShows, FallSeen, Seen, Steady
  <1>2. ASSUME UNCHANGED <<phase, box, rows, fell, unread, listed>> PROVE FallShows' /\ FallSeen'
    BY <1>2 DEF FallShows, FallSeen, Seen, Steady
  <1>3. CASE Asked
    BY <1>3 DEF Asked, NothingKnown, Nothing, FallShows, FallSeen, Seen
  <1>4. CASE Up
    <2>1. fell' = {} /\ listed' = {} /\ Seen' = {}
      BY <1>4 DEF Up, Fresh, Unlooked, Seen
    <2>2. \A s \in Service : box'[s] = Absent \/ (box'[s].state = "running" /\ box'[s].restarts = 0)
      <3>1. PICK came \in SUBSET Service, wrong \in SUBSET Service : Create(came, wrong)
        BY <1>4 DEF Up
      <3>2. \A s \in Service : (s \notin wrong) \in BOOLEAN
        OBVIOUS
      <3>3. \A s \in Service : box'[s] = box[s] \/ box'[s] = Created(s \notin wrong)
        BY <3>1 DEF Create
      <3>4. QED
        BY <1>4, <3>2, <3>3, Containers DEF Fresh, Up
    <2>3. QED
      BY <2>1, <2>2 DEF FallShows, FallSeen
  <1>5. CASE List
    BY <1>5, Containers DEF List, FallShows, FallSeen, Seen, Steady, Present
  <1>6. CASE Write \/ Judge \/ Raise \/ Abandon \/ Down \/ Recount \/ Report
    BY <1>1, <1>6 DEF Write, Judge, Raise, Abandon, Down, Recount, Report, history
  <1>6a. CASE Interrupt \/ Kill
    BY <1>6a DEF Interrupt, Kill, NothingKnown, Nothing, FallShows, FallSeen, Seen
  <1>7. ASSUME NEW s \in Service, Heard(s) \/ Late(s) \/ Boot(s) \/ Hang(s) PROVE FallShows' /\ FallSeen'
    BY <1>2, <1>7 DEF Heard, Late, Boot, Hang, history
  <1>8. ASSUME NEW s \in Service, Inspect(s) PROVE FallShows' /\ FallSeen'
    <2>1. /\ phase = "roster" /\ s \in listed
          /\ listed' = listed \ {s}
          /\ unread \subseteq unread'
          /\ UNCHANGED <<phase, box, fell>>
      BY <1>8 DEF Inspect
    <2>2. /\ rows'[s] = box[s] \/ (rows'[s] = Absent /\ s \in unread')
          /\ \A q \in Service \ {s} : rows'[q] = rows[q]
      BY <1>8 DEF Inspect, TypeOK
    <2>3. s \notin Seen
      BY <2>1 DEF Unlooked
    <2>4. QED
      BY <2>1, <2>2, <2>3, <1>0, Containers DEF FallShows, FallSeen, Seen, Steady, Fit
  <1>9. ASSUME NEW s \in Service, Fall(s) PROVE FallShows' /\ FallSeen'
    <2>1. /\ s \notin Seen
          /\ fell' = fell \union {s}
          /\ UNCHANGED <<phase, rows, unread, listed>>
          /\ box'[s].state # "running"
          /\ \A q \in Service \ {s} : box'[q] = box[q]
      <3>1. PICK c \in {[box[s] EXCEPT !.state = "restarting"], [box[s] EXCEPT !.state = "exited"], Absent} :
                box' = [box EXCEPT ![s] = c]
        BY <1>9 DEF Fall
      <3>2. c.state # "running"
        BY <1>0, <1>9, FallenFit DEF Fall
      <3>3. QED
        BY <1>9, <3>1, <3>2 DEF Fall, Watched, TypeOK
    <2>2. QED
      BY <2>1 DEF FallShows, FallSeen, Seen, Steady
  <1>10. ASSUME NEW s \in Service, Return(s) PROVE FallShows' /\ FallSeen'
    <2>1. UNCHANGED <<phase, rows, fell, unread, listed>> /\ s \notin Seen
      BY <1>10 DEF Return, Watched, history
    <2>2. /\ box'[s].state = "running" /\ box'[s].restarts # 0
          /\ \A q \in Service \ {s} : box'[q] = box[q]
          /\ box'[s] # Absent
      BY <1>0, <1>10, ReturnedFit, Containers
    <2>3. s \in fell /\ phase \in {"wait", "roster"}
      BY <2>1, <1>10, Containers DEF Return, Watched, Present, FallShows
    <2>4. QED
      BY <2>1, <2>2, <2>3 DEF FallShows, FallSeen, Seen, Steady
  <1>11. CASE UNCHANGED vars
    BY <1>2, <1>11 DEF vars, history
  <1>12. QED
    BY <1>3, <1>4, <1>5, <1>6, <1>6a, <1>7, <1>8, <1>9, <1>10, <1>11 DEF Next, Script, World
-----------------------------------------------------------------------------
\* The verdicts are of the profiles, the roster and the wait alone.
LEMMA SameVerdicts ==
    ASSUME UNCHANGED <<profiles, rows, verdict>>
    PROVE  /\ Chosen' = Chosen /\ Broken' = Broken /\ Proved' = Proved /\ Seen' = Seen
           /\ Verdicts' = Verdicts /\ Mended' = Mended
  BY DEF Chosen, Broken, Proved, Seen, Verdicts, Missing, Stray, Unsteady, OtherImage, OutOfTime, Mended,
         Steady, Told

\* From the roster on, a run without an error has decided every probe, has
\* nothing told of it, and when it has passed has found nothing left.
LEMMA JudgementKept ==
    Decided /\ Clean /\ Alone /\ [Next]_vars => Decided' /\ Clean' /\ Alone'
  <1> SUFFICES ASSUME Decided, Clean, Alone, [Next]_vars PROVE Decided' /\ Clean' /\ Alone'
    OBVIOUS
  <1> USE DEF Decided, Clean, Alone, Judged, Passed, Idle, run, history, Running, Ran, Failed, Refused, Killed
  <1>1. CASE Asked
    BY <1>1 DEF Asked
  <1>2. CASE Write \/ Up
    BY <1>2 DEF Write, Up
  <1>3. CASE List
    <2>1. /\ phase' = "roster" /\ UNCHANGED <<profiles, verdict>>
          /\ \A s \in Chosen : verdict[s] # "none"
      BY <1>3 DEF List
    <2>2. QED
      BY <2>1 DEF Chosen
  <1>4. CASE Judge
    <2>1. /\ phase = "roster" /\ phase' = "down" /\ errors' = Verdicts
          /\ UNCHANGED <<profiles, rows, verdict>>
      BY <1>4 DEF Judge
    <2>2. QED
      BY <2>1, SameVerdicts
  <1>5. CASE Raise
    BY <1>5 DEF Raise
  <1>6. CASE Abandon
    BY <1>6 DEF Abandon
  <1>7. CASE Down
    <2>1. /\ phase = "down" /\ UNCHANGED <<profiles, rows, verdict, raised>>
          /\ errors' = {} => errors = {}
          /\ phase' = IF raised THEN "idle" ELSE "recount"
          /\ exit' = IF raised THEN Failed ELSE exit
      BY <1>7 DEF Down
    <2>2. QED
      BY <2>1, SameVerdicts
  <1>8. CASE Recount
    <2>1. /\ phase = "recount" /\ phase' = "report" /\ UNCHANGED <<profiles, rows, verdict, box>>
          /\ errors' = {} => errors = {} /\ (blind' \/ Present = {})
      BY <1>8 DEF Recount
    <2>2. QED
      BY <2>1, SameVerdicts DEF Present
  <1>9. CASE Report
    <2>1. /\ phase = "report" /\ phase' = "idle" /\ UNCHANGED <<profiles, rows, verdict, box, errors, blind>>
          /\ exit' = IF errors = {} THEN Ran ELSE Failed
      BY <1>9 DEF Report
    <2>2. QED
      BY <2>1, SameVerdicts DEF Present
  <1>10. CASE Interrupt \/ Kill
    BY <1>10 DEF Interrupt, Kill
  <1>11. ASSUME NEW s \in Service, Heard(s) \/ Late(s) PROVE Decided' /\ Clean' /\ Alone'
    BY <1>11 DEF Heard, Late
  <1>12. ASSUME NEW s \in Service, Inspect(s) \/ Boot(s) \/ Hang(s) \/ Fall(s) \/ Return(s)
         PROVE  Decided' /\ Clean' /\ Alone'
    <2>1. phase \in {"wait", "roster"} /\ UNCHANGED <<phase, profiles, verdict>>
      BY <1>12 DEF Inspect, Boot, Hang, Fall, Return, Watched
    <2>2. QED
      BY <2>1 DEF Chosen
  <1>13. CASE UNCHANGED vars
    <2>1. UNCHANGED <<phase, profiles, errors, raised, exit, box, rows, verdict, blind>>
      BY <1>13 DEF vars
    <2>2. QED
      BY <2>1, SameVerdicts DEF Present
  <1>14. QED
    BY <1>1, <1>2, <1>3, <1>4, <1>5, <1>6, <1>7, <1>8, <1>9, <1>10, <1>11, <1>12, <1>13 DEF Next, Script, World
-----------------------------------------------------------------------------
\* While nothing is the matter the services outside the register stand as the
\* run created them, and are listed and inspected so.
LEMMA PinnedKept ==
    TypeOK /\ Fresh /\ Unlooked /\ AsPinned /\ [Next]_vars => AsPinned'
  <1> SUFFICES ASSUME TypeOK, Fresh, Unlooked, AsPinned, [Next]_vars, ~flawed', phase' \in {"wait", "roster"}
               PROVE  AsPinned'
    BY DEF AsPinned
  <1> DEFINE AsIs == \A s \in Service :
                 /\ s \notin Chosen => box[s] = Absent /\ s \notin listed /\ s \notin Seen
                 /\ s \in Proved => box[s] = Created(TRUE) /\ verdict[s] # "late"
                 /\ s \in Proved /\ phase = "roster" => s \in listed \/ rows[s] = Created(TRUE)
  <1> SUFFICES AsIs'
    BY DEF AsPinned, Created
  <1>0. ~flawed /\ phase \in {"wait", "roster"} => AsIs
    BY DEF AsPinned
  <1>1. ASSUME UNCHANGED <<phase, profiles, box, verdict, listed, rows, flawed>> PROVE AsIs'
    BY <1>0, <1>1 DEF Chosen, Proved, Seen, Created
  <1>2. CASE Up
    <2>1. PICK came \in SUBSET Service, wrong \in SUBSET Service :
              /\ Create(came, wrong)
              /\ {s \in Service : box'[s] # Absent} = Chosen
              /\ Chosen \ came = {}
              /\ wrong \ KnownBroken = {}
      BY <1>2 DEF Up
    <2>2. UNCHANGED <<profiles, verdict, rows, listed>> /\ phase = "up" /\ phase' = "wait"
      BY <1>2 DEF Up
    <2>3. \A s \in Proved : box'[s] = Created(TRUE)
      <3>1. \A s \in Proved : s \in Service /\ s \in came /\ (s \notin wrong) = TRUE
        BY <2>1 DEF Proved, Chosen
      <3>2. \A s \in Service : s \in came => box'[s] = Created(s \notin wrong)
        BY <2>1 DEF Create
      <3>3. QED
        BY <3>1, <3>2
    <2>4. Seen = {} /\ listed = {} /\ verdict = NotAsked
      BY <2>2 DEF Fresh, Unlooked
    <2>5. \A s \in Service : s \notin Chosen => box'[s] = Absent
      BY <2>1
    <2>6. Chosen' = Chosen /\ Proved' = Proved /\ Seen' = Seen
      BY <2>2 DEF Chosen, Proved, Seen
    <2>7. QED
      BY <2>2, <2>3, <2>4, <2>5, <2>6 DEF NotAsked, Created
  <1>3. CASE List
    <2>1. /\ phase = "wait" /\ ~flawed /\ listed' = Present /\ UNCHANGED <<profiles, box, verdict, rows>>
      BY <1>3 DEF List, run
    <2>2. Chosen' = Chosen /\ Proved' = Proved /\ Seen' = Seen
      BY <2>1 DEF Chosen, Proved, Seen
    <2>3. QED
      BY <1>0, <2>1, <2>2, Containers DEF Present, Created
  <1>4. ASSUME NEW s \in Service, Heard(s) PROVE AsIs'
    <2>1. /\ phase = "wait" /\ UNCHANGED <<phase, profiles, box, listed, rows, flawed>>
          /\ verdict' = [verdict EXCEPT ![s] = "ok"]
      BY <1>4 DEF Heard, Wait!Hear, Wait!Decide, run, history
    <2>2. Chosen' = Chosen /\ Proved' = Proved /\ Seen' = Seen
      BY <2>1 DEF Chosen, Proved, Seen
    <2>3. \A q \in Service : verdict'[q] = verdict[q] \/ verdict'[q] = "ok"
      BY <2>1 DEF TypeOK
    <2>4. QED
      BY <1>0, <2>1, <2>2, <2>3 DEF Created, Proved, Chosen
  <1>5. ASSUME NEW s \in Service, Late(s) PROVE AsIs'
    <2>1. /\ phase = "wait" /\ UNCHANGED <<phase, profiles, box, listed, rows>>
          /\ ~flawed /\ s \notin Proved
          /\ verdict' = [verdict EXCEPT ![s] = "late"]
      BY <1>5 DEF Late, Wait!GiveUp, Wait!Decide, run
    <2>2. Chosen' = Chosen /\ Proved' = Proved /\ Seen' = Seen
      BY <2>1 DEF Chosen, Proved, Seen
    <2>3. \A q \in Proved : verdict'[q] = verdict[q]
      BY <2>1 DEF TypeOK, Proved, Chosen
    <2>4. QED
      BY <1>0, <2>1, <2>2, <2>3 DEF Created
  <1>6. ASSUME NEW s \in Service, Inspect(s) PROVE AsIs'
    <2>1. /\ phase = "roster" /\ s \in listed /\ UNCHANGED <<phase, profiles, box, verdict>>
          /\ listed' = listed \ {s}
          /\ ~flawed
      BY <1>6 DEF Inspect, run
    <2>2. Chosen' = Chosen /\ Proved' = Proved
      BY <2>1 DEF Chosen, Proved
    <2>3. /\ s \in Proved => rows'[s] = box[s]
          /\ \A q \in Service \ {s} : rows'[q] = rows[q]
      BY <1>6, <2>1 DEF Inspect, TypeOK, Broken, Proved
    <2>4. \A q \in Service \ {s} : q \in Seen' <=> q \in Seen
      BY <2>3 DEF Seen
    <2>5. QED
      BY <1>0, <2>1, <2>2, <2>3, <2>4 DEF Created
  <1>7. ASSUME NEW s \in Service, Boot(s) \/ Hang(s) PROVE AsIs'
    BY <1>1, <1>7 DEF Boot, Hang, run, history
  <1>8. ASSUME NEW s \in Service, Fall(s) PROVE AsIs'
    <2>1. /\ ~flawed /\ s \in Broken /\ phase \in {"wait", "roster"}
          /\ UNCHANGED <<phase, profiles, verdict, listed, rows>>
          /\ \A q \in Service \ {s} : box'[q] = box[q]
      BY <1>8 DEF Fall, Watched, TypeOK, run
    <2>2. Chosen' = Chosen /\ Proved' = Proved /\ Seen' = Seen
      BY <2>1 DEF Chosen, Proved, Seen
    <2>3. s \in Chosen /\ s \notin Proved
      BY <2>1 DEF Broken, Proved
    <2>4. QED
      BY <1>0, <2>1, <2>2, <2>3 DEF Created
  <1>9. ASSUME NEW s \in Service, Return(s) PROVE AsIs'
    <2>1. /\ s \in Chosen /\ phase \in {"wait", "roster"} /\ box[s].state = "restarting"
          /\ UNCHANGED <<phase, profiles, verdict, listed, rows, flawed>>
          /\ \A q \in Service \ {s} : box'[q] = box[q]
      BY <1>9 DEF Return, Watched, TypeOK, run, history
    <2>2. Chosen' = Chosen /\ Proved' = Proved /\ Seen' = Seen
      BY <2>1 DEF Chosen, Proved, Seen
    <2>3. s \notin Proved
      BY <1>0, <2>1, Containers
    <2>4. QED
      BY <1>0, <2>1, <2>2, <2>3 DEF Created
  <1>10. CASE UNCHANGED vars
    BY <1>1, <1>10 DEF vars, run, history
  <1>11. CASE Asked \/ Write \/ Judge \/ Raise \/ Abandon \/ Down \/ Recount \/ Report \/ Interrupt \/ Kill
    BY <1>11 DEF Asked, Write, Judge, Raise, Abandon, Down, Recount, Report, Interrupt, Kill
  <1>12. QED
    BY <1>2, <1>3, <1>4, <1>5, <1>6, <1>7, <1>8, <1>9, <1>10, <1>11 DEF Next, Script, World

\* Judged of such a roster, nothing is told but a defect that is mended.
LEMMA OnlyMendedTold ==
    ASSUME AsPinned, ~flawed, phase = "roster", listed = {}
    PROVE  Verdicts \subseteq {"fixed"} /\ ("fixed" \in Verdicts => Mended # {})
  <1>1. \A s \in Proved : s \in Service /\ rows[s] = Created(TRUE) /\ verdict[s] # "late"
    BY DEF AsPinned, Proved, Chosen
  <1>2. \A s \in Proved : s \in Seen /\ Steady(s) /\ rows[s].pinned
    BY <1>1, Containers DEF Seen, Steady
  <1>3. Missing = {} /\ Unsteady = {} /\ OtherImage = {} /\ OutOfTime = {}
    BY <1>1, <1>2 DEF Missing, Unsteady, OtherImage, OutOfTime
  <1>4. Stray = {}
    BY DEF Stray, Seen, AsPinned
  <1>5. Verdicts = Told("fixed", Mended)
    BY <1>3, <1>4 DEF Verdicts, Told
  <1>6. QED
    BY <1>5 DEF Told

\* And so a run in which nothing is the matter has nothing else to report.
LEMMA ReasonKept ==
    TypeOK /\ Fresh /\ AsPinned /\ OnlyMended /\ [Next]_vars => OnlyMended'
  <1> SUFFICES ASSUME TypeOK, Fresh, AsPinned, OnlyMended, [Next]_vars, ~flawed' PROVE OnlyMended'
    BY DEF OnlyMended
  <1> USE DEF OnlyMended, Idle, Running, Ran, Failed, Refused, Killed, run, history
  <1>1. CASE Asked
    BY <1>1 DEF Asked
  <1>2. CASE Write \/ Up \/ List
    BY <1>2 DEF Write, Up, List, Fresh
  <1>3. CASE Judge
    <2>1. /\ phase = "roster" /\ listed = {} /\ phase' = "down" /\ errors' = Verdicts
          /\ UNCHANGED <<profiles, rows, verdict, raised, flawed>>
      BY <1>3 DEF Judge
    <2>2. QED
      BY <2>1, OnlyMendedTold, SameVerdicts
  <1>4. CASE Raise \/ Abandon \/ Interrupt \/ Kill
    BY <1>4 DEF Raise, Abandon, Interrupt, Kill
  <1>5. CASE Down
    <2>1. /\ phase = "down" /\ ~flawed /\ errors' = errors
          /\ phase' = IF raised THEN "idle" ELSE "recount"
          /\ box' = [s \in Service |-> Absent]
          /\ UNCHANGED <<profiles, rows, verdict, raised>>
      BY <1>5 DEF Down, Remove
    <2>2. Present' = {}
      BY <2>1 DEF Present, Absent
    <2>3. QED
      BY <2>1, <2>2, SameVerdicts
  <1>6. CASE Recount
    <2>1. /\ phase = "recount" /\ phase' = "report" /\ (Present = {} => errors' = errors)
          /\ UNCHANGED <<profiles, rows, verdict, raised, flawed>>
      BY <1>6 DEF Recount
    <2>2. QED
      BY <2>1, SameVerdicts
  <1>7. CASE Report
    <2>1. /\ phase = "report" /\ phase' = "idle" /\ exit' = IF errors = {} THEN Ran ELSE Failed
          /\ UNCHANGED <<profiles, errors, rows, verdict, raised, flawed>>
      BY <1>7 DEF Report
    <2>2. QED
      BY <2>1, SameVerdicts
  <1>8. ASSUME NEW s \in Service, Heard(s) \/ Late(s) \/ Inspect(s) PROVE OnlyMended'
    BY <1>8 DEF Heard, Late, Inspect
  <1>9. ASSUME NEW s \in Service, Boot(s) \/ Hang(s) \/ Fall(s) \/ Return(s) PROVE OnlyMended'
    BY <1>9 DEF Boot, Hang, Fall, Return, Watched
  <1>10. CASE UNCHANGED vars
    <2>1. UNCHANGED <<phase, profiles, errors, raised, exit, box, rows, verdict, flawed>>
      BY <1>10 DEF vars
    <2>2. QED
      BY <2>1, SameVerdicts DEF Present
  <1>11. QED
    BY <1>1, <1>2, <1>3, <1>4, <1>5, <1>6, <1>7, <1>8, <1>9, <1>10 DEF Next, Script, World
-----------------------------------------------------------------------------
\* The inductive invariant holds of every reachable state.
THEOREM RunInvariant == Spec => []IInv
  <1>1. Init => IInv
    <2> SUFFICES ASSUME Init PROVE IInv
      OBVIOUS
    <2> USE DEF Init, Nothing, NotAsked, Idle, Passed, Judged, Seen, Chosen
    <2>1. TypeOK
      BY StackRunAssumption DEF TypeOK, Running, Ran, Failed, Refused, Killed
    <2>2. MayReturn /\ Fresh /\ Unlooked /\ FallShows /\ FallSeen
      BY Containers DEF MayReturn, Fresh, Unlooked, FallShows, FallSeen
    <2>3. Decided /\ Clean /\ Alone /\ AsPinned /\ OnlyMended
      BY DEF Decided, Clean, Alone, AsPinned, OnlyMended, Ran, Failed
    <2>4. QED
      BY <2>1, <2>2, <2>3 DEF IInv
  <1>2. IInv /\ [Next]_vars => IInv'
    BY TypeKept, FreshKept, FallKept, JudgementKept, PinnedKept, ReasonKept DEF IInv
  <1>3. QED
    BY <1>1, <1>2, PTL DEF Spec

\* The state of a run keeps its type.
THEOREM RunTyping == Spec => []TypeOK
  BY RunInvariant, PTL DEF IInv

\* Nothing was told of a run that passed.
LEMMA NothingTold ==
    ASSUME IInv, Passed
    PROVE  /\ Missing = {} /\ Stray = {} /\ Unsteady = {} /\ OtherImage = {} /\ OutOfTime = {} /\ Mended = {}
           /\ \A s \in Chosen : verdict[s] # "none"
  <1>1. Verdicts = {} /\ \A s \in Chosen : verdict[s] # "none"
    BY DEF IInv, Clean, Decided, Judged
  <1>2. \A k, S : Told(k, S) \subseteq Verdicts => S = {}
    BY <1>1 DEF Told
  <1>3. QED
    BY <1>1, <1>2 DEF Verdicts

\* `0 = the stack ran', for any manifest, any profiles and any interleaving of
\* the containers' falls with the wait and the roster.
THEOREM APassMeansItRan == Spec => []PassMeansRan
  <1>1. IInv => PassMeansRan
    <2> SUFFICES ASSUME IInv, Passed, NEW s \in Proved
                 PROVE  verdict[s] = "ok" /\ s \notin fell /\ rows[s].pinned
      BY DEF PassMeansRan
    <2>1. s \in Service /\ s \in Chosen
      BY DEF Proved, Chosen
    <2>2. s \in Seen /\ Steady(s) /\ rows[s].pinned /\ verdict[s] # "late" /\ verdict[s] # "none"
      BY <2>1, NothingTold DEF Missing, Unsteady, OtherImage, OutOfTime
    <2>3. s \notin fell
      BY <2>2 DEF IInv, FallSeen
    <2>4. verdict[s] \in {"none", "ok", "late"}
      BY <2>1 DEF IInv, TypeOK
    <2>5. QED
      BY <2>2, <2>3, <2>4
  <1>2. QED
    BY <1>1, RunInvariant, PTL

\* The register of known defects is kept honest by every run that could look:
\* none passes in which a defect recorded there was not met, but where `ps' or
\* the inspection of that service failed.
THEOREM TheRegisterIsHonest == Spec => []RegisterHonest
  <1>1. IInv => RegisterHonest
    <2> SUFFICES ASSUME IInv, Passed, NEW s \in Broken, verdict[s] = "ok", s \in Seen, s \notin fell \union unread
                 PROVE  FALSE
      BY DEF RegisterHonest
    <2>1. Steady(s)
      BY DEF IInv, FallSeen
    <2>2. s \in Mended
      BY <2>1 DEF Mended
    <2>3. QED
      BY <2>2, NothingTold
  <1>2. QED
    BY <1>1, RunInvariant, PTL

\* A run that fails has a reason to: something went wrong that it is meant to
\* report, or a recorded defect is mended.
THEOREM NoAlarmIsFalse == Spec => []NoFalseAlarm
  <1>1. IInv => NoFalseAlarm
    <2> SUFFICES ASSUME IInv, Idle, exit = Failed, ~flawed
                 PROVE  \E s \in Broken : verdict[s] = "ok" /\ s \notin fell
      BY DEF NoFalseAlarm
    <2>1. PICK s \in Mended : TRUE
      BY DEF IInv, OnlyMended
    <2>2. s \in Broken /\ s \in Seen /\ Steady(s) /\ verdict[s] = "ok"
      BY <2>1 DEF Mended
    <2>3. s \notin fell
      BY <2>2 DEF IInv, FallSeen
    <2>4. QED
      BY <2>2, <2>3
  <1>2. QED
    BY <1>1, RunInvariant, PTL

\* A pass is of one run alone, whatever an earlier one left and whatever
\* `down' and `ps' said.
THEOREM APassStandsAlone == Spec => []PassStandsAlone
  <1>1. IInv => PassStandsAlone
    <2> SUFFICES ASSUME IInv, Passed PROVE Seen \subseteq Chosen /\ (~blind => Present = {})
      BY DEF PassStandsAlone
    <2>1. Seen \subseteq Chosen
      BY NothingTold DEF Stray
    <2>2. ~blind => Present = {}
      BY DEF IInv, Alone
    <2>3. QED
      BY <2>1, <2>2
  <1>2. QED
    BY <1>1, RunInvariant, PTL
=============================================================================
