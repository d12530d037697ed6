----------------------------- MODULE LicenceGate -----------------------------
(***************************************************************************)
(* check_licences.py over one service: what licence the forge says it      *)
(* publishes, and where the forge cannot tell, whether the file is the one *)
(* the release pinned before shipped.  Every question is a request of its  *)
(* own, and upstream releases, withdraws and relicenses between them.      *)
(***************************************************************************)
EXTENDS Naturals, Sequences, SequencesExt, FiniteSets

CONSTANTS Releases,         \* bound: how many releases there are, the newest the greatest
          Spelled,          \* [1..Releases -> REF_SPELLINGS]: how upstream tags each
          Files,            \* bound: how many licence files there are
          Key,              \* [identifier -> identifier]: spdx_key
          Osi,              \* the keys of the OSI list
          Records,         \* the identifiers the manifest may record
          MaxPins           \* bound: how many pins main has seen

Tag == 1..Releases
File == 1..Files
REF_SPELLINGS == <<"1", "v1", "release-1">>
SlipUnknownPasses == {"moved", "unstated"}
FAILS_WHEN_GATED == {"moved", "unstated", "unknown"}
Clear == {"agrees", "unchanged", "differs"}
\* What the forge states of a project: an identifier, that it cannot tell, or no licence.
Stated == DOMAIN Key \union {"other", "nothing"}
\* No blob: a release that ships no licence file, or one nobody could read.
NoBlob == 0

ASSUME LicenceAssumption ==
    /\ Releases \in Nat \ {0} /\ Files \in Nat \ {0} /\ MaxPins \in Nat \ {0}
    /\ Spelled \in [Tag -> ToSet(REF_SPELLINGS)]
    /\ Records \subseteq DOMAIN Key /\ "own" \in Records /\ Key["own"] \notin Osi
    /\ \A k \in Osi : k \in DOMAIN Key /\ Key[k] = k

VARIABLES file, gone,       \* upstream: each release's licence file, if any, and the releases it has withdrawn
          own,              \* whether the image is lemonfiber's own
          pinned,           \* what main has pinned, oldest first, how each was cleared, and the pins unread then
          gate              \* a run of the check

upstream == <<file, gone, own>>
\* The releases no licence file can be read at.
Unreadable == gone \union {t \in Tag : file[t] = NoBlob}
gateVars == <<upstream, pinned, gate>>

Idle == [pc |-> "idle", gated |-> FALSE, compares |-> FALSE, tag |-> 1, records |-> "own", stated |-> "nothing",
         asked |-> {}, lost |-> {}, ref |-> 1, at |-> 1, now |-> NoBlob, unanswered |-> FALSE, verdict |-> "none", exit |-> 0]

GateInit == /\ file = [t \in Tag |-> 1] /\ gone = {} /\ own = FALSE
            /\ pinned = <<>>
            /\ gate = Idle
-----------------------------------------------------------------------------
\* A service comes in: nothing gates it.
Admit == /\ pinned = <<>>
         /\ own' \in BOOLEAN
         /\ file' \in {f \in [Tag -> File \union {NoBlob}] : f[1] \in {1, NoBlob}}
         /\ \E t \in Tag : pinned' = <<[tag |-> t, by |-> "added", lost |-> {}]>>
         /\ UNCHANGED <<gone, gate>>
Withdraw == /\ pinned # <<>>
            /\ \E t \in Tag \ gone : gone' = gone \union {t}
            /\ UNCHANGED <<file, own, pinned, gate>>
-----------------------------------------------------------------------------
\* assess; `problem` is a forge that did not answer.
Assess(records, answer, problem) ==
    IF own /\ records # "own" THEN "moved"
    ELSE IF problem THEN "unknown"
    ELSE IF answer \in {"nothing", "other"} THEN "unstated"
    ELSE IF own THEN IF Key[answer] = Key["own"] THEN "agrees" ELSE "moved"
    ELSE IF Key[answer] \notin Osi THEN "moved"
    ELSE IF Key[answer] = Key[records] THEN "agrees" ELSE "differs"
\* compare_files.
CompareFiles(was, now) == IF was # NoBlob /\ now # NoBlob /\ was = now THEN "unchanged" ELSE "unstated"
\* survey and main: only what is gated fails.
Ended(g, verdict) ==
    [g EXCEPT !.pc = "done", !.verdict = verdict, !.exit = IF g.gated /\ verdict \in FAILS_WHEN_GATED THEN 1 ELSE 0]

\* gated_services: the pins a change moves, every service under --all, and
\* nothing where the base cannot be read.
Start == /\ gate.pc = "idle" /\ pinned # <<>>
         /\ \E t \in Tag, records \in Records, all \in BOOLEAN :
                LET moved == t # Last(pinned).tag
                IN  gate' \in {[Idle EXCEPT !.pc = "stated", !.gated = all \/ moved, !.compares = ~all /\ moved,
                                            !.tag = t, !.records = records],
                               [Idle EXCEPT !.pc = "done", !.exit = 2]}
         /\ UNCHANGED <<upstream, pinned>>

Ask(g, tag) == [g EXCEPT !.at = tag, !.ref = 1, !.asked = @ \union {tag}]
\* stated_licence, and what judged makes of the answer.
AskStated ==
    /\ gate.pc = "stated"
    /\ \E stated \in Stated, problem \in BOOLEAN :
        LET g == [gate EXCEPT !.stated = stated, !.unanswered = problem]
            verdict == Assess(gate.records, stated, problem)
        IN  /\ problem => stated = "nothing"
            /\ gate' = IF gate.compares /\ ~problem /\ stated = "other" /\ verdict # "moved"
                       THEN [Ask(g, gate.tag) EXCEPT !.pc = "now", !.asked = {}]
                       ELSE Ended(g, verdict)
    /\ UNCHANGED <<upstream, pinned>>

\* last_shipped and earlier_tags: the newest pin git shows not asked for yet.
NextEarlier(g) ==
    LET left == {i \in DOMAIN pinned \ g.lost : pinned[i].tag \notin g.asked}
    IN  IF left = {} THEN 0 ELSE CHOOSE i \in left : \A j \in left : j <= i
Back(g) == IF NextEarlier(g) = 0 THEN Ended(g, CompareFiles(NoBlob, g.now))
           ELSE [Ask(g, pinned[NextEarlier(g)].tag) EXCEPT !.pc = "walk"]
SlipPastUnanswered(g, blob, withdrawn) ==
    IF g.pc = "now" THEN [Ask(g, Last(pinned).tag) EXCEPT !.pc = "was", !.now = blob]
    ELSE IF blob # NoBlob THEN Ended(g, CompareFiles(blob, g.now))
    ELSE IF g.pc = "was" THEN [g EXCEPT !.pc = "log"]
    ELSE Back(g)
Answered(g, blob, withdrawn) ==
    IF g.pc = "now" THEN [Ask(g, Last(pinned).tag) EXCEPT !.pc = "was", !.now = blob]
    ELSE IF ~withdrawn THEN Ended(g, CompareFiles(blob, g.now))
    ELSE IF g.pc = "was" THEN [g EXCEPT !.pc = "log"]
    ELSE Back(g)
\* licence_file_at: one spelling of the release's ref after another.  The forge
\* has one answer for a ref it does not know and for one with no licence file.
AskFile ==
    /\ gate.pc \in {"now", "was", "walk"}
    /\ gate' \in {Answered([gate EXCEPT !.unanswered = TRUE], NoBlob, FALSE),
                  IF gate.at \notin Unreadable /\ Spelled[gate.at] = REF_SPELLINGS[gate.ref]
                  THEN Answered(gate, file[gate.at], FALSE)
                  ELSE IF gate.ref < Len(REF_SPELLINGS) THEN [gate EXCEPT !.ref = @ + 1]
                  ELSE Answered(gate, NoBlob, TRUE)}
    /\ UNCHANGED <<upstream, pinned>>

\* earlier_tags goes by without a word what git does not give: the pins before
\* the base's own in revisions it cannot show, all of them where it has no log.
ReadLog == /\ gate.pc = "log"
           /\ \E lost \in SUBSET (1..(Len(pinned) - 1)) : gate' = Back([gate EXCEPT !.lost = lost])
           /\ UNCHANGED <<upstream, pinned>>

\* The merge queue takes what passed over the base it was judged on.
Take == /\ gate.pc = "done"
        /\ pinned' = IF gate.exit = 0 /\ gate.compares /\ Len(pinned) < MaxPins
                     THEN Append(pinned, IF gate.verdict = "unchanged"
                                         THEN [tag |-> gate.tag, by |-> "unchanged", lost |-> gate.lost]
                                         ELSE [tag |-> gate.tag, by |-> "named", lost |-> {}])
                     ELSE pinned
        /\ gate' = Idle
        /\ UNCHANGED upstream

GateNext == Admit \/ Withdraw \/ Start \/ AskStated \/ AskFile \/ ReadLog \/ Take
GateSpec == GateInit /\ [][GateNext]_gateVars
-----------------------------------------------------------------------------
\* What upstream is, what main has pinned of it, and how far a run is.
GateTypeOK ==
    /\ file \in [Tag -> File \union {NoBlob}] /\ gone \subseteq Tag /\ own \in BOOLEAN
    /\ pinned \in Seq([tag: Tag, by: {"added", "named", "unchanged"}, lost: SUBSET (1..MaxPins)]) /\ Len(pinned) <= MaxPins
    /\ gate \in [pc: {"idle", "stated", "now", "was", "log", "walk", "done"}, gated: BOOLEAN, compares: BOOLEAN, tag: Tag,
                 records: Records, stated: Stated, asked: SUBSET Tag, lost: SUBSET (1..MaxPins),
                 ref: 1..Len(REF_SPELLINGS), at: Tag, now: File \union {NoBlob}, unanswered: BOOLEAN,
                 verdict: FAILS_WHEN_GATED \union Clear \union {"none"}, exit: 0..2]

\* What the walk back goes by: a pin whose release is withdrawn or ships no
\* licence file, and one in revisions git did not show.
GoneBy(k, lost) == pinned[k].tag \in Unreadable \/ k \in lost

\* Through any number of bumps, a pin that came in because its licence file had
\* not changed ships the file of an earlier pin, the one before it or the newest
\* the walk did not go by (last_shipped): a change of the file slips in behind
\* nothing but releases nobody can read a file of, and pins git did not show.
NoFileUnread ==
    \A i \in 2..Len(pinned) : pinned[i].by = "unchanged" =>
        /\ file[pinned[i].tag] # NoBlob
        /\ \E j \in 1..(i - 1) : /\ file[pinned[j].tag] = file[pinned[i].tag]
                               /\ \A k \in (j + 1)..(i - 1) : GoneBy(k, pinned[i].lost)

\* "I could not establish it" is not "it is fine", at whichever of its requests
\* the forge went away: what is gated passes only where every question put was
\* answered, with a licence that may be shipped.  Nor is it refused for nothing,
\* but for a question unanswered, for what the project or the manifest states, or
\* for a file that changed or that nobody can read; and what is not gated at most
\* for what the docstring has fail `gated or not', an own image's other licence.
Cleared ==
    /\ ~gate.unanswered
    /\ own => gate.records = "own"
    /\ \/ gate.verdict = "unchanged" /\ gate.now = file[gate.tag]
       \/ gate.stated \in DOMAIN Key /\ Key[gate.stated] \in (IF own THEN {Key["own"]} ELSE Osi)
Wanting ==
    \/ gate.unanswered \/ gate.stated = "nothing"
    \/ own /\ gate.records # "own"
    \/ gate.stated \in DOMAIN Key /\ Key[gate.stated] \notin (IF own THEN {Key["own"]} ELSE Osi)
    \/ gate.stated = "other" /\ ~gate.compares
    \/ gate.tag \in Unreadable
    \/ \A i \in DOMAIN pinned : GoneBy(i, gate.lost)
    \/ \E i \in DOMAIN pinned : /\ file[pinned[i].tag] # file[gate.tag]
                               /\ \A k \in (i + 1)..Len(pinned) : GoneBy(k, gate.lost)
GateBearsOut ==
    /\ gate.pc = "done" /\ gate.exit = 0 /\ gate.gated => Cleared
    /\ gate.pc = "done" /\ gate.exit = 1 => Wanting /\ (gate.gated \/ (own /\ gate.records # "own"))
=============================================================================
