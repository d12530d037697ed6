------------------------------ MODULE Candidate ------------------------------
(***************************************************************************)
(* check_candidate.py: what a project has done, asked of the forge and of  *)
(* its registry one request after another, and the verdict on it.  A day   *)
(* is counted back from the day of the run.                                *)
(***************************************************************************)
EXTENDS Naturals, Sequences, SequencesExt, FiniteSets

CONSTANTS MIN_HISTORY_DAYS, QUIET_DAYS, ABANDONED_DAYS,
          PAGE,             \* how many commits are asked for
          Project           \* the projects that may be proposed

Optional(S) == {{}} \union {{v} : v \in S}
\* A project as it is: how many own commits it has, the days between the ends of
\* those a page shows, the days from its creation to the last of them, and what
\* it has published and pushed.
ProjectType == [archived: BOOLEAN, fork: BOOLEAN, commits: Nat, span: Nat, age: Nat, released: SUBSET Nat, tags: 0..1,
                pushed: SUBSET Nat, image: {"unoffered", "there", "nowhere"}]

ASSUME CandidateAssumption ==
    /\ PAGE \in Nat \ {0} /\ MIN_HISTORY_DAYS \in Nat \ {0}
    /\ QUIET_DAYS \in Nat /\ ABANDONED_DAYS \in Nat /\ QUIET_DAYS < ABANDONED_DAYS
    /\ \A p \in Project : /\ p \in ProjectType /\ p.released \in Optional(p.released) /\ p.pushed \in Optional(p.pushed)
                          /\ p.span <= p.age /\ (p.commits = 0 => p.span = 0)

VARIABLES project,          \* the project that is proposed, once one is
          look              \* the run: what it asks next, what went unanswered, and its evidence

candidateVars == <<project, look>>

NoProject == [archived |-> FALSE, fork |-> FALSE, commits |-> 0, span |-> 0, age |-> 0, released |-> {}, tags |-> 0,
              pushed |-> {}, image |-> "unoffered"]
Steps == <<"propose", "project", "releases", "history", "image", "tags", "judge", "done">>
CandidateInit ==
    /\ project = NoProject
    /\ look = [at |-> 1, unanswered |-> {}, days |-> {}, releases |-> {}, latest |-> {}, image |-> {}, tags |-> 0,
               verdict |-> "none", exit |-> 0]
-----------------------------------------------------------------------------
\* A project on the forge, or a URL of none: nothing to ask about (repo_of).
Propose == /\ Steps[look.at] = "propose"
           /\ \/ project' \in Project /\ look' = [look EXCEPT !.at = 2]
              \/ project' = NoProject /\ look' = [look EXCEPT !.exit = 2, !.at = Len(Steps)]

\* get_json: a request is answered, or it is not and the run goes on without.
Request(what, evidence, without) ==
    /\ Steps[look.at] = what
    /\ look' \in {[evidence EXCEPT !.at = @ + 1], [without EXCEPT !.at = @ + 1, !.unanswered = @ \union {what}]}
    /\ UNCHANGED project
\* gather: the project itself, without which there is nothing to judge.
AskProject == Request("project", look, [look EXCEPT !.exit = 2, !.at = Len(Steps) - 1])
\* released: that there is no latest release is an answer.
AskReleases == Request("releases", [look EXCEPT !.releases = {Cardinality(project.released)}, !.latest = project.released],
                                   [look EXCEPT !.releases = {}])
\* ahead_of_parent and whole_history: the span of what a page holds, or how old
\* the project is where a page cannot hold it all.
OwnDays == IF project.fork
           THEN {IF project.commits <= PAGE THEN project.span ELSE project.age}
           ELSE IF project.commits = 0 THEN {} ELSE {IF project.commits < PAGE THEN project.span ELSE project.age}
AskHistory == Request("history", [look EXCEPT !.days = OwnDays], look)
\* image_evidence: an image nobody offered is not one that was not published.
AskImage == LET offered == project.image # "unoffered"
            IN  Request("image", [look EXCEPT !.image = IF offered THEN {project.image = "there"} ELSE {}],
                                 [look EXCEPT !.image = IF offered THEN {FALSE} ELSE {}])
\* tagged.
AskTags == Request("tags", [look EXCEPT !.tags = project.tags], [look EXCEPT !.tags = 0])

\* publication: releases, or else tags, or else an image.
SlipUnreadIsNone(e) ==
    IF e.releases = {1} THEN {} ELSE IF e.tags > 0 \/ e.image = {TRUE} THEN {"caution"} ELSE {"disqualifying"}
Publication(e) ==
    IF e.releases = {} THEN {"disqualifying"}
    ELSE IF e.releases = {1} THEN {}
    ELSE IF e.tags > 0 \/ e.image = {TRUE} THEN {"caution"}
    ELSE {"disqualifying"}
Activity(e) ==
    (IF project.pushed = {} \/ \E day \in project.pushed : day > ABANDONED_DAYS THEN {"disqualifying"}
     ELSE IF \E day \in project.pushed : day > QUIET_DAYS THEN {"caution"} ELSE {})
    \union {"caution" : day \in {day \in e.latest : day > QUIET_DAYS}}
Findings(e) ==
    (IF project.archived THEN {"disqualifying"} ELSE {})
    \union (IF e.days = {} \/ \E days \in e.days : days < MIN_HISTORY_DAYS THEN {"disqualifying"} ELSE {})
    \union Publication(e) \union Activity(e)
    \union (IF project.fork THEN {"caution"} ELSE {})
\* judge, and the exit main makes of it.
JudgeCandidate ==
    /\ Steps[look.at] = "judge"
    /\ look' = [look EXCEPT !.at = @ + 1,
                            !.exit = IF "disqualifying" \in Findings(look) THEN 1 ELSE 0,
                            !.verdict = CASE "disqualifying" \in Findings(look) -> "reject"
                                          [] Findings(look) = {"caution"} -> "watch"
                                          [] OTHER -> "admit"]
    /\ UNCHANGED project

CandidateNext == Propose \/ AskProject \/ AskReleases \/ AskHistory \/ AskImage \/ AskTags \/ JudgeCandidate
CandidateSpec == CandidateInit /\ [][CandidateNext]_candidateVars
-----------------------------------------------------------------------------
\* The project, and how far it has been looked at.
Questions == {"project", "releases", "history", "image", "tags"}
CandidateTypeOK ==
    /\ project \in ProjectType
    /\ look \in [at: 1..Len(Steps), unanswered: SUBSET Questions, days: Optional(Nat), releases: Optional(0..1),
                 latest: Optional(Nat), image: Optional(BOOLEAN), tags: 0..1,
                 verdict: {"none", "reject", "watch", "admit"}, exit: 0..2]

Done == Steps[look.at] = "done"
Installable == project.released # {} \/ project.tags > 0 \/ project.image = "there"
\* Its own commits go back over the days that show a pattern, or are more than
\* one page of a project that old.
Established == \/ project.span >= MIN_HISTORY_DAYS
               \/ /\ project.commits > PAGE \/ (project.commits = PAGE /\ ~project.fork)
                  /\ project.age >= MIN_HISTORY_DAYS
Alive == ~project.archived /\ \E day \in project.pushed : day <= ABANDONED_DAYS

\* Whatever the forge or the registry leaves unanswered, a candidate is taken
\* only where what it has published was read and bears it out: unread never
\* counts in its favour.  And it is refused only for what it has done or failed
\* to do, or for a question that was not answered, as the findings publication
\* and judge make of an unread answer say: tags or an image that could not be
\* asked about (check_candidate.py:186) refuse nobody who has releases.
Evident ==
    /\ look.unanswered \cap {"project", "releases", "history"} = {}
    /\ Alive /\ Installable /\ Established
    /\ look.verdict = "admit" => /\ ~project.fork /\ project.released # {}
                                /\ \A day \in project.pushed \union project.released : day <= QUIET_DAYS
Doubtful ==
    \/ ~Alive \/ ~Installable \/ ~Established
    \/ look.unanswered \cap {"releases", "history"} # {}
    \/ look.unanswered # {} /\ project.released = {}
CandidateBearsOut == /\ Done /\ look.exit = 0 => Evident
                     /\ Done /\ look.verdict = "reject" => Doubtful

\* check_candidate.py's docstring: "Exit 0 where the history supports admission
\* ..., 1 where it does not, 2 where the history could not be read - which is
\* not the same answer and is never reported as one": a project whose commits
\* alone could not be asked about is not refused for anything it did not do.
UnreadIsNoRefusal ==
    Done /\ look.exit = 1 /\ look.unanswered = {"history"} => ~Alive \/ ~Installable \/ ~Established
=============================================================================
