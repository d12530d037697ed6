------------------------------ MODULE MCGates -------------------------------
(***************************************************************************)
(* What stands before main beside the manifest's own rules: the gate on    *)
(* open alerts, over two languages, one of which GitHub names the category *)
(* of, and a push that replaces another or a pull request and the queue it *)
(* merges through; the gate on licences, bump after bump of one service;   *)
(* and the judgement of a candidate.  Nothing in the code passes between   *)
(* the three, so a behaviour is of one of them.                            *)
(***************************************************************************)
EXTENDS CodeqlGate, LicenceGate, Candidate

CONSTANTS rust, actions

MCKey == [l \in {"own", "gpl", "gpl-only", "closed"} |-> IF l = "gpl-only" THEN "gpl" ELSE l]
MCSpelled == <<"1", "v1", "release-1">>

\* Histories of every length about a page beside something to install and
\* nothing, then what is published and pushed, beside a history that holds.
Steady == [archived |-> FALSE, fork |-> FALSE, commits |-> 3, span |-> 2, age |-> 3, released |-> {2}, tags |-> 1,
                 pushed |-> {1}, image |-> "there"]
Histories == {[Steady EXCEPT !.archived = archived, !.fork = fork, !.commits = commits, !.span = days[1],
                                   !.age = days[2], !.tags = tags, !.released = released] :
              archived, fork \in BOOLEAN, commits \in 0..3, days \in (0..2) \X (0..2), tags \in 0..1, released \in {{}, {2}}}
Publications == {[Steady EXCEPT !.fork = fork, !.released = released, !.tags = tags, !.pushed = pushed, !.image = image] :
                 fork \in BOOLEAN, released, pushed \in Optional(1..4), tags \in 0..1,
                 image \in {"unoffered", "there", "nowhere"}}
MCProject == {p \in Histories : p.span <= p.age /\ (p.commits = 0 => p.span = 0)} \union Publications
-----------------------------------------------------------------------------
NoCommit == head["pull"] = 0 /\ dismissed = {}
NoService == pinned = <<>>
NoCandidate == look.at = 1

GatesInit == Init /\ GateInit /\ CandidateInit
GatesNext == \/ NoService /\ NoCandidate /\ Next /\ UNCHANGED <<gateVars, candidateVars>>
             \/ NoCommit /\ NoCandidate /\ GateNext /\ UNCHANGED <<vars, candidateVars>>
             \/ NoCommit /\ NoService /\ CandidateNext /\ UNCHANGED <<vars, gateVars>>
GatesSpec == GatesInit /\ [][GatesNext]_<<vars, gateVars, candidateVars>>
=============================================================================
