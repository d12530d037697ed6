------------------------------- MODULE Probes -------------------------------
(***************************************************************************)
(* What a wait over a set of probes promises, whatever order it asks them  *)
(* in and however it keeps time: each probe is decided once, `ok' only     *)
(* while its service answers and `late' only while it does not.            *)
(* Waiting.tla implements it, as wait_for_all in scripts/check_runs.py.    *)
(***************************************************************************)
CONSTANT Service            \* the services asked

VARIABLES answering,        \* the services that would answer if asked now
          verdict           \* what the wait has said of each

vars == <<answering, verdict>>

Verdict == {"none", "ok", "late"}

Init ==
    /\ answering \in SUBSET Service
    /\ verdict = [s \in Service |-> "none"]

Decide(s, said) ==
    /\ verdict[s] = "none"
    /\ verdict' = [verdict EXCEPT ![s] = said]

Hear(s)   == s \in answering /\ Decide(s, "ok")

GiveUp(s) == s \notin answering /\ Decide(s, "late")

\* Services start and stop answering at any time, in a step of their own or
\* while another one is being asked.
Next ==
    /\ answering' \in SUBSET Service
    /\ \/ \E s \in Service : Hear(s) \/ GiveUp(s)
       \/ UNCHANGED verdict

Spec == Init /\ [][Next]_vars
=============================================================================
