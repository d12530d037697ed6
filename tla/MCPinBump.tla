----------------------------- MODULE MCPinBump ------------------------------
(***************************************************************************)
(* What one service's pin, or one own image's, meets on its way to main;   *)
(* and two services of one run, one of which may fail.                     *)
(***************************************************************************)
EXTENDS PinBump

CONSTANTS sonarr, radarr, decline

\* The services an image was published of, or files edited.
Busy == {s \in Service : registry[s] # 0 \/ Last(main)[s] # None.files}

\* Only one of them at length, or two of a run before anything lands.
Scope ==
    \/ Busy \subseteq {sonarr} \/ Busy \subseteq {decline}
    \/ Busy \subseteq {sonarr, radarr} /\ Len(main) = 1 /\ \A s \in Service : registry[s] <= 1
=============================================================================
