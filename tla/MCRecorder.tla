----------------------------- MODULE MCRecorder -----------------------------
(***************************************************************************)
(* One machine, one of the images on it already: an invocation of two      *)
(* services, or of one nobody knows and another; and beside the latter a   *)
(* second one, of a service of its own.                                    *)
(***************************************************************************)
EXTENDS Recorder

CONSTANTS one, other, sonarr, radarr, jellyfin, nosuch

MCRunner  == {one, other}
MCService == {sonarr, radarr, jellyfin, nosuch}
MCWanted  == [r \in MCRunner |-> IF r = one THEN {<<sonarr, radarr>>, <<nosuch, sonarr>>} ELSE {<<jellyfin>>}]
MCRecipes == {sonarr, radarr, jellyfin}
MCTheirs  == {radarr}

\* Bound: the second invocation finds nothing of another service than sonarr, and
\* none is held beside it.
TwoAtOnce ==
    job[other] # AtRest =>
        /\ job[one].given \in {<<>>, <<nosuch, sonarr>>}
        /\ container[radarr] = None /\ image[radarr] = "theirs" /\ misread = {}
        /\ \A r \in Runner : ~job[r].hold
        /\ \A s \in Service : container[s].care # "held"

\* Bound: two ports, of which one is free where one is asked for.
OneIsFree == \A r \in Runner : At(r, "look") => Free # {}
=============================================================================
