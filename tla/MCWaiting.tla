----------------------------- MODULE MCWaiting ------------------------------
(***************************************************************************)
(* One container probe and two network ones on different budgets; an ask   *)
(* can outlast the pause, and the container's budget its dwell.            *)
(***************************************************************************)
EXTENDS Waiting

CONSTANTS jellyfin, caddy, recyclarr

MCService   == {jellyfin, caddy, recyclarr}
MCPosition  == [s \in MCService |-> IF s = jellyfin THEN 1 ELSE IF s = caddy THEN 2 ELSE 3]
MCTimeout   == [s \in MCService |-> IF s = jellyfin THEN 6 ELSE IF s = caddy THEN 3 ELSE 5]
MCContainer == {recyclarr}
=============================================================================
