----------------------------- MODULE MCStackRun -----------------------------
(***************************************************************************)
(* A profile of a network service and a container one, a profile of one    *)
(* recorded defect, a profile that holds nothing and one not runnable.     *)
(***************************************************************************)
EXTENDS StackRun

CONSTANTS jellyfin, recyclarr, caddy, media, tuning, proxy, empty, torrent

MCService     == {jellyfin, recyclarr, caddy}
MCProfile     == {media, tuning, proxy, empty, torrent}
MCRequest     == {{media, proxy}, {media, tuning}, {empty}, {torrent, media}, {Unknown}}
MCProfileOf   == [s \in MCService |-> IF s = caddy THEN proxy ELSE IF s = jellyfin THEN media ELSE tuning]
MCUnrunnable  == {torrent}
MCKnownBroken == {caddy}
MCContainer   == {recyclarr}
=============================================================================
