------------------------------- MODULE MCDoor -------------------------------
(***************************************************************************)
(* One request after another while a library is given or taken, a session  *)
(* ends and Jellyfin hangs or stops; and, by themselves, one run of a      *)
(* script after another, on doors that differ from the shipped one in one  *)
(* thing or two.                                                           *)
(***************************************************************************)
EXTENDS DoorCheck

MCItem == {open, closed}

\* A request that differs from a plain one in what it names and how, in what it
\* presents, or in who it comes from.
MCRequests ==
    [route: Bytes \union {"named", "splash", "open"}, form: {"normal", "climbing", "backslash", "hidden", "encoded", "dressed", "foreign"},
     item: MCItem, via: {"none"}, source: {"none"}, plain: {TRUE}, token: {"member"}, as: {"header", "spelled"},
     from: {"household"}, claims: {"nobody"}]
    \union
    [route: {"videos", "trickplay", "items", "open"}, form: {"normal"}, item: MCItem, via: {"item", "live", "media"},
     source: MCItem, plain: BOOLEAN, token: {"member"}, as: {"header"}, from: {"household"}, claims: {"nobody"}]
    \union
    [route: {"videos", "open"}, form: {"normal"}, item: {open}, via: {"none"}, source: {"none"}, plain: {TRUE},
     token: {"member", "unknown"}, as: {"header", "query", "bearer", "bearer and more", "nothing"},
     from: {"household", "proxy", "neighbour"}, claims: {"nobody", "household", "away"}]
    \union {c.request : c \in Cases}

MCMoods == {StandIn, [StandIn EXCEPT !.mood = "hung"], [StandIn EXCEPT !.mood = "down"],
            [StandIn EXCEPT !.sees = {}], [StandIn EXCEPT !.sees = @ \union {<<"member", closed>>}]}

\* The broken doors, the shipped one with one handle gone, or
\* two that follow each other, and two more.
MCDoors == {b[1] : b \in BROKEN(Shipped)} \union {[Shipped EXCEPT !.off = {Handles[i], Handles[i + 1]}] : i \in 1..13}
           \union {[Shipped EXCEPT !.off = {Handles[i]}] : i \in 1..14}
           \union {Shipped, [Shipped EXCEPT !.trusts = {}], [Shipped EXCEPT !.abnormal = {"backslash"}]}

\* Bound: no script runs beside a request, or has run.
NoScript == rig = NoRig /\ debris = {} /\ agree

\* Bound: no request beside a script, and Jellyfin the stand-in; one thing at most
\* is left of a run, but of a recording, and nothing where the door is another than
\* the shipped; and no stack goes up on a verdict.
NoneInFlight ==
    /\ In("idle") /\ jellyfin = StandIn
    /\ Cardinality(rig.stuck \union debris) <= 1 \/ (rig.stuck = {} /\ rig.mode = "record")
    /\ rig.door = Shipped \/ (rig.stuck \union debris = {} /\ ~stack)
    /\ stack => rig.raised \/ rig.exit \in {"none", "killed"}

OneOrTheOther == NoScript \/ NoneInFlight
=============================================================================
