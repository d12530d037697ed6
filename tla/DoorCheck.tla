----------------------------- MODULE DoorCheck ------------------------------
(***************************************************************************)
(* check_door.py and record_door.py beside the door: a rig of the door's   *)
(* networks at the subnets the project fixes, with Jellyfin or a stand-in  *)
(* for it behind the door, which is asked every case; its self-test, which *)
(* asks the same of every broken door; and the recordings of what Jellyfin *)
(* itself answers.  The rig is removed whatever happened, unless killed or *)
(* Docker refuses.                                                         *)
(***************************************************************************)
EXTENDS Door, FiniteSets

CONSTANTS open, closed,     \* the film the member may see, and the one they may not
          Doors             \* the doors the repository may ship

VARIABLES rig,      \* the run of a script that is under way, or the last one
          debris,   \* what killed runs left in Docker
          stack,    \* whether a stack is up here, which holds the same subnets
          agree     \* whether every recording is there, and agrees with its case

checkVars == <<rig, debris, stack, agree>>
allVars == <<vars, checkVars>>
-----------------------------------------------------------------------------
PASS == "served"
REFUSE == "refused"

\* The stand-in: it answers the question as Jellyfin does.
StandIn == [mood |-> "up", sees |-> {<<"member", open>>}]

Stream == [route |-> "videos", form |-> "normal", item |-> open, via |-> "none", source |-> "none",
           plain |-> TRUE, token |-> "member", as |-> "header", from |-> "household", claims |-> "nobody"]
Case(name, request, expect) == [name |-> name, request |-> request, expect |-> expect]
Nameless(route) == [Stream EXCEPT !.as = "nothing", !.route = route]
Naming(via, item) == [Stream EXCEPT !.via = via, !.source = item]
Tile(item) == [Naming("media", item) EXCEPT !.route = "trickplay"]

\* How a session is presented, and to which item ...
Presenting == {
    Case("stream-presenting-nothing", Nameless("videos"), REFUSE),
    Case("stream-with-the-member-session", Stream, PASS),
    Case("stream-outside-the-member-libraries", [Stream EXCEPT !.item = closed], REFUSE),
    Case("stream-with-an-unknown-token", [Stream EXCEPT !.token = "unknown"], REFUSE),
    Case("stream-with-a-bearer-grant", [Stream EXCEPT !.as = "bearer"], PASS),
    Case("stream-outside-the-member-libraries-with-a-bearer-grant",
         [Stream EXCEPT !.as = "bearer", !.item = closed], REFUSE),
    Case("stream-with-a-field-smuggled-after-the-bearer-grant",
         [Stream EXCEPT !.as = "bearer and more"], REFUSE),
    Case("stream-with-apikey-in-the-query", [Stream EXCEPT !.as = "query"], PASS),
    Case("stream-outside-the-member-libraries-with-the-query",
         [Stream EXCEPT !.as = "query", !.item = closed], REFUSE),
    Case("hls-playlist-with-the-member-session", Naming("media", open), PASS),
    Case("image-presenting-nothing", Nameless("items"), REFUSE),
    Case("image-with-the-member-session", [Stream EXCEPT !.route = "items"], PASS),
    Case("image-outside-the-member-libraries", [Stream EXCEPT !.route = "items", !.item = closed], REFUSE)}

\* ... how a path and a token are spelled ...
Spelling == {
    Case("id-in-braces", [Nameless("odd") EXCEPT !.form = "dressed"], REFUSE),
    Case("stream-climbing-out-with-dot-segments", [Nameless("videos") EXCEPT !.form = "climbing"], REFUSE),
    Case("stream-with-an-encoded-slash", [Nameless("videos") EXCEPT !.form = "encoded"], REFUSE),
    Case("download-with-an-encoded-slash", [Nameless("items") EXCEPT !.form = "encoded"], REFUSE),
    Case("discovery-with-an-encoded-query", [Stream EXCEPT !.route = "open"], PASS),
    Case("name-lookup-with-an-encoded-backslash", [Nameless("open") EXCEPT !.form = "backslash"], REFUSE),
    Case("stream-with-a-token-named-in-another-case", [Stream EXCEPT !.as = "spelled"], REFUSE),
    Case("name-lookup-with-a-pipe", [Nameless("open") EXCEPT !.form = "foreign"], REFUSE),
    Case("stream-on-a-route-letter-encoded", [Nameless("videos") EXCEPT !.form = "hidden"], REFUSE)}

\* ... what a query names beside the path, and what is found by a name ...
Elsewhere == {
    Case("stream-with-a-live-stream-id", Naming("live", closed), REFUSE),
    Case("subtitle-of-another-item-named-in-the-query", Naming("item", closed), REFUSE),
    Case("subtitle-with-the-name-as-an-array", [Naming("item", closed) EXCEPT !.plain = FALSE], REFUSE),
    Case("artist-image-by-name-presenting-nothing", Nameless("named"), REFUSE),
    Case("splashscreen-presenting-nothing", Nameless("splash"), REFUSE)}

\* ... a trickplay playlist's source, and every other path ...
Sources == {
    Case("trickplay-playlist-of-its-own-source", Tile(open), PASS),
    Case("trickplay-playlist-naming-another-item-as-its-source", Tile(closed), REFUSE),
    Case("trickplay-playlist-with-its-source-given-twice", [Tile(closed) EXCEPT !.plain = FALSE], REFUSE),
    Case("catalogue-with-the-member-session", [Stream EXCEPT !.route = "open"], PASS),
    Case("public-information", Nameless("open"), PASS)}

\* ... and who may say which client a request is from.
Claiming == {
    Case("household-claiming-a-remote-client", [Stream EXCEPT !.claims = "away"], PASS),
    Case("proxy-naming-a-remote-client", [Stream EXCEPT !.from = "proxy", !.claims = "away"], REFUSE),
    Case("proxy-naming-a-household-client", [Stream EXCEPT !.from = "proxy", !.claims = "household"], PASS),
    Case("neighbour-claiming-a-remote-client", [Stream EXCEPT !.from = "neighbour", !.claims = "away"], PASS)}

Cases == Presenting \union Spelling \union Elsewhere \union Sources \union Claiming

\* The verdicts a door gives otherwise than its cases say.
Wrongs(d) == {c \in Cases : Outcome(d, c.request, StandIn) # c.expect}

\* What Jellyfin was told of a request it was rightly asked for: from the door's
\* own address, and of the client; a household's is told once, of all of them.
Passed(d) == {c \in Cases \ Wrongs(d) : c.expect = PASS}
Client(q) == IF q.from = "proxy" THEN q.claims ELSE q.from
Mistold(d, placed) == {c \in Passed(d) : \/ ~placed
                                         \/ c.request.from # "household" /\ Told(d, c.request) # Client(c.request)}
Households(d) == {Told(d, c.request) : c \in {e \in Passed(d) : e.request.from = "household"}}

\* `judge': what a door is caught by.
SlipRefusalsOnly(d, placed) == {c.name : c \in {e \in Wrongs(d) : e.expect = REFUSE}}
Problems(d, placed) ==
    {c.name : c \in Wrongs(d) \union Mistold(d, placed)}
    \union (IF Households(d) = {"household"} THEN {} ELSE {"household requests"})

\* The doors that are wrong in one way each, made from the one under test, by the
\* case each must be caught by.
Lacking(d, handle) == [d EXCEPT !.off = @ \union {handle}]
BROKEN(d) == {
    <<[d EXCEPT !.guards = FALSE], "stream-presenting-nothing">>,
    <<[d EXCEPT !.passes = FALSE], "public-information">>,
    <<[d EXCEPT !.trusts = IF "proxy" \in @ THEN {"proxy", "neighbour", "household"} ELSE @],
      "neighbour-claiming-a-remote-client">>,
    <<[d EXCEPT !.tells = FALSE], "proxy-naming-a-remote-client">>,
    <<[d EXCEPT !.bearer = FALSE], "stream-with-a-bearer-grant">>,
    <<[d EXCEPT !.loose = TRUE], "stream-with-a-field-smuggled-after-the-bearer-grant">>,
    <<Lacking(d, "abnormal"), "stream-climbing-out-with-dot-segments">>,
    <<Lacking(d, "encoded_on_bytes"), "stream-with-an-encoded-slash">>,
    <<[d EXCEPT !.abnormal = @ \ {"backslash"}], "name-lookup-with-an-encoded-backslash">>,
    <<Lacking(d, "nonpchar_path"), "name-lookup-with-a-pipe">>,
    <<Lacking(d, "live_stream_on_bytes"), "stream-with-a-live-stream-id">>,
    <<Lacking(d, "token_query"), "stream-with-a-token-named-in-another-case">>,
    <<Lacking(d, "encoded_unreserved"), "stream-on-a-route-letter-encoded">>,
    <<[d EXCEPT !.source = @ /\ "trickplay_source" \in d.off], "trickplay-playlist-naming-another-item-as-its-source">>,
    <<Lacking(d, "item_in_query"), "subtitle-of-another-item-named-in-the-query">>,
    <<[d EXCEPT !.names = FALSE], "subtitle-with-the-name-as-an-array">>,
    <<Lacking(d, "by_name_image"), "artist-image-by-name-presenting-nothing">>}
CaughtBy == {b[2] : b \in BROKEN(Shipped)}
Broken(d, name) == (CHOOSE b \in BROKEN(d) : b[2] = name)[1]

\* A door may lack any handles but the last, and have each part of itself as the
\* shipped or as a broken one has it, in any mixture.
DoorSpace == [off: SUBSET ({Handles[i] : i \in DOMAIN Handles} \ {"rest"}),
              guards: BOOLEAN, passes: BOOLEAN, tells: BOOLEAN, source: BOOLEAN, names: BOOLEAN,
              trusts: SUBSET {"proxy", "neighbour", "household"}, bearer: BOOLEAN, loose: BOOLEAN,
              abnormal: SUBSET {"climbing", "backslash"}]

\* The cases are among what the household may send.
ASSUME CheckAssumption ==
    /\ open # closed
    /\ Doors \subseteq DoorSpace
    /\ {c.request : c \in Cases} \subseteq Requests
-----------------------------------------------------------------------------
Containers == {"jellyfin", "door"}
Subnets == {"front", "upstream"}
Networks == Subnets \union {"published"}

\* What a run makes before it asks anything, in order; the self-test starts each
\* broken door by itself.
Plan(mode) ==
    <<"front", "upstream", "published", "pair">> \o
    CASE mode = "check" -> <<"jellyfin", "door">>
      [] mode = "self-test" -> <<"jellyfin">>
      [] mode = "record" -> <<"media", "direct", "jellyfin", "first run", "door">>
Made == {"front", "upstream", "published", "media", "direct", "jellyfin", "door"}

\* What is removed by a name known beforehand, whatever was made of it.
Named(mode) == Networks \union IF mode = "record" THEN {"media"} ELSE {}

NoRig == [pc |-> "off", mode |-> "check", left |-> <<>>, made |-> {}, listed |-> {}, lost |-> {}, stuck |-> {},
          door |-> Shipped, set |-> TRUE, broken |-> {}, problems |-> FALSE, raised |-> FALSE, exit |-> "none"]

At(pc) == rig.pc = pc
Raised(r) == [r EXCEPT !.pc = "teardown", !.raised = TRUE]
Raise == rig' = Raised(rig)

CheckInit == rig = NoRig /\ debris = {} /\ stack = FALSE /\ agree \in BOOLEAN

\* A script is started: the recordings are held to their cases, and the layout
\* read from the project lemonfiber writes, which may fix none.  The self-test
\* reads the door here, to break it.
Begin(mode) ==
    /\ At("off")
    /\ \E laid \in BOOLEAN, door \in IF mode = "self-test" THEN Doors ELSE {Shipped} :
        rig' = [NoRig EXCEPT !.mode = mode, !.left = Plan(mode), !.door = door,
                             !.broken = IF mode = "self-test" THEN CaughtBy ELSE {},
                             !.pc = IF laid THEN "make" ELSE "over",
                             !.raised = ~laid, !.problems = mode # "record" /\ ~agree]
    /\ debris' = debris \union rig.made
    /\ UNCHANGED <<stack, agree>>

\* Docker makes the next thing, or refuses it, a subnet that is held above all.
\* A container is on the list once it is created, and may fail after that.
Held(o) == o \in Subnets /\ (stack \/ o \in debris)

Keep(r, o) == [r EXCEPT !.made = @ \union ({o} \cap Made), !.listed = @ \union ({o} \cap Made)]

Fails(o) == Raise \/ (o \in Containers /\ rig' = Raised(Keep(rig, o)))

\* The door under test is read as it is started.
Make ==
    /\ At("make")
    /\ LET o == Head(rig.left)
           on == [Keep(rig, o) EXCEPT !.left = Tail(@), !.pc = IF Len(rig.left) = 1 THEN "judge" ELSE "make"]
       IN  \/ Fails(o)
           \/ ~Held(o) /\ o # "door" /\ rig' = on
           \/ ~Held(o) /\ o = "door" /\ \E d \in Doors : rig' = [on EXCEPT !.door = d]
    /\ UNCHANGED <<debris, stack, agree>>

\* The door is asked every case, and for its certificate.  Whether it reaches
\* Jellyfin from its own address, and presents the certificate written beside it,
\* is for Docker and Caddy to say ...
JudgeDoor ==
    /\ At("judge") /\ rig.mode = "check"
    /\ \/ Raise
       \/ \E placed, presented \in BOOLEAN :
            rig' = [rig EXCEPT !.pc = "silence", !.set = placed /\ presented,
                               !.problems = @ \/ Problems(rig.door, placed) # {} \/ ~presented]
    /\ UNCHANGED <<debris, stack, agree>>

\* ... and, with the stand-in stopped, one it would have passed.
Silence ==
    /\ At("silence")
    /\ \/ Raise
       \/ rig' = [rig EXCEPT !.pc = "teardown",
                             !.problems = @ \/ Outcome(rig.door, Stream, [StandIn EXCEPT !.mood = "down"]) # REFUSE]
    /\ UNCHANGED <<debris, stack, agree>>

\* The self-test: a broken door after another, started in the last one's place.
\* One that is the door it was made from is stale, and is not started.
Judged(r, b, problem) == [r EXCEPT !.broken = @ \ {b}, !.problems = @ \/ problem,
                                  !.pc = IF r.broken = {b} THEN "teardown" ELSE "judge"]

JudgeBroken ==
    /\ At("judge") /\ rig.mode = "self-test"
    /\ LET b == CHOOSE one \in rig.broken : TRUE
           door == Broken(rig.door, b)
       IN  \/ door = rig.door /\ rig' = Judged(rig, b, TRUE)
           \/ door # rig.door /\ Fails("door")
           \/ /\ door # rig.door
              /\ \E placed \in BOOLEAN : rig' = Judged(Keep(rig, "door"), b, b \notin Problems(door, placed))
    /\ UNCHANGED <<debris, stack, agree>>

\* The recordings are written one by one, each whatever it says of its case:
\* until the last they are some of this run and some of another.
Record ==
    /\ At("judge") /\ rig.mode = "record"
    /\ \/ Raise /\ UNCHANGED agree
       \/ Raise /\ agree' = FALSE
       \/ \E right \in BOOLEAN :
            /\ rig' = [rig EXCEPT !.pc = "teardown", !.problems = ~right \/ Wrongs(rig.door) # {}]
            /\ agree' = (right /\ Wrongs(rig.door) = {})
    /\ UNCHANGED <<debris, stack>>

\* `__exit__': what was listed, and the networks by their names.  Docker may refuse
\* any of it, which nobody looks at.
SlipListedOnly == rig.listed
Removed == rig.listed \union Named(rig.mode)
TakenDown(stuck) == [rig EXCEPT !.made = @ \ (Removed \ stuck), !.stuck = stuck, !.listed = {}, !.pc = "over"]

Teardown ==
    /\ At("teardown")
    /\ \E stuck \in SUBSET (rig.made \intersect Removed) : rig' = TakenDown(stuck)
    /\ UNCHANGED <<debris, stack, agree>>

Verdict ==
    /\ At("over")
    /\ rig' = [NoRig EXCEPT !.exit = IF rig.problems \/ rig.raised THEN "1" ELSE "0",
                            !.mode = rig.mode, !.raised = rig.raised,
                            !.door = rig.door, !.set = rig.set,
                            !.made = rig.made, !.lost = rig.lost, !.stuck = rig.stuck]
    /\ UNCHANGED <<debris, stack, agree>>

\* An interrupt goes through the teardown; what Docker was still making is made
\* all the same, and not on the list.  In the teardown it leaves the rest undone.
Cut ==
    /\ rig.pc \in {"make", "judge", "silence"}
    /\ \E cut \in SUBSET (IF At("make") THEN {Head(rig.left)} \cap Made ELSE {}) :
        /\ \A o \in cut : ~Held(o)
        /\ rig' = Raised([rig EXCEPT !.made = @ \union cut, !.lost = cut])

CutShort ==
    /\ At("teardown")
    /\ \E stuck \in SUBSET (rig.made \intersect Removed) : rig' = [TakenDown(stuck) EXCEPT !.raised = TRUE]

Interrupt == (Cut \/ CutShort) /\ UNCHANGED <<debris, stack, agree>>

\* A kill leaves what was made, where it was.
Kill ==
    /\ ~At("off")
    /\ rig' = [NoRig EXCEPT !.exit = "killed"]
    /\ debris' = debris \union rig.made
    /\ UNCHANGED <<stack, agree>>

\* A stack goes up where its subnets are free, and down; what is left is swept by hand.
Up ==
    /\ ~stack /\ Subnets \cap (rig.made \union debris) = {}
    /\ stack' = TRUE
    /\ UNCHANGED <<rig, debris, agree>>
Down == stack /\ In("idle") /\ stack' = FALSE /\ UNCHANGED <<rig, debris, agree>>
Sweep == debris # {} /\ debris' = {} /\ UNCHANGED <<rig, stack, agree>>

CheckNext == \/ Make \/ JudgeDoor \/ Silence \/ JudgeBroken \/ Record \/ Teardown \/ Verdict
             \/ Interrupt \/ Kill \/ Up \/ Down \/ Sweep
             \/ \E mode \in {"check", "self-test", "record"} : Begin(mode)

AllInit == Init /\ CheckInit
AllNext == (stack /\ DoorNext /\ UNCHANGED checkVars) \/ (CheckNext /\ UNCHANGED vars)

\* Jellyfin and the household do as they like.
Spec == AllInit /\ [][AllNext]_allVars
-----------------------------------------------------------------------------
\* The state of the rig has its type.
RigTypeOK ==
    /\ rig.mode \in {"check", "self-test", "record"}
    /\ rig.made \subseteq Made /\ rig.listed \subseteq rig.made /\ {rig.lost, rig.stuck} \subseteq SUBSET Made
    /\ rig.exit \in {"none", "0", "1", "killed"} /\ {rig.problems, rig.raised, rig.set} \subseteq BOOLEAN
    /\ rig.broken \subseteq CaughtBy
    /\ debris \subseteq Made /\ stack \in BOOLEAN /\ agree \in BOOLEAN

\* What a door must do of a request, with the stand-in behind it.
Right(d, q) ==
    IF Outcome(d, q, StandIn) = PASS
    THEN /\ ~Unaskable(q) /\ Told(d, q) = For(q)
         /\ q.route = "open" \/ Grants(StandIn, Presented(Shipped, q), Serves(q), For(q))
    ELSE \/ Unaskable(q)
         \/ q.route # "open" /\ \E i \in {q.item, Serves(q)} : ~Grants(StandIn, Presented(Shipped, q), i, For(q))

\* `Exit 0 = the door holds': a door that passes the check decides every request
\* rightly, those that are no case among them, but for those @unkeyed refuses:
\* the one case that names an item in another shape has it encoded, which is
\* refused before.  The recordings agree, and the rig was set as it should be.
\* One that fails, with nothing having failed on the way, has a reason among
\* these, and the self-test none with the shipped door.
Set == agree /\ rig.set
VerdictHolds ==
    /\ At("off") /\ rig.exit = "0" /\ rig.mode = "check" =>
          Set /\ \A q \in Requests : Handle(Shipped, q) = "unkeyed" \/ Right(rig.door, q)
    /\ At("off") /\ rig.exit = "1" /\ ~rig.raised =>
          \/ ~Set
          \/ IF rig.mode = "self-test" THEN rig.door # Shipped ELSE \E q \in Requests : ~Right(rig.door, q)

\* A run that was not killed leaves nothing, whatever failed or wherever it was
\* interrupted, but what Docker was making just then and has no name for, and
\* what it would not remove or was not yet asked to when the teardown was cut.
RemovedAgain == At("off") /\ rig.exit # "killed" => rig.made \subseteq (rig.lost \ Named(rig.mode)) \union rig.stuck

=============================================================================
