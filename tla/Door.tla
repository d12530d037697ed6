-------------------------------- MODULE Door --------------------------------
(***************************************************************************)
(* The door, config/door/Caddyfile: the household's only way to Jellyfin,  *)
(* whose byte routes answer anybody.  A request meets the handles in order *)
(* and the first it matches answers: a refusal, or a question put to       *)
(* Jellyfin about the item, for the session the request presents and the   *)
(* client it came from, or the forward.  Jellyfin's answers may change     *)
(* between a question and the next, and before the forward.                *)
(*                                                                         *)
(* A request is the few things the handles and Jellyfin tell apart:        *)
(*   route   where Jellyfin routes it: "videos", "trickplay" and "items"   *)
(*           name an item, "odd" one in a shape that cannot be asked       *)
(*           about, "named" and "splash" are pictures, "open" the rest     *)
(*   form    whether its path is in the one normal form, or how it is not: *)
(*           "encoded" hides where its segments end, and decodes to another *)
(*           route, "dressed" only what its item is, and keeps to its route *)
(*   item    the item its path names                                       *)
(*   via     whether its query names another, `source', and as what        *)
(*   plain   whether that is spelled as Jellyfin spells it                 *)
(*   token   the session it presents, and how, `as'                        *)
(*   from    who connected, and the client it `claims' to speak for        *)
(***************************************************************************)
EXTENDS Naturals, Sequences, FiniteSetsExt

CONSTANTS Item,
          Requests,     \* the requests the household may send
          Moods         \* bound: the states Jellyfin may be in

Bytes == {"videos", "trickplay", "items", "odd"}    \* the routes that serve an item's bytes
Request == [route: Bytes \union {"named", "splash", "open"},
            form: {"normal", "climbing", "backslash", "hidden", "encoded", "dressed", "foreign"},
            item: Item, via: {"none", "item", "live", "media"}, source: Item \union {"none"}, plain: BOOLEAN,
            token: STRING, as: {"header", "query", "bearer", "bearer and more", "spelled", "nothing"},
            from: STRING, claims: STRING]

ASSUME DoorAssumption ==
    /\ Requests \subseteq Request
    /\ \A q \in Requests : q.via # "none" => q.source \in Item
    /\ Moods \subseteq [mood: {"up", "hung", "down"}, sees: SUBSET (STRING \X Item)]

VARIABLES jellyfin,     \* whether it answers, the sessions it knows, what each may see
          req,          \* the request in flight
          moments       \* every state Jellyfin was in since that request arrived, as history

vars == <<jellyfin, req, moments>>
-----------------------------------------------------------------------------
\* A door, as it is configured: the shipped one, from which check_door.py's
\* broken ones differ in a thing or two.
Shipped == [off |-> {}, guards |-> TRUE, passes |-> TRUE, trusts |-> {"proxy"}, tells |-> TRUE,
            bearer |-> TRUE, loose |-> FALSE, source |-> TRUE, names |-> TRUE,
            abnormal |-> {"climbing", "backslash"}]

\* The session Jellyfin reads of a request: a bearer grant is first put in its
\* own form, where it is nothing but a token.
Presented(d, q) ==
    CASE q.as \in {"header", "query"} -> q.token
      [] q.as = "bearer" /\ d.bearer -> q.token
      [] q.as = "bearer and more" /\ d.bearer /\ d.loose -> q.token
      [] q.as = "spelled" -> "another"
      [] OTHER -> "nobody"

\* The session the question carries: a token the query spells another way, beside
\* the header's, is not in it.
SlipHeadersOnly(d, q) == IF q.as = "spelled" THEN q.token ELSE IF q.as = "query" THEN "nobody" ELSE Presented(d, q)
Carried(d, q) == IF q.as = "spelled" THEN q.token ELSE Presented(d, q)

\* The client Jellyfin is told: who connected, unless one the door trusts names
\* another, whom it is told of alone or, as the request came, beside that one.
Told(d, q) == IF q.claims = "nobody" \/ q.from \notin d.trusts THEN q.from
              ELSE IF d.tells THEN q.claims ELSE "chain"

\* A route is read on the path Caddy cleaned and decoded, which says the same as
\* the bytes that are forwarded only in the normal form ...
On(d, q, routes) == d.guards /\ q.form \in {"normal", "dressed"} /\ q.route \in routes
\* ... or on the raw path, unless its letters are encoded.
RawOn(q, routes) == q.form # "hidden" /\ q.route \in routes

Matches(d, h, q) ==
    CASE h = "abnormal" -> q.form \in d.abnormal
      [] h = "encoded_unreserved" -> q.form = "hidden"
      [] h = "token_query" -> q.as = "spelled"
      [] h = "encoded_on_bytes" -> q.form \in {"encoded", "dressed"} /\ RawOn(q, Bytes)
      [] h = "nonpchar_path" -> q.form = "foreign"
      [] h = "live_stream_on_bytes" -> q.via = "live" /\ RawOn(q, Bytes)
      [] h = "item_in_query" -> q.via = "item" /\ (q.plain \/ d.names) /\ RawOn(q, Bytes)
      [] h = "by_name_image" -> RawOn(q, {"named"})
      [] h = "splashscreen" -> RawOn(q, {"splash"})
      [] h = "trickplay_source_unaskable" -> q.via = "media" /\ ~q.plain /\ On(d, q, {"trickplay"})
      [] h = "trickplay_source" -> q.via = "media" /\ On(d, q, {"trickplay"})
      [] h = "keyed" -> On(d, q, {"videos", "trickplay"})
      [] h = "owned" -> On(d, q, {"items"})
      [] h = "unkeyed" -> On(d, q, Bytes)
      [] h = "rest" -> TRUE

\* The handles, in the order they are tried.
SlipKeyedFirst == <<"abnormal", "encoded_unreserved", "token_query", "encoded_on_bytes", "nonpchar_path",
             "live_stream_on_bytes", "item_in_query", "by_name_image", "splashscreen",
             "keyed", "trickplay_source_unaskable", "trickplay_source", "owned", "unkeyed", "rest">>
Handles == <<"abnormal", "encoded_unreserved", "token_query", "encoded_on_bytes", "nonpchar_path",
             "live_stream_on_bytes", "item_in_query", "by_name_image", "splashscreen",
             "trickplay_source_unaskable", "trickplay_source", "keyed", "owned", "unkeyed", "rest">>

Handle(d, q) ==
    Handles[Min({i \in DOMAIN Handles : Handles[i] \notin d.off /\ Matches(d, Handles[i], q)})]

\* The items a handle asks about before the forward, or no forward at all.
Asks(d, q) == CASE Handle(d, q) = "trickplay_source" -> <<q.item, IF d.source /\ q.plain THEN q.source ELSE q.item>>
                [] Handle(d, q) \in {"keyed", "owned"} -> <<q.item>>
                [] OTHER -> <<>>
Refuses(d, q) == ~d.passes \/ Handle(d, q) \notin {"trickplay_source", "keyed", "owned", "rest"}
-----------------------------------------------------------------------------
\* What Jellyfin answers of an item: for a session it knows, of an item that
\* session may see, and to a client it serves.
Grants(j, session, item, client) == <<session, item>> \in j.sees /\ client # "away"

\* A door with Jellyfin, or what stands in for it, answering the same throughout.
Outcome(d, q, j) ==
    IF Refuses(d, q) \/ j.mood # "up" THEN "refused"
    ELSE IF \A i \in DOMAIN Asks(d, q) : Grants(j, Carried(d, q), Asks(d, q)[i], Told(d, q))
    THEN "served" ELSE "refused"
-----------------------------------------------------------------------------
NoRequest == [pc |-> "idle", left |-> <<>>]

Init ==
    /\ jellyfin \in Moods
    /\ req = NoRequest
    /\ moments = {}

In(pc) == req.pc = pc
To(pc) == req' = [req EXCEPT !.pc = pc]

\* A request comes, and meets its handle.
Arrive(q) ==
    /\ In("idle")
    /\ req' = [pc |-> IF Refuses(Shipped, q) THEN "refused" ELSE "asking",
               left |-> Asks(Shipped, q), q |-> q]
    /\ moments' = {jellyfin}
    /\ UNCHANGED jellyfin

\* One question, answered: on to the next, or refused with the answer.
Ask ==
    /\ In("asking") /\ req.left # <<>> /\ jellyfin.mood = "up"
    /\ req' = IF Grants(jellyfin, Carried(Shipped, req.q), Head(req.left), Told(Shipped, req.q))
              THEN [req EXCEPT !.left = Tail(@)] ELSE [req EXCEPT !.pc = "refused"]
    /\ UNCHANGED <<jellyfin, moments>>

\* One that is not answered is given up: it is not dialled in five seconds, or
\* not answered in fifteen.
Unanswered ==
    /\ In("asking") /\ req.left # <<>> /\ jellyfin.mood # "up"
    /\ To("refused") /\ UNCHANGED <<jellyfin, moments>>

\* The forward, which waits for an answer as long as Jellyfin takes.
Forward ==
    /\ In("asking") /\ req.left = <<>>
    /\ \/ jellyfin.mood = "up" /\ To("served")
       \/ jellyfin.mood = "down" /\ To("refused")
    /\ UNCHANGED <<jellyfin, moments>>

Leave ==
    /\ req.pc \in {"served", "refused"}
    /\ req' = NoRequest /\ moments' = {}
    /\ UNCHANGED jellyfin

\* Jellyfin stops, hangs or comes back; a session ends, a library is given or taken.
Change ==
    /\ jellyfin' \in Moods
    /\ moments' = IF In("idle") THEN {} ELSE moments \union {jellyfin'}
    /\ UNCHANGED req

DoorNext == Ask \/ Unanswered \/ Forward \/ Leave \/ Change \/ \E q \in Requests : Arrive(q)
-----------------------------------------------------------------------------
\* The state has its type.
TypeOK ==
    /\ jellyfin \in Moods
    /\ req.pc \in {"idle", "asking", "served", "refused"}
    /\ req.left \in {<<>>} \union {<<i>> : i \in Item} \union {<<i, j>> : i, j \in Item}
    /\ req.pc # "idle" => req.q \in Requests
    /\ moments \subseteq Moods

\* The item Jellyfin serves the bytes of, which is not always the path's.
Serves(q) ==
    IF q.via \in {"item", "live"} \/ (q.via = "media" /\ q.route = "trickplay") THEN q.source ELSE q.item

\* The client a request is for: the one the proxy vouches for, or who connected.
For(q) == IF q.from = "proxy" /\ q.claims # "nobody" THEN q.claims ELSE q.from

\* `Before a request for an item's bytes goes on, the door asks': the bytes that
\* are served are of an item that, at some moment since the request came, the
\* session Jellyfin reads might see from where the request is.  What it serves by
\* a name is not served at all.
ServedAsSeen ==
    In("served") /\ req.q.route # "open" =>
        /\ req.q.route \in {"videos", "trickplay", "items"}
        /\ \E j \in moments : Grants(j, Presented(Shipped, req.q), Serves(req.q), For(req.q))

\* Every one of them has one normal form, in which it can be asked about: these
\* the door may refuse whatever Jellyfin says.
Unaskable(q) ==
    \/ q.form # "normal" /\ (q.form \in {"encoded", "dressed"} => q.route # "open")
    \/ q.as = "spelled"
    \/ q.route \in {"odd", "named", "splash"}
    \/ q.route \in Bytes /\ q.via \in {"live", "item"}
    \/ q.route = "trickplay" /\ q.via = "media" /\ ~q.plain

\* `A 2xx passes the request on', and every other path goes on: a request that
\* can be asked about is refused only if Jellyfin did not answer at some moment,
\* or would have refused it.
RefusedForAReason ==
    In("refused") =>
        \/ Unaskable(req.q)
        \/ \E j \in moments : j.mood # "up"
        \/ /\ req.q.route # "open"
           /\ \E j \in moments, i \in {req.q.item, Serves(req.q)} :
                ~Grants(j, Presented(Shipped, req.q), i, For(req.q))

=============================================================================
