----------------------------- MODULE MCAdmission -----------------------------
(***************************************************************************)
(* Three services, one of which another asks and one it names, and room    *)
(* for a fourth: any two edits of the manifest, landed or not.             *)
(***************************************************************************)
EXTENDS Admission

MCCoreName == {"download.usenet", "network.egress-guard", "media.serve"}
MCAddressName == MCCoreName \union {"a--b.c"}
MCServes == [egress |-> "network.egress-guard", render |-> "media.serve"]
MCVIA == {"network.egress-guard"}
MCDataPath == {"/data/tv"}
MCPlainPath == {"/config", "/cache", "/data/tv"}

MCNewService ==
    [id |-> "d", missing |-> {}, wrong |-> {}, profile |-> "tv", own |-> FALSE, license |-> "osi", digest |-> "new",
     reaches |-> {""}, asks_for |-> {"nothing"}, provides |-> <<>>, claim |-> <<>>, port |-> {}, bind |-> {},
     listens |-> {}, publish |-> <<>>, health |-> {}, api |-> {}, takes_data |-> FALSE, config_path |-> {},
     mount |-> <<>>, tmpfs |-> <<>>, env |-> {}, user_mode |-> {}, posture |-> {}, via |-> {}, shape |-> {}]
Recording(id, of) == [under |-> id, of |-> of]
ServiceA == [MCNewService EXCEPT !.id = "a", !.provides = <<"download.usenet">>, !.profile = "usenet",
                !.claim = <<[capability |-> "download.usenet", probe |-> {Recording("a", {"new"})}]>>,
                !.port = {80}, !.bind = {"lan"}, !.health = {[kind |-> "http", path |-> TRUE]}, !.listens = {80},
                !.mount = <<[to |-> "/cache", relative |-> TRUE]>>]
ServiceB == [MCNewService EXCEPT !.id = "b"]
ServiceC == [MCNewService EXCEPT !.id = "c", !.tmpfs = <<"/cache">>]

Asking(by, capability) == [by |-> by, asks |-> {capability}, to |-> {}, each |-> {}, filled_by |-> {}, why |-> FALSE]
Name(by, id) == [by |-> by, asks |-> {}, to |-> {id}, each |-> {}, filled_by |-> {}, why |-> TRUE]
Filled(by, capability, id) == [Asking(by, capability) EXCEPT !.filled_by = {id}, !.why = TRUE]

MCShipped ==
    [versions |-> TRUE, include |-> <<"a", "b", "c">>, service |-> <<>>,
     file |-> [f \in {"a", "b", "c", "d"} |-> CASE f = "a" -> {[service |-> <<ServiceA>>, profile |-> <<>>]}
                                            [] f = "b" -> {[service |-> <<ServiceB>>, profile |-> <<>>]}
                                            [] f = "c" -> {[service |-> <<ServiceC>>, profile |-> <<>>]}
                                            [] OTHER -> {}],
     profile |-> <<[id |-> "usenet", protocol |-> {"usenet"}], [id |-> "tv", protocol |-> {}]>>,
     form |-> <<[id |-> "all", profiles |-> {"usenet", "tv"}]>>,
     wiring |-> <<Filled("b", "download.usenet", "a"), Name("b", "c")>>,
     removed |-> <<>>]

MCProfile == {[id |-> id, protocol |-> p] : id \in {"usenet", "tv", "torrent"}, p \in {{}, {"usenet"}, {"carrier"}}}
MCForm == {[id |-> id, profiles |-> P] : id \in {"all", "some"}, P \in SUBSET {"usenet", "tv"}}
          \union {[id |-> "some", profiles |-> {"torrent"}]}
MCWiring == UNION {
    {Asking("b", "download.usenet"), [Asking("b", "download.usenet") EXCEPT !.each = {TRUE}],
     Asking("b", "media.serve"), Asking("b", "usenet"), Asking("b", "a--b.c"), Asking("c", "download.usenet")},
    {Name("b", id) : id \in {"a", "b", "c"}}, {Name("a", "b"), [Name("a", "b") EXCEPT !.why = FALSE]},
    {[Name("b", "a") EXCEPT !.each = {e}] : e \in BOOLEAN},
    {[Filled("b", "download.usenet", "a") EXCEPT !.each = {e}] : e \in BOOLEAN},
    { [Name("b", "a") EXCEPT !.filled_by = {"a"}],
     [Name("b", "a") EXCEPT !.asks = {"download.usenet"}], [Name("b", "a") EXCEPT !.to = {}]},
    {Filled("b", "download.usenet", id) : id \in {"b", "c"}}, {Filled("b", "media.serve", "a")},
    {[Filled("b", "download.usenet", "a") EXCEPT !.why = FALSE]}}
MCRemoval == {[id |-> id, said |-> TRUE, replaced_by |-> by] : id \in {"a", "b", "c"}, by \in {{}, {"a"}, {"b"}, {"c"}}}
             \union {[id |-> "b", said |-> FALSE, replaced_by |-> {}]}

Variable(name, kind, of) == {[name |-> name, kind |-> kind, of |-> of]}
MCFields ==
    [id |-> {"a", "b", "c"}, missing |-> {{"name"}}, wrong |-> {{"publish"}, {"last_release"}},
     profile |-> {"usenet", "tv", "torrent"}, own |-> {TRUE}, license |-> {"own", "other"}, digest |-> {"old"},
     reaches |-> {{}, {"tmdb"}}, asks_for |-> {{}, {""}},
     provides |-> {<<>>, <<"download.usenet">>, <<"media.serve">>, <<"network.egress-guard">>, <<"Usenet">>, <<"a--b.c">>,
                   <<"media.serve", "media.serve">>, <<"media.serve", "network.egress-guard">>},
     claim |-> {<<[capability |-> "download.usenet", probe |-> {Recording("b", {"new"})}]>>,
                <<[capability |-> "download.usenet", probe |-> {Recording("a", {"old"})}]>>,
                <<[capability |-> "download.usenet", probe |-> {Recording("a", {"new"}), Recording("a", {})}]>>,
                <<[capability |-> "download.usenet", probe |-> {}], [capability |-> "download.usenet", probe |-> {}]>>},
     port |-> {{}, {80}}, bind |-> {{}, {"lan"}}, listens |-> {{}, {80}}, publish |-> {<<80>>, <<81, 81>>, <<81>>},
     health |-> {{[kind |-> "http", path |-> p]} : p \in BOOLEAN} \union {{[kind |-> "ping", path |-> TRUE]}},
     api |-> {{[kind |-> "servarr", source |-> "file", path |-> p, version |-> v]} : p \in BOOLEAN, v \in {{}, {3}}}
             \union {{[kind |-> "jellyfin", source |-> source, path |-> FALSE, version |-> {}]} : source \in {"asked", "told"}}
             \union {{[kind |-> "plex", source |-> "asked", path |-> FALSE, version |-> {}]}},
     takes_data |-> {TRUE}, config_path |-> {{"/config"}, {"/cache"}, {"/data/tv"}},
     mount |-> {<<>>, <<[to |-> "/config", relative |-> TRUE]>>, <<[to |-> "/cache", relative |-> FALSE]>>,
                <<[to |-> "/data/tv", relative |-> TRUE]>>},
     tmpfs |-> {<<"/cache">>, <<"/">>, <<"/data/tv">>},
     env |-> UNION {{Variable("X", "constant", ""), Variable("TZ", "constant", ""), Variable("X", "none", ""),
                     Variable("X", "secret", "key")},
                    {Variable("X", "setting", of) : of \in {"published", "a", "b"}},
                    {Variable("X", "url_of", of) : of \in {"download.usenet", "usenet", "a--b.c"}}},
     user_mode |-> {{"image"}, {"uid"}}, posture |-> {{"confined"}}, via |-> {{"network.egress-guard"}, {"media.serve"}},
     shape |-> {{"egress"}, {"render"}}]
MCValue == [a |-> MCFields, b |-> [provides |-> {<<"download.usenet">>}, env |-> {Variable("X", "url_of", "download.usenet")}]]
=============================================================================
