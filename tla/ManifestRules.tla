---------------------------- MODULE ManifestRules ----------------------------
(***************************************************************************)
(* The stack manifest, stack.toml and the service files it includes, and   *)
(* what validate_manifest.py refuses in it: stack_manifest.py holds the    *)
(* files together, manifest_rules.py, container_rules.py and               *)
(* wiring_rules.py hold what they say.  A rule is the set of the faults it *)
(* reports, and a manifest is refused where there is any.                  *)
(*                                                                         *)
(* A field that may be left out is a set of at most one value.  The fields *)
(* held to nothing but their own shape are told apart by `missing` and     *)
(* `wrong`, the names of those left out and of those of another shape, a   *)
(* field that is retired or unknown among them.                            *)
(***************************************************************************)
EXTENDS Naturals, Sequences, SequencesExt, FiniteSets

CONSTANTS CoreName,         \* the capability names of the right shape
          AddressName,      \* the names the address of a capability may be asked by, a wider shape
          Serves,           \* [SHAPES -> CoreName]: what a service taking a shape provides
          VIA,              \* the capabilities a service may run in the network of
          DataPath,         \* the targets in the data mount
          PlainPath         \* the absolute paths without a fault of their own

ASSUME ManifestAssumption ==
    /\ CoreName \subseteq AddressName
    /\ VIA \subseteq CoreName
    /\ \A shape \in DOMAIN Serves : Serves[shape] \in CoreName
    /\ DataPath \subseteq PlainPath
    /\ "/config" \in PlainPath \ DataPath

PROTOCOLS == {"usenet", "torrent"}
HEALTH_KINDS == {"http", "tcp", "container"}
API_KINDS == {"servarr", "sabnzbd", "qbittorrent", "seerr", "bindery", "jellyfin", "bazarr", "audiobookshelf", "nzbhydra2"}
RESERVED == {"TZ", "PUID", "PGID"}
\* What a service must say.
SERVICE_REQUIRED == {"id", "name", "profile", "image", "tag", "digest", "criticality", "license",
                     "upstream", "last_release", "describes", "without_it"}
\* The fields the container's rules are read from.
TYPED == {"publish", "takes_data", "config_path", "mount", "tmpfs", "env", "user_mode", "posture",
          "mem_limit_mib", "network", "shape"}

\* What may be left out.
AtMostOne(S) == {x \in SUBSET S : \A a, b \in x : a = b}

\* A service as the rules read it; an api or a health check, where it has one.
Fixture == [under: STRING, of: AtMostOne(STRING)]
Service ==
    [id: STRING, missing: SUBSET SERVICE_REQUIRED, wrong: SUBSET STRING, profile: STRING, own: BOOLEAN,
     license: {"own", "osi", "other"}, digest: STRING, reaches: AtMostOne(STRING), asks_for: AtMostOne(STRING),
     provides: Seq(STRING), claim: Seq([capability: STRING, probe: SUBSET Fixture]),
     port: AtMostOne(Nat), bind: AtMostOne(STRING), listens: AtMostOne(Nat), publish: Seq(Nat),
     health: AtMostOne([kind: STRING, path: BOOLEAN]),
     api: AtMostOne([kind: STRING, source: STRING, path: BOOLEAN, version: AtMostOne({1, 3})]),
     takes_data: BOOLEAN, config_path: AtMostOne(STRING), mount: Seq([to: STRING, relative: BOOLEAN]),
     tmpfs: Seq(STRING), env: SUBSET [name: STRING, kind: {"constant", "setting", "url_of", "secret", "none"}, of: STRING],
     user_mode: AtMostOne(STRING), posture: AtMostOne({"standard", "confined"}), via: AtMostOne(STRING),
     shape: AtMostOne(DOMAIN Serves)]
\* The entries of the other tables, and the manifest they are in, whose `include` lists
\* files by the ids they are named after, or what is no such file.
ProfileEntry == [id: STRING, protocol: AtMostOne(STRING)]
FormEntry == [id: STRING, profiles: SUBSET STRING]
WiringEntry == [by: STRING, asks: AtMostOne(STRING), to: AtMostOne(STRING), each: AtMostOne(BOOLEAN),
                filled_by: AtMostOne(STRING), why: BOOLEAN]
RemovalEntry == [id: STRING, said: BOOLEAN, replaced_by: AtMostOne(STRING)]
Document == [service: Seq(Service), profile: Seq(ProfileEntry)]
Manifest(files) ==
    [versions: BOOLEAN, include: Seq(files \union {"elsewhere"}), service: Seq(Service),
     file: [files -> AtMostOne(Document)], profile: Seq(ProfileEntry), form: Seq(FormEntry),
     wiring: Seq(WiringEntry), removed: Seq(RemovalEntry)]

\* Report.check.
Unless(holds, fault) == IF holds THEN {} ELSE {fault}
\* What every `seen` of these rules finds: the places of what was there before.
Again(list) == {i \in DOMAIN list : \E j \in 1..(i - 1) : list[j] = list[i]}
Field(list, field) == [i \in DOMAIN list |-> list[i][field]]
-----------------------------------------------------------------------------
\* stack_manifest.py.  An entry of `include` is the id its file is named after.
Read(m, entry) == IF entry \in DOMAIN m.file THEN m.file[entry] ELSE {}
Held(m, entry) == CHOOSE document \in Read(m, entry) : TRUE
\* What joined takes over of each entry: of one that names no file, nothing.
Pieces(m, table) ==
    [i \in DOMAIN m.include |-> IF Read(m, m.include[i]) = {} THEN <<>> ELSE Held(m, m.include[i])[table]]
Services(m) == m.service \o FlattenSeq(Pieces(m, "service"))
Profiles(m) == m.profile \o FlattenSeq(Pieces(m, "profile"))

FileFaults(entry, document) ==
    LET held == document.service
    IN  Unless(document.profile = <<>>, "a_service_file_holds_something_else")
        \union IF Len(held) # 1 THEN {"a_service_file_holds_one_service"}
               ELSE Unless(held[1].id = entry, "a_service_file_is_named_after_another")
LayoutFaults(m) ==
    Unless(m.service = <<>>, "a_service_in_the_root")
    \union (UNION {IF m.include[i] \notin DOMAIN m.file THEN {"an_entry_of_another_form"}
                   ELSE IF i \in Again(m.include) THEN {"an_entry_twice"}
                   ELSE IF Read(m, m.include[i]) = {} THEN {"an_entry_names_no_file"}
                   ELSE FileFaults(m.include[i], Held(m, m.include[i])) : i \in DOMAIN m.include})
    \union UNION {Unless(Read(m, f) = {} \/ f \in ToSet(m.include), "a_file_no_entry_names") : f \in DOMAIN m.file}
-----------------------------------------------------------------------------
\* manifest_rules.py: the profiles, the forms, and what neither reaches.
ProfileFaults(profiles) ==
    Unless(Again(Field(profiles, "id")) = {}, "a_profile_twice")
    \union (UNION {Unless(p.protocol \subseteq PROTOCOLS, "no_such_protocol") : p \in ToSet(profiles)})
    \union Unless(\A i \in Again(Field(profiles, "protocol")) : profiles[i].protocol = {}, "a_protocol_claimed_twice")
FormFaults(forms, ids) ==
    Unless(Again(Field(forms, "id")) = {}, "a_form_twice")
    \union UNION {Unless(f.profiles # {}, "a_form_of_no_profile")
                  \union Unless(f.profiles \subseteq ids, "a_form_of_a_profile_unknown") : f \in ToSet(forms)}
OrphanFaults(ids, forms, services) ==
    Unless(ids \subseteq {s.profile : s \in ToSet(services)}, "a_profile_of_no_service")
    \union Unless(ids \subseteq UNION {f.profiles : f \in ToSet(forms)}, "a_profile_in_no_form")

\* Every field of a removal but the one it may leave out, then what replaced it.
RemovalFaults(removals, ids) ==
    LET gone == {r.id : r \in ToSet(removals)}
    IN  Unless(Again(Field(removals, "id")) = {}, "a_removal_twice")
        \union UNION {Unless(r.said, "a_removal_without_its_version_or_its_reason")
                      \union Unless(r.id \notin ids, "a_removal_of_what_is_declared")
                      \union Unless(r.id \notin r.replaced_by, "a_removal_replaced_by_itself")
                      \union Unless(r.replaced_by \subseteq ids \union gone, "a_removal_replaced_by_nothing_known")
                      : r \in ToSet(removals)}

\* Where a service reaches and what it asks for there: both, and by all or by none.
Answers(s) == s.reaches \union s.asks_for # {}
ErrandFaults(s) ==
    IF ~Answers(s) THEN {}
    ELSE Unless(s.reaches # {} /\ s.asks_for # {}, "half_an_errand")
         \union Unless(s.asks_for # {""}, "an_errand_that_asks_for_nothing")
ErrandsFaults(services) ==
    Unless(\/ \A s \in ToSet(services) : ~Answers(s)
           \/ \A s \in ToSet(services) : \E t \in ToSet(services) : t.id = s.id /\ Answers(t), "a_silent_service")

ProvidesFaults(s) ==
    Unless(ToSet(s.provides) \subseteq CoreName, "no_core_capability")
    \union Unless(Again(s.provides) = {}, "a_capability_twice")
\* A recording is under its service's name, there, and of the build that is pinned.
RecordingFaults(s, fixture) ==
    IF fixture.under # s.id THEN {"a_recording_kept_with_another"}
    ELSE IF fixture.of = {} THEN {"no_such_recording"}
    ELSE Unless(fixture.of = {s.digest}, "a_recording_of_another_build")
ClaimFaults(s) ==
    Unless(Again(Field(s.claim, "capability")) = {}, "a_claim_twice")
    \union UNION {Unless(c.capability \in ToSet(s.provides), "a_claim_to_what_is_not_provided")
                  \union UNION {RecordingFaults(s, fixture) : fixture \in c.probe} : c \in ToSet(s.claim)}

RuntimeFaults(s) == Unless(s.port = {} \/ s.bind # {}, "a_port_without_a_bind")
HealthFaults(s) ==
    UNION {Unless(h.kind \in HEALTH_KINDS, "no_such_health_check")
           \union Unless(h.kind # "http" \/ h.path, "an_http_check_without_a_path")
           \union Unless(h.kind # "http" \/ s.port # {}, "an_http_check_without_a_port") : h \in s.health}
ApiFaults(s) ==
    UNION {Unless(a.kind \in API_KINDS, "no_such_api")
           \union Unless(a.source \in {"file", "asked"}, "no_such_key_source")
           \union Unless(a.source # "file" \/ a.path, "a_key_file_without_a_path")
           \union Unless(s.listens # {}, "an_api_that_does_not_listen")
           \union Unless(a.kind # "servarr" \/ a.version # {}, "an_api_of_no_version") : a \in s.api}
-----------------------------------------------------------------------------
\* container_rules.py, for a service with no field of another type.
\* user_of.
User(s) == IF s.user_mode # {} THEN s.user_mode
           ELSE IF s.posture = {"confined"} THEN {"uid"} ELSE {"image"}
\* target.
TargetFaults(path, takesData) ==
    IF path \notin PlainPath THEN {"no_plain_path"}
    ELSE Unless(~takesData \/ path \notin DataPath, "a_target_in_the_data_mount")
SlipNoDefault(s) == SetToSeq(s.config_path) \o Field(s.mount, "to") \o s.tmpfs
Targets(s) == (IF s.config_path = {} THEN <<"/config">> ELSE SetToSeq(s.config_path))
              \o Field(s.mount, "to") \o s.tmpfs

Published(s) == Unless(s.publish = <<>> \/ s.port # {}, "further_ports_and_none_of_its_own")
                \union Unless(Again(SetToSeq(s.port) \o s.publish) = {}, "a_port_twice")
Mounted(s) ==
    (UNION {TargetFaults(path, TRUE) : path \in s.config_path})
    \union (UNION {TargetFaults(Targets(s)[i], s.takes_data) : i \in 2..Len(Targets(s))})
    \union Unless(Again(Targets(s)) = {}, "two_on_one_target")
    \union UNION {Unless(mount.relative, "a_mount_from_outside") : mount \in ToSet(s.mount)}
\* valued: a constant, a setting, an address or a secret.
ValueFaults(s, value) ==
    CASE value.kind = "setting" -> Unless(value.of \in {"published", s.id}, "another_setting")
      [] value.kind = "url_of" -> Unless(value.of \in AddressName, "the_address_of_no_capability")
      [] value.kind = "secret" -> {"a_secret_nobody_declares"}
      [] OTHER -> {}
Environed(s) == UNION {Unless(e.name \notin RESERVED, "a_variable_of_lemonfiber") \union ValueFaults(s, e) : e \in s.env}
Confined(s) == IF s.posture # {"confined"} THEN {}
               ELSE Unless(User(s) = {"uid"}, "confined_and_not_a_user_of_its_own")
                    \union Unless(s.shape = {}, "confined_and_shaped")
Routed(s) == Unless(s.via \subseteq VIA, "in_a_network_nobody_may_be_in")
             \union Unless(s.via \cap ToSet(s.provides) = {}, "in_its_own_network")
Shaped(s) == Unless({Serves[shape] : shape \in s.shape} \subseteq ToSet(s.provides), "a_shape_it_does_not_serve")

\* mistyped: a field of another type, or a value of none of the four kinds.
Mistyped(s) == (s.wrong \cap TYPED) \union Unless(\A e \in s.env : e.kind # "none", "a_value_of_no_kind")
ContainerFaults(s) ==
    IF Mistyped(s) # {} THEN {}
    ELSE Published(s) \union Mounted(s) \union Environed(s) \union Confined(s) \union Routed(s) \union Shaped(s)
-----------------------------------------------------------------------------
\* validate_service.
ServiceFaults(s, ids) ==
    s.missing \union s.wrong \union Mistyped(s)
    \union Unless(s.profile \in ids, "a_service_of_a_profile_unknown")
    \union Unless(IF s.own THEN s.license = "own" ELSE s.license = "osi", "a_licence_not_recognised")
    \union ErrandFaults(s) \union ProvidesFaults(s) \union ClaimFaults(s)
    \union RuntimeFaults(s) \union HealthFaults(s) \union ApiFaults(s) \union ContainerFaults(s)

\* wiring_rules.py.  The last service of a name is the one that is asked what it provides.
Provided(services, id) ==
    LET of == {i \in DOMAIN services : services[i].id = id}
    IN  IF of = {} THEN {} ELSE ToSet(services[CHOOSE i \in of : \A j \in of : j <= i].provides)
EndFaults(w, ids) ==
    Unless(w.by \in ids, "a_wiring_by_nobody")
    \union Unless(w.to \union w.filled_by \subseteq ids, "a_wiring_to_nobody")
    \union Unless(w.by \notin w.to \union w.filled_by, "a_wiring_to_itself")
\* Said and true: a name may not even say that it is false.
Each(w) == TRUE \in w.each
OneEnd(w) == (w.asks = {}) # (w.to = {})
AskFaults(w, services) ==
    Unless(w.asks \subseteq CoreName, "an_ask_for_no_capability")
    \union UNION {Unless(w.why, "a_choice_without_a_reason")
                  \union Unless(w.asks \subseteq Provided(services, filler), "a_filler_that_does_not_provide")
                  : filler \in w.filled_by}
WiringFaults(w, services, ids) ==
    EndFaults(w, ids) \union
    IF ~OneEnd(w) THEN {"both_ends_or_neither"}
    ELSE Unless(w.asks # {} \/ w.each \union w.filled_by = {}, "a_name_with_what_an_ask_says")
         \union Unless(~(Each(w) /\ w.filled_by # {}), "each_and_one_of_them")
         \union IF w.to # {} THEN Unless(w.why, "a_name_without_a_reason") ELSE AskFaults(w, services)
Addressed(wirings, services) ==
    LET each == {<<w.by, w.asks>> : w \in {v \in ToSet(wirings) : Each(v)}}
    IN  UNION {UNION {Unless(<<s.id, IF e.kind = "url_of" THEN {e.of} ELSE {}>> \notin each, "one_address_for_each")
                      : e \in s.env} : s \in ToSet(services)}
Ends(wirings) == [i \in DOMAIN wirings |-> <<wirings[i].by, wirings[i].asks, wirings[i].to>>]
WiringsFaults(wirings, services, ids) ==
    (UNION {WiringFaults(w, services, ids) : w \in ToSet(wirings)})
    \union Unless(\A i \in Again(Ends(wirings)) : ~OneEnd(wirings[i]), "a_wiring_twice")
    \union Addressed(wirings, services)

\* validate_manifest, and the layout before it.
Faults(m) ==
    LET services == Services(m)
        ids == {s.id : s \in ToSet(services)}
        profiles == {p.id : p \in ToSet(Profiles(m))}
    IN  LayoutFaults(m) \union Unless(m.versions, "a_version_unsupported")
        \union ProfileFaults(Profiles(m)) \union FormFaults(m.form, profiles)
        \union Unless(Again(Field(services, "id")) = {}, "a_service_twice")
        \union (UNION {ServiceFaults(s, profiles) : s \in ToSet(services)})
        \union ErrandsFaults(services) \union OrphanFaults(profiles, m.form, services)
        \union RemovalFaults(m.removed, ids) \union WiringsFaults(m.wiring, services, ids)
=============================================================================
