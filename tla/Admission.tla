------------------------------ MODULE Admission ------------------------------
(***************************************************************************)
(* The manifest on main and the change proposed to it, edited one entry or *)
(* one field at a time.  The merge queue takes a change only where         *)
(* validate_manifest.py and check_manifest_change.py pass over it.         *)
(***************************************************************************)
EXTENDS ManifestRules

CONSTANTS Shipped,          \* the manifest to begin with
          Value,            \* the values the fields of a service may be given
          NewService,       \* what a new service says of itself
          Profile, Form, Wiring, Removal,   \* the entries that may be written
          MaxEdits          \* bound: how often the manifest is edited

Files == DOMAIN Shipped.file

ASSUME AdmissionAssumption == Faults(Shipped) = {} /\ MaxEdits \in Nat
\* What may be written is of the shape the rules read it in.
ASSUME ShapeAssumption ==
    /\ Files \subseteq STRING /\ Shipped \in Manifest(Files)
    /\ NewService \in Service
    /\ DOMAIN Value \subseteq Files
    /\ \A f \in DOMAIN Value : \A field \in DOMAIN Value[f] : field \in DOMAIN NewService
        /\ \A v \in Value[f][field] : [NewService EXCEPT ![field] = v] \in Service
    /\ Profile \subseteq ProfileEntry /\ Form \subseteq FormEntry
    /\ Wiring \subseteq WiringEntry /\ Removal \subseteq RemovalEntry

VARIABLES main, head, edits

admissionVars == <<main, head, edits>>

Ids(m) == {s.id : s \in ToSet(Services(m))}
\* The part of check_manifest_change.py a pin has nothing to do with.
SlipRootOnly(before, after) ==
    {s.id : s \in ToSet(before.service)} \ Ids(after) \subseteq {r.id : r \in ToSet(after.removed)}
Recorded(before, after) == Ids(before) \ Ids(after) \subseteq {r.id : r \in ToSet(after.removed)}
Passes(before, after) == Faults(after) = {} /\ Recorded(before, after)
-----------------------------------------------------------------------------
AdmissionInit == main = Shipped /\ head = Shipped /\ edits = 0

\* A list with one entry written over, added or taken out.
Rewritten(list, Entry) ==
    {ReplaceAt(list, i, e) : i \in DOMAIN list, e \in Entry} \union {Append(list, e) : e \in Entry}
    \union {RemoveAt(list, i) : i \in DOMAIN list}

Becomes(m) == /\ edits < MaxEdits
              /\ m # head
              /\ head' = m
              /\ edits' = edits + 1
              /\ UNCHANGED main

EditService == \E f \in DOMAIN Value : \E field \in DOMAIN Value[f] :
    \E document \in head.file[f], v \in Value[f][field] :
        /\ document.service # <<>>
        /\ Becomes([head EXCEPT !.file[f] = {[document EXCEPT !.service[1] = [document.service[1] EXCEPT ![field] = v]]}])
EditFile == \E f \in DOMAIN head.file :
    \/ \E document \in head.file[f] :
        \/ Becomes([head EXCEPT !.file[f] = {}])
        \/ \E records \in {<<>>} \union {<<r>> : r \in {r \in Removal : r.id = f}} :
            \E i \in {i \in DOMAIN head.include : head.include[i] = f} :
                Becomes([head EXCEPT !.file[f] = {}, !.include = RemoveAt(@, i), !.removed = @ \o records])
        \/ \E p \in Profile : Becomes([head EXCEPT !.file[f] = {[document EXCEPT !.profile = Append(@, p)]}])
        \/ \E list \in Rewritten(document.service, {[NewService EXCEPT !.id = f]}) :
            Becomes([head EXCEPT !.file[f] = {[document EXCEPT !.service = list]}])
    \/ /\ head.file[f] = {}
       /\ LET document == [service |-> <<[NewService EXCEPT !.id = f]>>, profile |-> <<>>]
          IN  \/ Becomes([head EXCEPT !.file[f] = {document}])
              \/ Becomes([head EXCEPT !.file[f] = {document}, !.include = Append(@, f)])
EditRoot ==
    \/ Becomes([head EXCEPT !.versions = ~@])
    \/ \E list \in Rewritten(head.service, {NewService}) : Becomes([head EXCEPT !.service = list])
    \/ \E list \in Rewritten(head.include, DOMAIN head.file \union {"elsewhere"}) : Becomes([head EXCEPT !.include = list])
    \/ \E list \in Rewritten(head.profile, Profile) : Becomes([head EXCEPT !.profile = list])
    \/ \E list \in Rewritten(head.form, Form) : Becomes([head EXCEPT !.form = list])
    \/ \E list \in Rewritten(head.wiring, Wiring) : Becomes([head EXCEPT !.wiring = list])
    \/ \E list \in Rewritten(head.removed, Removal) : Becomes([head EXCEPT !.removed = list])

Land == /\ head # main
        /\ Passes(main, head)
        /\ main' = head
        /\ UNCHANGED <<head, edits>>

AdmissionNext == EditService \/ EditFile \/ EditRoot \/ Land
AdmissionSpec == AdmissionInit /\ [][AdmissionNext]_admissionVars
-----------------------------------------------------------------------------

\* The manifest on main and the change proposed to it are ones the rules can read.
AdmissionTypeOK == main \in Manifest(Files) /\ head \in Manifest(Files) /\ edits \in 0..MaxEdits

\* A name means one thing: no two of a list share one.
OneMeaning(list) == Cardinality(ToSet(list)) = Len(list)
\* Every service is in a file of its own name, with nothing beside it, that is read once.
FilesRead(m) ==
    /\ m.versions /\ m.service = <<>>
    /\ OneMeaning(m.include) /\ ToSet(m.include) = {f \in DOMAIN m.file : m.file[f] # {}}
    /\ \A f \in DOMAIN m.file : \A document \in m.file[f] :
        document.profile = <<>> /\ Field(document.service, "id") = <<f>>
Named(m) == \A list \in {Services(m), Profiles(m), m.form, m.removed} : OneMeaning(Field(list, "id"))
\* What starts where these profiles are chosen.
Starts(m, chosen) ==
    {s \in ToSet(Services(m)) : \E p \in ToSet(Profiles(m)) : p.id \in chosen /\ s.profile = p.id}
Reached(m) ==
    /\ \A form \in ToSet(m.form) : \A p \in form.profiles : Starts(m, {p}) # {}
    /\ \A form \in ToSet(m.form) : Starts(m, form.profiles) # {}
    /\ UNION {Starts(m, form.profiles) : form \in ToSet(m.form)} = ToSet(Services(m))
    /\ {s.profile : s \in ToSet(Services(m))} = {p.id : p \in ToSet(Profiles(m))}
\* A download that is not configured takes one profile away, and no other does.
Narrowed(m) ==
    \A p, q \in ToSet(Profiles(m)) : p.protocol \subseteq PROTOCOLS /\ (p.protocol \cap q.protocol # {} => p = q)
Whole(m) == FilesRead(m) /\ Named(m) /\ Reached(m) /\ Narrowed(m)

\* Whom a wiring reaches, where it can be told from the manifest alone.
Reaches(m, w) == {s \in ToSet(Services(m)) : s.id \in w.to \union w.filled_by /\ w.asks \subseteq ToSet(s.provides)}
Connects(m, w) ==
    /\ w.by \in Ids(m) /\ w.by \notin w.to \union w.filled_by
    /\ Cardinality(w.asks) + Cardinality(w.to) = 1 /\ w.asks \subseteq CoreName
    /\ {s.id : s \in Reaches(m, w)} = w.to \union w.filled_by
    /\ w.to # {} => w.each = {}
    /\ w.to # {} \/ Each(w) => w.filled_by = {}
    /\ w.to \union w.filled_by # {} => w.why
Wired(m) ==
    /\ \A w \in ToSet(m.wiring) : Connects(m, w)
    /\ OneMeaning(Ends(m.wiring))
    /\ \A s \in ToSet(Services(m)), w \in ToSet(m.wiring) :
        s.id = w.by /\ Each(w) => \A e \in s.env : e.kind = "url_of" => e.of \notin w.asks
\* What left says so, and names what took over: a service, or another that left.
Left(m) ==
    LET gone == {r.id : r \in ToSet(m.removed)}
    IN  /\ gone \cap Ids(m) = {}
        /\ \A r \in ToSet(m.removed) : r.said /\ r.replaced_by \subseteq (Ids(m) \union gone) \ {r.id}
Linked(m) == Wired(m) /\ Left(m)

\* What a service's Compose entry comes to.
Ports(s) == s.port \union ToSet(s.publish)
Mounts(s) == (IF s.config_path = {} THEN {"/config"} ELSE s.config_path)
             \union {mount.to : mount \in ToSet(s.mount)} \union ToSet(s.tmpfs)
Contained(s) ==
    /\ Cardinality(Ports(s)) = Cardinality(s.port) + Len(s.publish)
    /\ Ports(s) # {} => s.port # {} /\ s.bind # {}
    /\ Mounts(s) \subseteq PlainPath /\ Cardinality(Mounts(s)) = 1 + Len(s.mount) + Len(s.tmpfs)
    /\ s.takes_data => Mounts(s) \cap DataPath = {}
    /\ s.config_path \cap DataPath = {} /\ \A mount \in ToSet(s.mount) : mount.relative
    /\ s.posture = {"confined"} => User(s) = {"uid"} /\ s.shape = {}
    /\ \A shape \in s.shape : Serves[shape] \in ToSet(s.provides)
    /\ s.via \subseteq VIA \ ToSet(s.provides)
    /\ \A e \in s.env : /\ e.name \notin RESERVED
                        /\ \/ e.kind = "constant"
                           \/ e.kind = "setting" /\ e.of \in {"published", s.id}
                           \/ e.kind = "url_of" /\ e.of \in AddressName
\* What it says of itself is its own, and can be asked where it says.
Truthful(s) ==
    /\ s.missing = {} /\ s.wrong = {}
    /\ s.license = IF s.own THEN "own" ELSE "osi"
    /\ ToSet(s.provides) \subseteq CoreName /\ OneMeaning(s.provides)
    /\ OneMeaning(Field(s.claim, "capability"))
    /\ \A c \in ToSet(s.claim) : /\ c.capability \in ToSet(s.provides)
                                 /\ c.probe \subseteq {[under |-> s.id, of |-> {s.digest}]}
    /\ \A h \in s.health : h.kind \in HEALTH_KINDS /\ (h.kind = "http" => h.path /\ s.port # {})
    /\ \A a \in s.api : /\ a.kind \in API_KINDS /\ s.listens # {} /\ a.source \in {"file", "asked"}
                        /\ (a.source = "file" => a.path) /\ (a.kind = "servarr" => a.version # {})
\* Where one of them says where it reaches and what it asks for there, they all say both.
Forthcoming(m) ==
    (\E s \in ToSet(Services(m)) : s.reaches \union s.asks_for # {}) =>
        \A s \in ToSet(Services(m)) : s.reaches # {} /\ s.asks_for \notin {{}, {""}}

Sound(m) == /\ Whole(m) /\ Linked(m) /\ Forthcoming(m)
            /\ \A s \in ToSet(Services(m)) : Contained(s) /\ Truthful(s)

\* A manifest passes exactly where it holds together.  None passes in which a
\* file is not read, a name means two things, a form starts nothing or a
\* service is started by none, a wiring or a removal ends nowhere, a container
\* is given two things at one place or more than its service may have, or a
\* recording is of another build; and none is refused for less, whatever one
\* entry leaves in what is kept while the others are read, and wherever a rule
\* returns before it has read the rest (container_rules.py:296).
AcceptsWhatHolds == Faults(head) = {} <=> Sound(head)

\* A service never leaves main in silence: the change that takes it out
\* records it, nothing on main is wired to it any more, and what is said to
\* have replaced it is known.
LeavesWithRecord ==
    [][\A id \in Ids(main) \ Ids(main') :
        /\ \E r \in ToSet(main'.removed) : r.id = id /\ r.said
        /\ \A w \in ToSet(main'.wiring) : id \notin {w.by} \union w.to \union w.filled_by]_main
=============================================================================
