--------------------------- MODULE AdmissionProofs ---------------------------
(***************************************************************************)
(* What the rules of the manifest and the record of a change come to       *)
(* together, for any manifest and whatever is written in it.               *)
(***************************************************************************)
EXTENDS Admission, SequenceTheorems, FiniteSetTheorems, TLAPS

\* What the profiles are called.
Profiled(m) == {p.id : p \in ToSet(Profiles(m))}

\* A manifest has no fault just where no rule has one to report.
LEMMA FaultsInParts ==
    ASSUME NEW m
    PROVE  Faults(m) = {} <=>
               /\ LayoutFaults(m) = {} /\ m.versions /\ ProfileFaults(Profiles(m)) = {}
               /\ FormFaults(m.form, Profiled(m)) = {}
               /\ Again(Field(Services(m), "id")) = {}
               /\ \A s \in ToSet(Services(m)) : ServiceFaults(s, Profiled(m)) = {}
               /\ ErrandsFaults(Services(m)) = {} /\ OrphanFaults(Profiled(m), m.form, Services(m)) = {}
               /\ RemovalFaults(m.removed, Ids(m)) = {} /\ WiringsFaults(m.wiring, Services(m), Ids(m)) = {}
  <1> DEFINE services == Services(m)
             ids == {s.id : s \in ToSet(services)}
             profiles == {p.id : p \in ToSet(Profiles(m))}
             layout == LayoutFaults(m)
             version == Unless(m.versions, "a_version_unsupported")
             ofProfiles == ProfileFaults(Profiles(m))
             ofForms == FormFaults(m.form, profiles)
             twice == Unless(Again(Field(services, "id")) = {}, "a_service_twice")
             ofServices == UNION {ServiceFaults(s, profiles) : s \in ToSet(services)}
             ofErrands == ErrandsFaults(services)
             orphans == OrphanFaults(profiles, m.form, services)
             ofRemovals == RemovalFaults(m.removed, ids)
             ofWirings == WiringsFaults(m.wiring, services, ids)
  <1>1. Faults(m) = layout \union version \union ofProfiles \union ofForms \union twice \union ofServices
                    \union ofErrands \union orphans \union ofRemovals \union ofWirings
    BY Zenon DEF Faults
  <1>2. ids = Ids(m) /\ profiles = Profiled(m)
    BY Zenon DEF Ids, Profiled
  <1>3. (version = {} <=> m.versions) /\ (twice = {} <=> Again(Field(services, "id")) = {})
    BY DEF Unless
  <1>4. ofServices = {} <=> \A s \in ToSet(services) : ServiceFaults(s, profiles) = {}
    <2> HIDE DEF services, profiles
    <2> QED
      OBVIOUS
  <1>5. Faults(m) = {} <=>
            /\ layout = {} /\ version = {} /\ ofProfiles = {} /\ ofForms = {} /\ twice = {} /\ ofServices = {}
            /\ ofErrands = {} /\ orphans = {} /\ ofRemovals = {} /\ ofWirings = {}
    <2> HIDE DEF layout, version, ofProfiles, ofForms, twice, ofServices, ofErrands, orphans, ofRemovals, ofWirings
    <2> QED
      BY <1>1
  <1>6. Faults(m) = {} <=>
            /\ layout = {} /\ m.versions /\ ofProfiles = {} /\ ofForms = {} /\ Again(Field(services, "id")) = {}
            /\ \A s \in ToSet(services) : ServiceFaults(s, profiles) = {}
            /\ ofErrands = {} /\ orphans = {} /\ ofRemovals = {} /\ ofWirings = {}
    <2> HIDE DEF layout, version, ofProfiles, ofForms, twice, ofServices, ofErrands, orphans, ofRemovals, ofWirings, services, profiles
    <2> QED
      BY <1>3, <1>4, <1>5
  <1>7. QED
    BY <1>2, <1>6, Zenon

\* A removal that the rules take says from which version, and why.
LEMMA RemovalsSay ==
    ASSUME NEW m, Faults(m) = {}, NEW r \in ToSet(m.removed)
    PROVE  r.said /\ r.id \notin Ids(m)
  <1>1. Unless(r.said, "a_removal_without_its_version_or_its_reason") \subseteq RemovalFaults(m.removed, Ids(m))
    BY DEF RemovalFaults
  <1>2. Unless(r.id \notin Ids(m), "a_removal_of_what_is_declared") \subseteq RemovalFaults(m.removed, Ids(m))
    BY DEF RemovalFaults
  <1>3. QED
    BY <1>1, <1>2, FaultsInParts DEF Unless

\* A wiring that the rules take ends at services that are declared.
LEMMA WiringsEndSomewhere ==
    ASSUME NEW m, Faults(m) = {}, NEW w \in ToSet(m.wiring)
    PROVE  w.by \in Ids(m) /\ w.to \union w.filled_by \subseteq Ids(m)
  <1>1. EndFaults(w, Ids(m)) \subseteq WiringFaults(w, Services(m), Ids(m))
    BY DEF WiringFaults
  <1>2. WiringFaults(w, Services(m), Ids(m)) \subseteq WiringsFaults(m.wiring, Services(m), Ids(m))
    BY DEF WiringsFaults
  <1>3. EndFaults(w, Ids(m)) = {}
    BY <1>1, <1>2, FaultsInParts
  <1>4. /\ Unless(w.by \in Ids(m), "a_wiring_by_nobody") = {}
        /\ Unless(w.to \union w.filled_by \subseteq Ids(m), "a_wiring_to_nobody") = {}
    BY <1>3 DEF EndFaults
  <1>5. QED
    BY <1>4 DEF Unless

\* Whatever the manifest says and however it is edited, a service that leaves
\* main is recorded as having left, with its version and its reason, and no
\* wiring on main names it any more.
THEOREM LeaversAreRecorded == AdmissionSpec => LeavesWithRecord
  <1> DEFINE Gone(id) == /\ \E r \in ToSet(main'.removed) : r.id = id /\ r.said
                         /\ \A w \in ToSet(main'.wiring) : id \notin {w.by} \union w.to \union w.filled_by
  <1>1. ASSUME [AdmissionNext]_admissionVars, main' # main, NEW id \in Ids(main) \ Ids(main') PROVE Gone(id)
    <2>1. main' = head /\ Passes(main, head)
      BY <1>1 DEF AdmissionNext, EditService, EditFile, EditRoot, Becomes, Land, admissionVars
    <2>2. Faults(main') = {} /\ id \in {r.id : r \in ToSet(main'.removed)}
      BY <1>1, <2>1 DEF Passes, Recorded
    <2>3. PICK r \in ToSet(main'.removed) : r.id = id
      BY <2>2
    <2>4. r.said
      BY <2>2, RemovalsSay
    <2>5. \A w \in ToSet(main'.wiring) : id \notin {w.by} \union w.to \union w.filled_by
      BY <1>1, <2>2, WiringsEndSomewhere
    <2>6. QED
      BY <2>3, <2>4, <2>5
  <1>2. [AdmissionNext]_admissionVars =>
            [\A id \in Ids(main) \ Ids(main') :
                /\ \E r \in ToSet(main'.removed) : r.id = id /\ r.said
                /\ \A w \in ToSet(main'.wiring) : id \notin {w.by} \union w.to \union w.filled_by]_main
    BY <1>1
  <1>3. QED
    BY <1>2, PTL DEF AdmissionSpec, LeavesWithRecord
-----------------------------------------------------------------------------
\* Lists: what is listed twice, and what is listed where lists are joined.

LEMMA SeqIsFunction ==
    ASSUME NEW S, NEW list \in Seq(S)
    PROVE  Len(list) \in Nat /\ DOMAIN list = 1..Len(list) /\ \A i \in 1..Len(list) : list[i] \in S
  OBVIOUS

\* A list has as many members as places just where Again finds none.
LEMMA NothingAgain ==
    ASSUME NEW S, NEW list \in Seq(S)
    PROVE  OneMeaning(list) <=> Again(list) = {}
  <1> DEFINE n == Len(list)
             members == ToSet(list)
  <1>1. n \in Nat /\ DOMAIN list = 1..n /\ list = [i \in 1..n |-> list[i]]
    BY LenProperties
  <1>2. members = {list[i] : i \in 1..n}
    BY <1>1 DEF ToSet
  <1>3. list \in Surjection(1..n, members)
    <2>1. list \in [1..n -> members]
      BY <1>1, <1>2
    <2>2. \A t \in members : \E i \in 1..n : list[i] = t
      BY <1>2
    <2> HIDE DEF n, members
    <2>3. QED
      BY <2>1, <2>2 DEF Surjection
  <1>4. IsFiniteSet(1..n) /\ Cardinality(1..n) = n
    <2> HIDE DEF n
    <2> QED
      BY <1>1, FS_Interval
  <1>5. Cardinality(members) = n <=> list \in Injection(1..n, members)
    <2> HIDE DEF n, members
    <2> QED
      BY <1>3, <1>4, FS_Surjection
  <1>6. list \in Injection(1..n, members) <=> \A i, j \in 1..n : list[i] = list[j] => i = j
    <2>1. list \in [1..n -> members]
      BY <1>3 DEF Surjection
    <2> HIDE DEF n, members
    <2> QED
      BY <2>1, <1>1 DEF Injection, IsInjective
  <1>7. (\A i, j \in 1..n : list[i] = list[j] => i = j) <=> Again(list) = {}
    <2>1. Again(list) = {i \in 1..n : \E j \in 1..(i - 1) : list[j] = list[i]}
      BY <1>1 DEF Again
    <2>2. ASSUME \A i, j \in 1..n : list[i] = list[j] => i = j PROVE Again(list) = {}
      <3> SUFFICES ASSUME NEW i \in 1..n, NEW j \in 1..(i - 1), list[j] = list[i] PROVE FALSE
        BY <2>1
      <3>1. j \in 1..n /\ j # i
        BY <1>1
      <3>2. QED
        BY <2>2, <3>1
    <2>3. ASSUME Again(list) = {} PROVE \A i, j \in 1..n : list[i] = list[j] => i = j
      <3> SUFFICES ASSUME NEW i \in 1..n, NEW j \in 1..n, list[i] = list[j], i # j PROVE FALSE
        OBVIOUS
      <3>1. i \in 1..(j - 1) \/ j \in 1..(i - 1)
        BY <1>1
      <3>2. i \in Again(list) \/ j \in Again(list)
        BY <3>1, <2>1
      <3>3. QED
        BY <2>3, <3>2
    <2>4. QED
      BY <2>2, <2>3
  <1>8. QED
    BY <1>5, <1>6, <1>7 DEF OneMeaning

\* And what is at two places of it is then the same place.
LEMMA OnePlaceEach ==
    ASSUME NEW S, NEW list \in Seq(S), Again(list) = {}, NEW i \in 1..Len(list), NEW j \in 1..Len(list), list[i] = list[j]
    PROVE  i = j
  <1> SUFFICES ASSUME i # j PROVE FALSE
    OBVIOUS
  <1>1. Len(list) \in Nat /\ DOMAIN list = 1..Len(list)
    BY LenProperties
  <1>2. i \in 1..(j - 1) \/ j \in 1..(i - 1)
    BY <1>1
  <1>3. i \in Again(list) \/ j \in Again(list)
    BY <1>1, <1>2 DEF Again
  <1>4. QED
    BY <1>3

LEMMA JoinedMembers ==
    ASSUME NEW S, NEW a \in Seq(S), NEW b \in Seq(S)
    PROVE  a \o b \in Seq(S) /\ Len(a \o b) = Len(a) + Len(b) /\ ToSet(a \o b) = ToSet(a) \union ToSet(b)
  <1>1. a \o b \in Seq(S) /\ Len(a \o b) = Len(a) + Len(b)
    BY ConcatProperties
  <1>2. Range(a \o b) = Range(a) \union Range(b)
    BY RangeConcatenation
  <1>3. \A list : ToSet(list) = Range(list)
    BY DEF ToSet, Range
  <1>4. QED
    BY <1>1, <1>2, <1>3

LEMMA OneListed ==
    ASSUME NEW S, NEW e \in S
    PROVE  <<e>> \in Seq(S) /\ Len(<<e>>) = 1 /\ ToSet(<<e>>) = {e}
  BY DEF ToSet

\* What may be left out, as a list.
LEMMA AtMostOneListed ==
    ASSUME NEW S, NEW x \in AtMostOne(S)
    PROVE  /\ SetToSeq(x) \in Seq(S) /\ ToSet(SetToSeq(x)) = x
           /\ Len(SetToSeq(x)) = Cardinality(x) /\ Cardinality(x) = IF x = {} THEN 0 ELSE 1
  <1>1. x \subseteq S /\ \A a, b \in x : a = b
    BY DEF AtMostOne
  <1>2. CASE x = {}
    <2>1. Cardinality(x) = 0
      BY <1>2, FS_EmptySet
    <2>2. \A f \in [1..0 -> {}] : f = <<>>
      OBVIOUS
    <2>3. <<>> \in [1..0 -> {}] /\ IsInjective(<<>>)
      BY DEF IsInjective
    <2>4. SetToSeq(x) = <<>>
      BY <1>2, <2>1, <2>2, <2>3 DEF SetToSeq
    <2>5. ToSet(<<>>) = {} /\ Len(<<>>) = 0 /\ <<>> \in Seq(S)
      BY DEF ToSet
    <2>6. QED
      BY <1>2, <2>1, <2>4, <2>5
  <1>3. CASE x # {}
    <2>1. PICK e \in S : x = {e}
      BY <1>1, <1>3
    <2>2. Cardinality(x) = 1
      BY <2>1, FS_Singleton
    <2>3. \A f \in [1..1 -> x] : f = <<e>>
      BY <2>1
    <2>4. <<e>> \in [1..1 -> x] /\ IsInjective(<<e>>)
      BY <2>1 DEF IsInjective
    <2>5. SetToSeq(x) = <<e>>
      BY <2>2, <2>3, <2>4 DEF SetToSeq
    <2>6. ToSet(<<e>>) = {e} /\ Len(<<e>>) = 1 /\ <<e>> \in Seq(S)
      BY DEF ToSet
    <2>7. QED
      BY <1>3, <2>1, <2>2, <2>5, <2>6
  <1>4. QED
    BY <1>2, <1>3

\* The lists that are joined one after another, as FlattenSeq joins them.
JoinsUpTo(joined, lists, n) ==
    joined = [i \in 1..n |-> IF i = 1 THEN lists[i] ELSE joined[i - 1] \o lists[i]]

\* There is such a joining, however many lists there are.
LEMMA JoiningIsThere ==
    ASSUME NEW lists, NEW n \in Nat
    PROVE  \E joined : JoinsUpTo(joined, lists, n)
  <1> DEFINE without == {k \in Nat : ~ \E joined : JoinsUpTo(joined, lists, k)}
  <1> SUFFICES ASSUME without # {} PROVE FALSE
    OBVIOUS
  <1>1. PICK k \in without : \A other \in without : ~(other < k)
    <2>1. PICK k \in without : \A other \in without : <<other, k>> \notin OpToRel(<, Nat)
      <3>1. \E k \in without : \A other \in without : <<other, k>> \notin OpToRel(<, Nat)
        <4>1. without \subseteq Nat /\ without # {}
          OBVIOUS
        <4> HIDE DEF without
        <4> QED
          BY <4>1, NatLessThanWellFounded, WFMin, Zenon
      <3>2. QED
        BY <3>1, Zenon
    <2>2. \A other \in without : ~(other < k)
      BY <2>1, Zenon DEF OpToRel
    <2>3. QED
      BY <2>2
  <1>2. k # 0
    <2>1. JoinsUpTo([i \in 1..0 |-> 0], lists, 0)
      BY DEF JoinsUpTo
    <2>2. QED
      BY <2>1
  <1>3. k - 1 \in Nat /\ k - 1 < k
    BY <1>2
  <1>4. PICK before : JoinsUpTo(before, lists, k - 1)
    BY <1>1, <1>3
  <1> DEFINE joined == [i \in 1..k |-> IF i = 1 THEN lists[i] ELSE before[i - 1] \o lists[i]]
  <1>5. \A i \in 1..(k - 1) : joined[i] = before[i]
    <2>1. \A i \in 1..(k - 1) : before[i] = IF i = 1 THEN lists[i] ELSE before[i - 1] \o lists[i]
      <3> DEFINE rest(i) == before[i - 1] \o lists[i]
      <3>1. before = [i \in 1..(k - 1) |-> IF i = 1 THEN lists[i] ELSE rest(i)]
        BY <1>4 DEF JoinsUpTo
      <3> HIDE DEF rest
      <3>2. \A i \in 1..(k - 1) : before[i] = IF i = 1 THEN lists[i] ELSE rest(i)
        BY <3>1
      <3>3. QED
        BY <3>2 DEF rest
    <2>2. \A i \in 1..(k - 1) : i \in 1..k
      BY <1>3
    <2>3. \A i \in 1..k : joined[i] = IF i = 1 THEN lists[i] ELSE before[i - 1] \o lists[i]
      OBVIOUS
    <2> HIDE DEF joined
    <2>4. QED
      BY <2>1, <2>2, <2>3
  <1>6. JoinsUpTo(joined, lists, k)
    <2>1. \A i \in 1..k : i # 1 => i - 1 \in 1..(k - 1)
      OBVIOUS
    <2>2. \A i \in 1..k : (IF i = 1 THEN lists[i] ELSE before[i - 1] \o lists[i])
                          = IF i = 1 THEN lists[i] ELSE joined[i - 1] \o lists[i]
      <3> HIDE DEF joined
      <3> QED
        BY <1>5, <2>1
    <2>3. joined = [i \in 1..k |-> IF i = 1 THEN lists[i] ELSE joined[i - 1] \o lists[i]]
      BY <2>2
    <2>4. QED
      BY <2>3 DEF JoinsUpTo
  <1>7. QED
    BY <1>6

\* What is joined of lists over S is a list over S.
LEMMA JoinedIsAList ==
    ASSUME NEW S, NEW lists \in Seq(Seq(S))
    PROVE  FlattenSeq(lists) \in Seq(S)
  <1> DEFINE n == Len(lists)
             joined == CHOOSE f : JoinsUpTo(f, lists, n)
  <1>1. n \in Nat /\ \A i \in 1..n : lists[i] \in Seq(S)
    BY SeqIsFunction
  <1>2. CASE n = 0
    BY <1>2, <1>1 DEF FlattenSeq
  <1>3. CASE n # 0
    <2>1. FlattenSeq(lists) = joined[n]
      BY <1>3 DEF FlattenSeq, JoinsUpTo
    <2>2. JoinsUpTo(joined, lists, n)
      BY <1>1, JoiningIsThere
    <2> HIDE DEF joined, n
    <2>3. \A i \in 1..n : joined[i] = IF i = 1 THEN lists[i] ELSE joined[i - 1] \o lists[i]
      BY <2>2 DEF JoinsUpTo
    <2> DEFINE odd == {i \in Nat : i \in 1..n /\ joined[i] \notin Seq(S)}
    <2>4. odd = {}
      <3> SUFFICES ASSUME odd # {} PROVE FALSE
        OBVIOUS
      <3>1. PICK k \in odd : \A other \in odd : <<other, k>> \notin OpToRel(<, Nat)
        <4>1. \E k \in odd : \A other \in odd : <<other, k>> \notin OpToRel(<, Nat)
          <5>1. odd \subseteq Nat /\ odd # {}
            OBVIOUS
          <5> HIDE DEF odd
          <5> QED
            BY <5>1, NatLessThanWellFounded, WFMin, Zenon
        <4>2. QED
          BY <4>1, Zenon
      <3>2. \A other \in odd : ~(other < k)
        BY <3>1, Zenon DEF OpToRel
      <3>3. k # 1
        BY <1>1, <2>3
      <3>4. k - 1 \in 1..n /\ k - 1 < k /\ k \in 1..n
        BY <1>1, <3>3
      <3>5. joined[k - 1] \in Seq(S)
        BY <3>2, <3>4
      <3>6. joined[k] = joined[k - 1] \o lists[k] /\ lists[k] \in Seq(S)
        BY <2>3, <1>1, <3>3, <3>4
      <3>7. joined[k] \in Seq(S)
        BY <3>5, <3>6, ConcatProperties
      <3>8. QED
        BY <3>7
    <2>5. n \in 1..n
      BY <1>1, <1>3
    <2>6. joined[n] \in Seq(S)
      BY <2>4, <2>5, <1>1
    <2>7. QED
      BY <2>1, <2>6
  <1>4. QED
    BY <1>2, <1>3
-----------------------------------------------------------------------------
\* What a manifest is made of.

\* What the entries of S have in a field.
Values(S, field) == {s[field] : s \in S}

LEMMA FieldsListed ==
    ASSUME NEW S, NEW list \in Seq(S), NEW field
    PROVE  /\ Field(list, field) \in Seq(Values(S, field)) /\ Len(Field(list, field)) = Len(list)
           /\ DOMAIN Field(list, field) = 1..Len(list)
           /\ \A i \in 1..Len(list) : Field(list, field)[i] = list[i][field]
  <1> DEFINE n == Len(list)
             T == Values(S, field)
             e(i) == list[i][field]
  <1>1. n \in Nat /\ DOMAIN list = 1..n /\ \A i \in 1..n : list[i] \in S
    BY SeqIsFunction
  <1>2. \A i \in 1..n : e(i) \in T
    BY <1>1 DEF Values
  <1>3. Field(list, field) = [i \in 1..n |-> e(i)]
    BY <1>1 DEF Field
  <1> HIDE DEF n, e, T
  <1>4. [i \in 1..n |-> e(i)] \in Seq(T)
    BY <1>1, <1>2
  <1>5. Field(list, field) \in Seq(T) /\ DOMAIN Field(list, field) = 1..n /\ \A i \in 1..n : Field(list, field)[i] = e(i)
    BY <1>3, <1>4
  <1>6. Len(Field(list, field)) = n
    BY <1>1, <1>5, LenProperties
  <1>7. QED
    BY <1>5, <1>6 DEF n, e, T

\* The members of a list, and those of one of its fields.
LEMMA Members ==
    ASSUME NEW S, NEW list \in Seq(S)
    PROVE  /\ ToSet(list) = {list[i] : i \in 1..Len(list)} /\ ToSet(list) \subseteq S
           /\ \A i \in 1..Len(list) : list[i] \in ToSet(list)
           /\ \A s \in ToSet(list) : \E i \in 1..Len(list) : list[i] = s
  BY SeqIsFunction DEF ToSet

\* Where no two entries of a list share a field, one with its value is the other.
LEMMA NamesOne ==
    ASSUME NEW S, NEW list \in Seq(S), NEW field, Again(Field(list, field)) = {},
           NEW s \in ToSet(list), NEW t \in ToSet(list), s[field] = t[field]
    PROVE  s = t
  <1>1. PICK i \in 1..Len(list) : list[i] = s
    BY Members
  <1>2. PICK j \in 1..Len(list) : list[j] = t
    BY Members
  <1> DEFINE named == Field(list, field)
             T == Values(S, field)
  <1>0. named \in Seq(T) /\ Len(named) = Len(list) /\ \A k \in 1..Len(list) : named[k] = list[k][field]
    BY FieldsListed
  <1> HIDE DEF named, T
  <1>3. named \in Seq(T) /\ Len(named) = Len(list) /\ named[i] = named[j] /\ Again(named) = {}
    BY <1>0, <1>1, <1>2 DEF named
  <1>4. i = j
    BY <1>3, OnePlaceEach
  <1>5. QED
    BY <1>1, <1>2, <1>4

LEMMA HeldIsRead ==
    ASSUME NEW files, NEW m \in Manifest(files), NEW entry, Read(m, entry) # {}
    PROVE  entry \in files /\ Read(m, entry) = {Held(m, entry)} /\ m.file[entry] = {Held(m, entry)} /\ Held(m, entry) \in Document
  <1>1. DOMAIN m.file = files /\ m.file \in [files -> AtMostOne(Document)]
    BY DEF Manifest
  <1>2. entry \in files /\ Read(m, entry) = m.file[entry]
    BY <1>1 DEF Read
  <1>3. m.file[entry] \in AtMostOne(Document)
    BY <1>1, <1>2
  <1>4. Held(m, entry) \in Read(m, entry)
    BY DEF Held
  <1>5. QED
    BY <1>2, <1>3, <1>4 DEF AtMostOne

\* The services are a list of services, and the profiles one of profiles, wherever they are written.
LEMMA PiecesAreLists ==
    ASSUME NEW files, NEW m \in Manifest(files), NEW table, NEW S, \A document \in Document : document[table] \in Seq(S)
    PROVE  FlattenSeq(Pieces(m, table)) \in Seq(S)
  <1> DEFINE n == Len(m.include)
             piece(i) == IF Read(m, m.include[i]) = {} THEN <<>> ELSE Held(m, m.include[i])[table]
  <1>1. n \in Nat /\ DOMAIN m.include = 1..n
    BY SeqIsFunction DEF Manifest
  <1>2. Pieces(m, table) = [i \in 1..n |-> piece(i)]
    BY <1>1 DEF Pieces
  <1>3. \A i \in 1..n : piece(i) \in Seq(S)
    BY HeldIsRead
  <1> HIDE DEF n, piece
  <1>4. [i \in 1..n |-> piece(i)] \in Seq(Seq(S))
    BY <1>1, <1>3
  <1>5. QED
    BY <1>2, <1>4, JoinedIsAList

LEMMA ManifestParts ==
    ASSUME NEW files, NEW m \in Manifest(files)
    PROVE  /\ Services(m) \in Seq(Service) /\ Profiles(m) \in Seq(ProfileEntry)
           /\ m.versions \in BOOLEAN /\ m.include \in Seq(files \union {"elsewhere"}) /\ m.service \in Seq(Service)
           /\ m.file \in [files -> AtMostOne(Document)] /\ m.profile \in Seq(ProfileEntry)
           /\ m.form \in Seq(FormEntry) /\ m.wiring \in Seq(WiringEntry) /\ m.removed \in Seq(RemovalEntry)
  <1>1. /\ m.versions \in BOOLEAN /\ m.include \in Seq(files \union {"elsewhere"}) /\ m.service \in Seq(Service)
        /\ m.file \in [files -> AtMostOne(Document)] /\ m.profile \in Seq(ProfileEntry)
        /\ m.form \in Seq(FormEntry) /\ m.wiring \in Seq(WiringEntry) /\ m.removed \in Seq(RemovalEntry)
    BY DEF Manifest
  <1>2. /\ \A document \in Document : document["service"] \in Seq(Service)
        /\ \A document \in Document : document["profile"] \in Seq(ProfileEntry)
    BY DEF Document
  <1>3. FlattenSeq(Pieces(m, "service")) \in Seq(Service) /\ FlattenSeq(Pieces(m, "profile")) \in Seq(ProfileEntry)
    BY <1>2, PiecesAreLists
  <1>4. QED
    BY <1>1, <1>3, ConcatProperties DEF Services, Profiles
-----------------------------------------------------------------------------
\* The files: what stack_manifest.py asks of them.

LEMMA AFileIsWhole ==
    ASSUME NEW entry, NEW document \in Document
    PROVE  FileFaults(entry, document) = {} <=> document.profile = <<>> /\ Field(document.service, "id") = <<entry>>
  <1> DEFINE held == document.service
  <1>1. held \in Seq(Service)
    BY DEF Document
  <1>2. Len(held) \in Nat /\ DOMAIN held = 1..Len(held) /\ held \in Seq(Service)
    BY <1>1, SeqIsFunction
  <1>3. FileFaults(entry, document) = {} <=> document.profile = <<>> /\ Len(held) = 1 /\ held[1].id = entry
    <2> DEFINE beside == Unless(document.profile = <<>>, "a_service_file_holds_something_else")
               named == Unless(held[1].id = entry, "a_service_file_is_named_after_another")
    <2>1. FileFaults(entry, document) = beside \union (IF Len(held) # 1 THEN {"a_service_file_holds_one_service"} ELSE named)
      BY Zenon DEF FileFaults
    <2>2. (beside = {} <=> document.profile = <<>>) /\ (named = {} <=> held[1].id = entry)
      BY DEF Unless
    <2> HIDE DEF beside, named, held
    <2>3. QED
      BY <2>1, <2>2
  <1> DEFINE named == Field(held, "id")
  <1> HIDE DEF held
  <1> DEFINE T == Values(Service, "id")
  <1>4. named \in Seq(T) /\ Len(named) = Len(held) /\ \A i \in 1..Len(held) : named[i] = held[i].id
    BY <1>1, FieldsListed
  <1> HIDE DEF named, T
  <1>5. ASSUME Len(held) = 1, held[1].id = entry PROVE named = <<entry>>
    <2>1. Len(named) = 1 /\ named[1] = entry
      BY <1>4, <1>5
    <2>2. entry \in T
      BY <2>1, <1>4
    <2>3. QED
      BY <2>1, <2>2, <1>4, SeqEqual
  <1>6. ASSUME named = <<entry>> PROVE Len(held) = 1 /\ held[1].id = entry
    BY <1>4, <1>6
  <1>7. QED
    BY <1>3, <1>5, <1>6 DEF held, named

LEMMA LayoutHolds ==
    ASSUME NEW files, NEW m \in Manifest(files)
    PROVE  LayoutFaults(m) = {} /\ m.versions <=> FilesRead(m)
  <1> DEFINE Entry(i) == IF m.include[i] \notin DOMAIN m.file THEN {"an_entry_of_another_form"}
                      ELSE IF i \in Again(m.include) THEN {"an_entry_twice"}
                      ELSE IF Read(m, m.include[i]) = {} THEN {"an_entry_names_no_file"}
                      ELSE FileFaults(m.include[i], Held(m, m.include[i]))
             n == Len(m.include)
             Right(f) == \A document \in m.file[f] :
                            document.profile = <<>> /\ Field(document.service, "id") = <<f>>
  <1>1. LayoutFaults(m) = {} <=> /\ m.service = <<>>
                                 /\ \A i \in DOMAIN m.include : Entry(i) = {}
                                 /\ \A f \in DOMAIN m.file : Read(m, f) = {} \/ f \in ToSet(m.include)
    <2> DEFINE root == Unless(m.service = <<>>, "a_service_in_the_root")
               Missed(f) == Unless(Read(m, f) = {} \/ f \in ToSet(m.include), "a_file_no_entry_names")
               entries == UNION {Entry(i) : i \in DOMAIN m.include}
               missed == UNION {Missed(f) : f \in DOMAIN m.file}
    <2>1. LayoutFaults(m) = root \union entries \union missed
      BY Zenon DEF LayoutFaults
    <2>2. (root = {} <=> m.service = <<>>)
          /\ \A f : Missed(f) = {} <=> Read(m, f) = {} \/ f \in ToSet(m.include)
      BY DEF Unless
    <2> HIDE DEF Entry, Missed
    <2>3. (entries = {} <=> \A i \in DOMAIN m.include : Entry(i) = {})
          /\ (missed = {} <=> \A f \in DOMAIN m.file : Missed(f) = {})
      OBVIOUS
    <2> HIDE DEF root, entries, missed
    <2>4. QED
      BY <2>1, <2>2, <2>3
  <1>2. n \in Nat /\ DOMAIN m.include = 1..n /\ DOMAIN m.file = files /\ ToSet(m.include) = {m.include[i] : i \in 1..n}
    <2>1. m.include \in Seq(files \union {"elsewhere"}) /\ DOMAIN m.file = files
      BY DEF Manifest
    <2>2. n \in Nat /\ DOMAIN m.include = 1..n
      BY <2>1, LenProperties
    <2>3. QED
      BY <2>1, <2>2 DEF ToSet
  <1>3. \A f \in files : Read(m, f) = m.file[f]
    BY <1>2 DEF Read
  <1>4. ASSUME NEW i \in 1..n
        PROVE  Entry(i) = {} <=> /\ m.include[i] \in files /\ i \notin Again(m.include)
                                 /\ m.file[m.include[i]] # {} /\ Right(m.include[i])
    <2>1. CASE m.include[i] \in files /\ Read(m, m.include[i]) # {} /\ i \notin Again(m.include)
      <3> DEFINE document == Held(m, m.include[i])
      <3>1. document \in Document /\ m.file[m.include[i]] = {document}
        BY <2>1, HeldIsRead
      <3>2. Entry(i) = FileFaults(m.include[i], document)
        BY <2>1, <1>2
      <3> HIDE DEF document, Entry
      <3>3. Entry(i) = {} <=> document.profile = <<>> /\ Field(document.service, "id") = <<m.include[i]>>
        BY <3>1, <3>2, AFileIsWhole
      <3>4. QED
        BY <2>1, <3>1, <3>3
    <2>2. CASE ~(m.include[i] \in files /\ Read(m, m.include[i]) # {} /\ i \notin Again(m.include))
      BY <2>2, <1>2, <1>3
    <2>3. QED
      BY <2>1, <2>2
  <1>5. OneMeaning(m.include) <=> Again(m.include) = {}
    BY ManifestParts, NothingAgain
  <1>6. Again(m.include) \subseteq 1..n
    BY <1>2 DEF Again
  <1>7. FilesRead(m) <=> /\ m.versions /\ m.service = <<>> /\ Again(m.include) = {}
                         /\ ToSet(m.include) = {f \in files : m.file[f] # {}}
                         /\ \A f \in files : Right(f)
    BY <1>2, <1>5 DEF FilesRead
  <1>8. \A f \in files : m.file[f] = {} => Right(f)
    OBVIOUS
  <1> HIDE DEF Entry, Right, n
  <1>9. ASSUME LayoutFaults(m) = {}
        PROVE  /\ Again(m.include) = {} /\ ToSet(m.include) = {f \in files : m.file[f] # {}} /\ \A f \in files : Right(f)
    <2>1. \A i \in 1..n : /\ m.include[i] \in files /\ i \notin Again(m.include)
                          /\ m.file[m.include[i]] # {} /\ Right(m.include[i])
      BY <1>1, <1>2, <1>4, <1>9
    <2>2. \A f \in files : m.file[f] # {} => f \in ToSet(m.include)
      BY <1>1, <1>2, <1>3, <1>9
    <2>3. \A f \in ToSet(m.include) : f \in files /\ m.file[f] # {} /\ Right(f)
      BY <1>2, <2>1
    <2>4. QED
      BY <1>6, <1>8, <2>1, <2>2, <2>3
  <1>10. ASSUME Again(m.include) = {}, ToSet(m.include) = {f \in files : m.file[f] # {}},
                m.service = <<>>, \A f \in files : Right(f)
         PROVE  LayoutFaults(m) = {}
    <2>1. \A i \in 1..n : m.include[i] \in files /\ m.file[m.include[i]] # {}
      BY <1>2, <1>10
    <2>2. \A i \in DOMAIN m.include : Entry(i) = {}
      BY <1>2, <1>4, <1>10, <2>1
    <2>3. \A f \in DOMAIN m.file : Read(m, f) = {} \/ f \in ToSet(m.include)
      BY <1>2, <1>3, <1>10
    <2>4. QED
      BY <1>1, <1>10, <2>2, <2>3
  <1>11. QED
    BY <1>1, <1>7, <1>9, <1>10
-----------------------------------------------------------------------------
\* The profiles, the forms, and what they start: what manifest_rules.py asks of them.

LEMMA ListedAgain ==
    ASSUME NEW S, NEW list \in Seq(S), NEW field, NEW i
    PROVE  i \in Again(Field(list, field)) <=> /\ i \in 1..Len(list)
                                               /\ \E j \in 1..(i - 1) : list[j][field] = list[i][field]
  <1> DEFINE named == Field(list, field)
             n == Len(list)
  <1>1. n \in Nat /\ DOMAIN named = 1..n /\ \A k \in 1..n : named[k] = list[k][field]
    BY FieldsListed, SeqIsFunction
  <1> HIDE DEF named, n
  <1>2. i \in Again(named) <=> i \in 1..n /\ \E j \in 1..(i - 1) : named[j] = named[i]
    BY <1>1 DEF Again
  <1>3. ASSUME i \in 1..n PROVE \A j \in 1..(i - 1) : named[j] = list[j][field] /\ named[i] = list[i][field]
    BY <1>1, <1>3
  <1>4. QED
    BY <1>2, <1>3 DEF named, n

\* Names that are one each, by what the list has of them.
LEMMA NamedOnce ==
    ASSUME NEW S, NEW list \in Seq(S), NEW field
    PROVE  OneMeaning(Field(list, field)) <=> Again(Field(list, field)) = {}
  <1> DEFINE named == Field(list, field)
             T == Values(S, field)
  <1>1. named \in Seq(T)
    BY FieldsListed
  <1> HIDE DEF named, T
  <1>2. OneMeaning(named) <=> Again(named) = {}
    BY <1>1, NothingAgain
  <1>3. QED
    BY <1>2 DEF named

LEMMA ProfilesHold ==
    ASSUME NEW list \in Seq(ProfileEntry)
    PROVE  ProfileFaults(list) = {} <=>
               /\ OneMeaning(Field(list, "id"))
               /\ \A p, q \in ToSet(list) : p.protocol \subseteq PROTOCOLS /\ (p.protocol \cap q.protocol # {} => p = q)
  <1> DEFINE n == Len(list)
             One == Again(Field(list, "id")) = {}
             Protocols == \A p \in ToSet(list) : p.protocol \subseteq PROTOCOLS
             Claimed == \A i \in Again(Field(list, "protocol")) : list[i].protocol = {}
             Apart == \A p, q \in ToSet(list) : p.protocol \cap q.protocol # {} => p = q
  <1>1. ProfileFaults(list) = {} <=> One /\ Protocols /\ Claimed
    BY DEF ProfileFaults, Unless
  <1>2. OneMeaning(Field(list, "id")) <=> One
    BY NamedOnce
  <1>3. /\ n \in Nat /\ ToSet(list) \subseteq ProfileEntry
        /\ \A i \in 1..n : list[i] \in ToSet(list)
        /\ \A p \in ToSet(list) : \E i \in 1..n : list[i] = p
    BY Members, SeqIsFunction
  <1>4. \A p, q \in ProfileEntry : p.protocol \cap q.protocol # {} => p.protocol = q.protocol
    <2>1. \A p \in ProfileEntry : p.protocol \in AtMostOne(STRING)
      BY DEF ProfileEntry
    <2>2. \A x \in AtMostOne(STRING) : \A a, b \in x : a = b
      BY DEF AtMostOne
    <2>3. ASSUME NEW p \in ProfileEntry, NEW q \in ProfileEntry, p.protocol \cap q.protocol # {} PROVE p.protocol = q.protocol
      <3>1. PICK c : c \in p.protocol /\ c \in q.protocol
        BY <2>3
      <3>2. \A x : (x \in p.protocol <=> x = c) /\ (x \in q.protocol <=> x = c)
        BY <2>1, <2>2, <3>1
      <3>3. QED
        BY <3>2
    <2>4. QED
      BY <2>3
  <1>5. ASSUME One, Claimed PROVE Apart
    <2> SUFFICES ASSUME NEW p \in ToSet(list), NEW q \in ToSet(list), p.protocol \cap q.protocol # {}, p # q PROVE FALSE
      OBVIOUS
    <2>1. PICK i \in 1..n : list[i] = p
      BY <1>3
    <2>2. PICK j \in 1..n : list[j] = q
      BY <1>3
    <2>3. p.protocol = q.protocol /\ p.protocol # {}
      BY <1>3, <1>4
    <2>4. i # j
      BY <2>1, <2>2
    <2>5. i \in 1..(j - 1) \/ j \in 1..(i - 1)
      BY <1>3, <2>4
    <2>6. i \in Again(Field(list, "protocol")) \/ j \in Again(Field(list, "protocol"))
      BY <2>1, <2>2, <2>3, <2>5, ListedAgain
    <2>7. QED
      BY <1>5, <2>1, <2>2, <2>3, <2>6
  <1>6. ASSUME One, Apart PROVE Claimed
    <2> SUFFICES ASSUME NEW i \in Again(Field(list, "protocol")), list[i].protocol # {} PROVE FALSE
      OBVIOUS
    <2>1. i \in 1..n /\ \E j \in 1..(i - 1) : list[j].protocol = list[i].protocol
      BY ListedAgain
    <2>2. PICK j \in 1..(i - 1) : list[j].protocol = list[i].protocol
      BY <2>1
    <2>3. j \in 1..n /\ j # i
      BY <1>3, <2>1
    <2>4. list[j] = list[i]
      BY <1>3, <1>6, <2>1, <2>2, <2>3
    <2>5. i \in Again(Field(list, "id"))
      BY <2>1, <2>4, ListedAgain
    <2>6. QED
      BY <1>6, <2>5
  <1> HIDE DEF One, Claimed, Apart, Protocols
  <1>7. ProfileFaults(list) = {} <=> OneMeaning(Field(list, "id")) /\ Protocols /\ Apart
    BY <1>1, <1>2, <1>5, <1>6
  <1>8. QED
    BY <1>7 DEF Protocols, Apart

LEMMA FormsReach ==
    ASSUME NEW m, Again(Field(m.form, "id")) = {}
    PROVE  (/\ FormFaults(m.form, Profiled(m)) = {} /\ OrphanFaults(Profiled(m), m.form, Services(m)) = {}
            /\ \A s \in ToSet(Services(m)) : s.profile \in Profiled(m)) <=> Reached(m)
  <1> DEFINE S == ToSet(Services(m))
             P == ToSet(Profiles(m))
             F == ToSet(m.form)
             ids == Profiled(m)
             started == UNION {Starts(m, form.profiles) : form \in F}
  <1>1. FormFaults(m.form, ids) = {} <=> \A form \in F : form.profiles # {} /\ form.profiles \subseteq ids
    <2> DEFINE faults(form) == Unless(form.profiles # {}, "a_form_of_no_profile")
                               \union Unless(form.profiles \subseteq ids, "a_form_of_a_profile_unknown")
    <2>1. FormFaults(m.form, ids) = {} \union UNION {faults(form) : form \in F}
      BY DEF FormFaults, Unless
    <2>2. \A form \in F : faults(form) = {} <=> form.profiles # {} /\ form.profiles \subseteq ids
      BY DEF Unless
    <2> HIDE DEF faults, F, ids
    <2>3. QED
      BY <2>1, <2>2
  <1>2. OrphanFaults(ids, m.form, Services(m)) = {} <=> /\ \A id \in ids : \E s \in S : s.profile = id
                                                        /\ \A id \in ids : \E form \in F : id \in form.profiles
    <2>1. OrphanFaults(ids, m.form, Services(m)) = {} <=> /\ ids \subseteq {s.profile : s \in S}
                                                          /\ ids \subseteq UNION {form.profiles : form \in F}
      BY DEF OrphanFaults, Unless
    <2> HIDE DEF S, F, ids
    <2>2. QED
      BY <2>1
  <1>3. \A id : id \in ids <=> \E p \in P : p.id = id
    BY DEF Profiled
  <1>4. \A chosen, s : s \in Starts(m, chosen) <=> s \in S /\ s.profile \in chosen /\ s.profile \in ids
    BY <1>3 DEF Starts
  <1>5. \A s : s \in started <=> \E form \in F : s \in Starts(m, form.profiles)
    OBVIOUS
  <1>6. Reached(m) <=> /\ \A form \in F : \A p \in form.profiles : Starts(m, {p}) # {}
                       /\ \A form \in F : Starts(m, form.profiles) # {}
                       /\ started = S
                       /\ {s.profile : s \in S} = ids
    BY DEF Reached, Profiled
  <1> HIDE DEF S, P, F, ids, started
  <1>7. {s.profile : s \in S} = ids <=> /\ \A id \in ids : \E s \in S : s.profile = id
                                        /\ \A s \in S : s.profile \in ids
    BY Zenon
  <1>8. ASSUME /\ \A form \in F : form.profiles # {} /\ form.profiles \subseteq ids
               /\ \A id \in ids : \E s \in S : s.profile = id
               /\ \A id \in ids : \E form \in F : id \in form.profiles
               /\ \A s \in S : s.profile \in ids
        PROVE  Reached(m)
    <2>1. ASSUME NEW form \in F, NEW p \in form.profiles PROVE Starts(m, {p}) # {} /\ Starts(m, form.profiles) # {}
      <3>1. PICK s \in S : s.profile = p
        BY <1>8
      <3>2. s \in Starts(m, {p}) /\ s \in Starts(m, form.profiles)
        BY <1>4, <1>8, <3>1
      <3>3. QED
        BY <3>2
    <2>2. \A s : s \in started <=> s \in S
      BY <1>4, <1>5, <1>8
    <2>3. started = S
      BY <2>2
    <2>4. \A form \in F : Starts(m, form.profiles) # {}
      BY <1>8, <2>1
    <2>5. QED
      BY <1>6, <1>7, <1>8, <2>1, <2>3, <2>4
  <1>9. ASSUME Reached(m)
        PROVE  /\ \A form \in F : form.profiles # {} /\ form.profiles \subseteq ids
               /\ \A id \in ids : \E s \in S : s.profile = id
               /\ \A id \in ids : \E form \in F : id \in form.profiles
               /\ \A s \in S : s.profile \in ids
    <2>1. ASSUME NEW form \in F PROVE form.profiles # {}
      <3>1. PICK s : s \in Starts(m, form.profiles)
        BY <1>6, <1>9
      <3>2. QED
        BY <1>4, <3>1
    <2>2. ASSUME NEW form \in F, NEW p \in form.profiles PROVE p \in ids
      <3>1. PICK s : s \in Starts(m, {p})
        BY <1>6, <1>9
      <3>2. s.profile = p /\ s.profile \in ids
        BY <1>4, <3>1
      <3>3. QED
        BY <3>2
    <2>3. (\A id \in ids : \E s \in S : s.profile = id) /\ (\A s \in S : s.profile \in ids)
      BY <1>6, <1>7, <1>9
    <2>4. ASSUME NEW id \in ids PROVE \E form \in F : id \in form.profiles
      <3>1. PICK s \in S : s.profile = id
        BY <2>3
      <3>2. PICK form \in F : s \in Starts(m, form.profiles)
        BY <1>5, <1>6, <1>9
      <3>3. QED
        BY <1>4, <3>1, <3>2
    <2>5. QED
      BY <2>1, <2>2, <2>3, <2>4
  <1>10. QED
    <2>1. (FormFaults(m.form, ids) = {} /\ OrphanFaults(ids, m.form, Services(m)) = {}
           /\ \A s \in S : s.profile \in ids) <=> Reached(m)
      BY <1>1, <1>2, <1>8, <1>9
    <2>2. QED
      BY <2>1 DEF ids, S
-----------------------------------------------------------------------------
\* What left, and the wirings: what manifest_rules.py and wiring_rules.py ask of them.

LEMMA RemovalsHold ==
    ASSUME NEW files, NEW m \in Manifest(files)
    PROVE  RemovalFaults(m.removed, Ids(m)) = {} <=> OneMeaning(Field(m.removed, "id")) /\ Left(m)
  <1> DEFINE R == ToSet(m.removed)
             gone == {r.id : r \in R}
             ids == Ids(m)
             faults(r) == Unless(r.said, "a_removal_without_its_version_or_its_reason")
                          \union Unless(r.id \notin ids, "a_removal_of_what_is_declared")
                          \union Unless(r.id \notin r.replaced_by, "a_removal_replaced_by_itself")
                          \union Unless(r.replaced_by \subseteq ids \union gone, "a_removal_replaced_by_nothing_known")
  <1>1. RemovalFaults(m.removed, ids) = Unless(Again(Field(m.removed, "id")) = {}, "a_removal_twice")
                                        \union UNION {faults(r) : r \in R}
    BY DEF RemovalFaults
  <1>2. \A r \in R : faults(r) = {} <=> /\ r.said /\ r.id \notin ids /\ r.id \notin r.replaced_by
                                        /\ r.replaced_by \subseteq ids \union gone
    BY DEF Unless
  <1>3. Unless(Again(Field(m.removed, "id")) = {}, "a_removal_twice") = {} <=> OneMeaning(Field(m.removed, "id"))
    <2>1. m.removed \in Seq(RemovalEntry)
      BY ManifestParts
    <2>2. OneMeaning(Field(m.removed, "id")) <=> Again(Field(m.removed, "id")) = {}
      BY <2>1, NamedOnce
    <2>3. QED
      BY <2>2 DEF Unless
  <1>4. Left(m) <=> /\ gone \cap ids = {}
                    /\ \A r \in R : r.said /\ r.replaced_by \subseteq (ids \union gone) \ {r.id}
    BY DEF Left
  <1>5. \A id : id \in gone <=> \E r \in R : r.id = id
    OBVIOUS
  <1> HIDE DEF R, gone, ids, faults
  <1>6. gone \cap ids = {} <=> \A r \in R : r.id \notin ids
    BY <1>5
  <1>7. Left(m) <=> \A r \in R : /\ r.said /\ r.id \notin ids /\ r.id \notin r.replaced_by
                                 /\ r.replaced_by \subseteq ids \union gone
    BY <1>4, <1>6
  <1>8. Left(m) <=> \A r \in R : faults(r) = {}
    BY <1>2, <1>7
  <1>9. RemovalFaults(m.removed, ids) = {} <=> OneMeaning(Field(m.removed, "id")) /\ \A r \in R : faults(r) = {}
    BY <1>1, <1>3
  <1>10. QED
    BY <1>8, <1>9 DEF ids

LEMMA ProvidedByName ==
    ASSUME NEW services \in Seq(Service), Again(Field(services, "id")) = {}, NEW s \in ToSet(services)
    PROVE  Provided(services, s.id) = ToSet(s.provides)
  <1> DEFINE of == {i \in DOMAIN services : services[i].id = s.id}
             last == CHOOSE i \in of : \A j \in of : j <= i
  <1>1. DOMAIN services = 1..Len(services) /\ Len(services) \in Nat /\ \A i \in 1..Len(services) : services[i] \in ToSet(services)
    BY Members, SeqIsFunction
  <1>2. PICK k \in 1..Len(services) : services[k] = s
    BY Members
  <1>3. \A i \in of : services[i] = s
    <2>1. \A t \in ToSet(services) : t["id"] = s["id"] => t = s
      BY NamesOne
    <2>2. QED
      BY <1>1, <2>1
  <1>4. \A i, j \in of : i = j
    <2> SUFFICES ASSUME NEW i \in of, NEW j \in of, i # j PROVE FALSE
      OBVIOUS
    <2>1. i \in 1..Len(services) /\ j \in 1..Len(services)
      BY <1>1
    <2>2. i \in 1..(j - 1) \/ j \in 1..(i - 1)
      BY <1>1, <2>1
    <2>3. services[i]["id"] = services[j]["id"]
      OBVIOUS
    <2>4. i \in Again(Field(services, "id")) \/ j \in Again(Field(services, "id"))
      BY <2>1, <2>2, <2>3, ListedAgain
    <2>5. QED
      BY <2>4
  <1>5. k \in of
    BY <1>1, <1>2
  <1>6. last \in of
    <2>1. \A j \in of : j <= k
      BY <1>1, <1>4, <1>5
    <2> HIDE DEF of
    <2>2. QED
      BY <1>5, <2>1
  <1>7. Provided(services, s.id) = ToSet(services[last].provides)
    BY <1>5 DEF Provided
  <1>8. services[last] = s
    BY <1>3, <1>6
  <1>9. QED
    BY <1>7, <1>8

LEMMA OneEndInNumbers ==
    ASSUME NEW w \in WiringEntry
    PROVE  OneEnd(w) <=> Cardinality(w.asks) + Cardinality(w.to) = 1
  <1>1. w.asks \in AtMostOne(STRING) /\ w.to \in AtMostOne(STRING)
    BY DEF WiringEntry
  <1>2. /\ Cardinality(w.asks) = IF w.asks = {} THEN 0 ELSE 1
        /\ Cardinality(w.to) = IF w.to = {} THEN 0 ELSE 1
    BY <1>1, AtMostOneListed
  <1>3. QED
    BY <1>2 DEF OneEnd

LEMMA AWiringConnects ==
    ASSUME NEW files, NEW m \in Manifest(files), Again(Field(Services(m), "id")) = {}, NEW w \in WiringEntry
    PROVE  WiringFaults(w, Services(m), Ids(m)) = {} <=> Connects(m, w)
  <1> DEFINE S == ToSet(Services(m))
             ids == Ids(m)
             far == w.to \union w.filled_by
             Ended == w.by \in ids /\ far \subseteq ids /\ w.by \notin far
             Fits(id) == w.asks \subseteq Provided(Services(m), id)
  <1>1. EndFaults(w, ids) = {} <=> Ended
    BY DEF EndFaults, Unless
  <1>2. AskFaults(w, Services(m)) = {} <=> w.asks \subseteq CoreName /\ \A filler \in w.filled_by : w.why /\ Fits(filler)
    <2> DEFINE faults(filler) == Unless(w.why, "a_choice_without_a_reason")
                                 \union Unless(Fits(filler), "a_filler_that_does_not_provide")
    <2>1. AskFaults(w, Services(m)) = Unless(w.asks \subseteq CoreName, "an_ask_for_no_capability")
                                      \union UNION {faults(filler) : filler \in w.filled_by}
      BY DEF AskFaults
    <2>2. \A filler \in w.filled_by : faults(filler) = {} <=> w.why /\ Fits(filler)
      BY DEF Unless
    <2>3. Unless(w.asks \subseteq CoreName, "an_ask_for_no_capability") = {} <=> w.asks \subseteq CoreName
      BY DEF Unless
    <2> HIDE DEF faults, Fits
    <2>4. QED
      BY <2>1, <2>2, <2>3
  <1>3. WiringFaults(w, Services(m), ids) = {} <=>
            /\ Ended /\ OneEnd(w)
            /\ w.asks # {} \/ (w.each = {} /\ w.filled_by = {})
            /\ ~(Each(w) /\ w.filled_by # {})
            /\ IF w.to # {} THEN w.why ELSE AskFaults(w, Services(m)) = {}
    <2> HIDE DEF Ended, ids
    <2>1. w.each \union w.filled_by = {} <=> w.each = {} /\ w.filled_by = {}
      OBVIOUS
    <2> QED
      BY <1>1, <2>1 DEF WiringFaults, Unless
  <1>4. \A id : id \in ids <=> \E s \in S : s.id = id
    BY DEF Ids
  <1>5. \A s \in S : Provided(Services(m), s.id) = ToSet(s.provides)
    <2>1. Services(m) \in Seq(Service)
      BY ManifestParts
    <2>2. QED
      BY <2>1, ProvidedByName
  <1>6. {s.id : s \in Reaches(m, w)} = far <=> \A id \in far : \E s \in S : s.id = id /\ w.asks \subseteq ToSet(s.provides)
    <2>1. \A s : s \in Reaches(m, w) <=> s \in S /\ s.id \in far /\ w.asks \subseteq ToSet(s.provides)
      BY DEF Reaches
    <2> HIDE DEF S, far
    <2>2. \A id : id \in {s.id : s \in Reaches(m, w)} <=> \E s \in S : s.id = id /\ id \in far /\ w.asks \subseteq ToSet(s.provides)
      BY <2>1
    <2> DEFINE reached == {s.id : s \in Reaches(m, w)}
    <2> HIDE DEF reached
    <2>3. reached = far <=> \A id : id \in reached <=> id \in far
      OBVIOUS
    <2>4. QED
      BY <2>2, <2>3 DEF reached
  <1> HIDE DEF S, ids, far
  <1>7. {s.id : s \in Reaches(m, w)} = far <=> \A id \in far : id \in ids /\ Fits(id)
    <2>1. \A id : (\E s \in S : s.id = id /\ w.asks \subseteq ToSet(s.provides)) <=> id \in ids /\ Fits(id)
      BY <1>4, <1>5
    <2> HIDE DEF Fits
    <2>2. QED
      BY <1>6, <2>1
  <1>8. OneEnd(w) <=> Cardinality(w.asks) + Cardinality(w.to) = 1
    BY OneEndInNumbers
  <1>9. /\ OneEnd(w) <=> (w.asks = {} /\ w.to # {}) \/ (w.asks # {} /\ w.to = {})
        /\ w.asks = {} => w.asks \subseteq CoreName /\ \A id : Fits(id)
        /\ w.to = {} => far = w.filled_by
        /\ w.filled_by = {} => far = w.to
    BY DEF OneEnd, far
  <1>10. Connects(m, w) <=> /\ w.by \in ids /\ w.by \notin far
                            /\ OneEnd(w) /\ w.asks \subseteq CoreName
                            /\ \A id \in far : id \in ids /\ Fits(id)
                            /\ w.to # {} => w.each = {}
                            /\ w.to # {} \/ Each(w) => w.filled_by = {}
                            /\ far # {} => w.why
    BY <1>7, <1>8 DEF Connects, far, ids
  <1> HIDE DEF Fits
  <1> DEFINE Asked == AskFaults(w, Services(m)) = {}
  <1> HIDE DEF Asked
  <1>11. Asked <=> w.asks \subseteq CoreName /\ \A filler \in w.filled_by : w.why /\ Fits(filler)
    BY <1>2 DEF Asked
  <1>12. WiringFaults(w, Services(m), ids) = {} <=>
            /\ Ended /\ OneEnd(w)
            /\ w.asks # {} \/ (w.each = {} /\ w.filled_by = {})
            /\ ~(Each(w) /\ w.filled_by # {})
            /\ IF w.to # {} THEN w.why ELSE Asked
    BY <1>3 DEF Asked
  <1>13. (w.each = {} => ~Each(w)) /\ w.why \in BOOLEAN
    BY DEF WiringEntry, Each
  <1>14. WiringFaults(w, Services(m), ids) = {} <=> Connects(m, w)
    <2>1. Ended <=> w.by \in ids /\ far \subseteq ids /\ w.by \notin far
      OBVIOUS
    <2> HIDE DEF Ended
    <2>2. CASE ~OneEnd(w)
      BY <1>12, <1>10, <2>2
    <2>3. CASE OneEnd(w) /\ w.asks = {}
      <3>1. w.to # {} /\ w.asks \subseteq CoreName /\ \A id : Fits(id)
        BY <1>9, <2>3
      <3>2. w.filled_by = {} => far = w.to
        BY <1>9
      <3>3. WiringFaults(w, Services(m), ids) = {} <=> Ended /\ w.each = {} /\ w.filled_by = {} /\ w.why
        BY <1>12, <1>13, <2>3, <3>1
      <3>4. Connects(m, w) <=> /\ w.by \in ids /\ w.by \notin far /\ far \subseteq ids
                               /\ w.each = {} /\ w.filled_by = {} /\ (far # {} => w.why)
        BY <1>10, <1>13, <2>3, <3>1
      <3>5. QED
        BY <2>1, <3>1, <3>2, <3>3, <3>4
    <2>4. CASE OneEnd(w) /\ w.asks # {}
      <3>1. w.to = {} /\ far = w.filled_by
        BY <1>9, <2>4
      <3>2. WiringFaults(w, Services(m), ids) = {} <=> Ended /\ ~(Each(w) /\ w.filled_by # {}) /\ Asked
        BY <1>12, <1>13, <2>4, <3>1
      <3>3. Connects(m, w) <=> /\ w.by \in ids /\ w.by \notin far /\ w.asks \subseteq CoreName
                               /\ \A id \in far : id \in ids /\ Fits(id)
                               /\ (Each(w) => w.filled_by = {}) /\ (far # {} => w.why)
        BY <1>10, <1>13, <2>4, <3>1
      <3>4. Asked <=> w.asks \subseteq CoreName /\ (far # {} => w.why) /\ \A id \in far : Fits(id)
        BY <1>11, <1>13, <3>1
      <3>5. QED
        BY <1>13, <2>1, <3>1, <3>2, <3>3, <3>4
    <2>5. QED
      BY <2>2, <2>3, <2>4
  <1>15. QED
    BY <1>14 DEF ids

LEMMA EndsOnce ==
    ASSUME NEW list \in Seq(WiringEntry)
    PROVE  (OneMeaning(Ends(list)) <=> Again(Ends(list)) = {}) /\ Again(Ends(list)) \subseteq 1..Len(list)
  <1> DEFINE n == Len(list)
             end(i) == <<list[i].by, list[i].asks, list[i].to>>
             T == {end(i) : i \in 1..n}
  <1>1. n \in Nat /\ DOMAIN list = 1..n
    BY SeqIsFunction
  <1>2. Ends(list) = [i \in 1..n |-> end(i)]
    BY <1>1 DEF Ends
  <1>3. \A i \in 1..n : end(i) \in T
    OBVIOUS
  <1> HIDE DEF n, end, T
  <1>4. Ends(list) \in Seq(T) /\ DOMAIN Ends(list) = 1..n
    BY <1>1, <1>2, <1>3
  <1>5. OneMeaning(Ends(list)) <=> Again(Ends(list)) = {}
    BY <1>4, NothingAgain
  <1>6. Again(Ends(list)) \subseteq 1..n
    BY <1>4 DEF Again
  <1>7. QED
    BY <1>5, <1>6 DEF n

\* What is asked of each has no address, where each wiring that says so asks for something.
LEMMA NoAddressForEach ==
    ASSUME NEW services, NEW wirings \in Seq(WiringEntry),
           \A w \in ToSet(wirings) : Each(w) => w.asks # {}
    PROVE  Addressed(wirings, services) = {} <=>
               \A s \in ToSet(services), w \in ToSet(wirings) :
                   s.id = w.by /\ Each(w) => \A e \in s.env : e.kind = "url_of" => e.of \notin w.asks
  <1> DEFINE S == ToSet(services)
             W == ToSet(wirings)
             each == {<<w.by, w.asks>> : w \in {v \in W : Each(v)}}
             address(e) == IF e.kind = "url_of" THEN {e.of} ELSE {}
             faults(s, e) == Unless(<<s.id, address(e)>> \notin each, "one_address_for_each")
  <1>1. Addressed(wirings, services) = UNION {UNION {faults(s, e) : e \in s.env} : s \in S}
    BY DEF Addressed
  <1>2. \A s, e : faults(s, e) = {} <=> <<s.id, address(e)>> \notin each
    BY DEF Unless
  <1>3. \A s, e : <<s.id, address(e)>> \in each <=> \E w \in W : Each(w) /\ w.by = s.id /\ w.asks = address(e)
    <2> HIDE DEF address, W
    <2> QED
      OBVIOUS
  <1>4. \A w \in W : w \in WiringEntry /\ (Each(w) => w.asks # {})
    BY Members
  <1>5. \A e, w : w \in W /\ Each(w) => (w.asks = address(e) <=> e.kind = "url_of" /\ e.of \in w.asks)
    <2> SUFFICES ASSUME NEW e, NEW w \in W, Each(w) PROVE w.asks = address(e) <=> e.kind = "url_of" /\ e.of \in w.asks
      OBVIOUS
    <2>1. w.asks # {} /\ w.asks \in AtMostOne(STRING)
      BY <1>4 DEF WiringEntry
    <2>2. \A a, b \in w.asks : a = b
      BY <2>1 DEF AtMostOne
    <2>3. CASE e.kind = "url_of"
      <3>1. e.of \in w.asks => w.asks = {e.of}
        BY <2>2
      <3>2. QED
        BY <2>3, <3>1
    <2>4. CASE e.kind # "url_of"
      BY <2>1, <2>4
    <2>5. QED
      BY <2>3, <2>4
  <1> HIDE DEF each, faults, address, S, W
  <1>6. Addressed(wirings, services) = {} <=> \A s \in S : \A e \in s.env : faults(s, e) = {}
    BY <1>1
  <1>7. Addressed(wirings, services) = {} <=> \A s \in S : \A e \in s.env : \A w \in W : ~(Each(w) /\ w.by = s.id /\ w.asks = address(e))
    <2>1. ASSUME NEW s \in S, NEW e \in s.env
          PROVE  faults(s, e) = {} <=> \A w \in W : ~(Each(w) /\ w.by = s.id /\ w.asks = address(e))
      <3>1. faults(s, e) = {} <=> <<s.id, address(e)>> \notin each
        BY <1>2
      <3>2. <<s.id, address(e)>> \in each <=> \E w \in W : Each(w) /\ w.by = s.id /\ w.asks = address(e)
        BY <1>3
      <3>3. QED
        BY <3>1, <3>2
    <2>2. QED
      BY <1>6, <2>1
  <1>8. Addressed(wirings, services) = {} <=>
            \A s \in S : \A e \in s.env : \A w \in W : ~(Each(w) /\ w.by = s.id /\ e.kind = "url_of" /\ e.of \in w.asks)
    BY <1>5, <1>7
  <1>9. QED
    BY <1>8 DEF S, W

LEMMA WiringsHold ==
    ASSUME NEW files, NEW m \in Manifest(files), Again(Field(Services(m), "id")) = {}
    PROVE  WiringsFaults(m.wiring, Services(m), Ids(m)) = {} <=> Wired(m)
  <1> DEFINE W == ToSet(m.wiring)
             again == Again(Ends(m.wiring))
             Unaddressed == \A s \in ToSet(Services(m)), w \in W :
                                s.id = w.by /\ Each(w) => \A e \in s.env : e.kind = "url_of" => e.of \notin w.asks
  <1>1. m.wiring \in Seq(WiringEntry)
    BY ManifestParts
  <1>2. W \subseteq WiringEntry /\ \A i \in 1..Len(m.wiring) : m.wiring[i] \in W
    BY <1>1, Members
  <1>3. WiringsFaults(m.wiring, Services(m), Ids(m)) = {} <=>
            /\ \A w \in W : WiringFaults(w, Services(m), Ids(m)) = {}
            /\ \A i \in again : ~OneEnd(m.wiring[i])
            /\ Addressed(m.wiring, Services(m)) = {}
    <2> DEFINE each == UNION {WiringFaults(w, Services(m), Ids(m)) : w \in W}
               twice == Unless(\A i \in again : ~OneEnd(m.wiring[i]), "a_wiring_twice")
    <2>1. WiringsFaults(m.wiring, Services(m), Ids(m)) = each \union twice \union Addressed(m.wiring, Services(m))
      BY Zenon DEF WiringsFaults
    <2>2. twice = {} <=> \A i \in again : ~OneEnd(m.wiring[i])
      BY DEF Unless
    <2>3. each = {} <=> \A w \in W : WiringFaults(w, Services(m), Ids(m)) = {}
      <3> HIDE DEF W
      <3> QED
        OBVIOUS
    <2> HIDE DEF each, twice, again, W
    <2>4. QED
      BY <2>1, <2>2, <2>3
  <1>4. \A w \in W : WiringFaults(w, Services(m), Ids(m)) = {} <=> Connects(m, w)
    BY <1>2, AWiringConnects
  <1>5. (OneMeaning(Ends(m.wiring)) <=> again = {}) /\ again \subseteq 1..Len(m.wiring)
    BY <1>1, EndsOnce
  <1>6. Wired(m) <=> (\A w \in W : Connects(m, w)) /\ OneMeaning(Ends(m.wiring)) /\ Unaddressed
    BY DEF Wired
  <1>7. ASSUME \A w \in W : Connects(m, w)
        PROVE  /\ (\A i \in again : ~OneEnd(m.wiring[i])) <=> again = {}
               /\ Addressed(m.wiring, Services(m)) = {} <=> Unaddressed
    <2>1. \A w \in W : OneEnd(w) /\ (w.to # {} => w.each = {})
      BY <1>2, <1>7, OneEndInNumbers DEF Connects
    <2>2. \A w \in W : Each(w) => w.asks # {}
      BY <2>1 DEF OneEnd, Each
    <2>3. \A i \in again : OneEnd(m.wiring[i])
      BY <1>2, <1>5, <2>1
    <2>4. Addressed(m.wiring, Services(m)) = {} <=> Unaddressed
      BY <1>1, <2>2, NoAddressForEach
    <2>5. QED
      BY <2>3, <2>4
  <1> HIDE DEF W, again, Unaddressed
  <1>8. QED
    BY <1>3, <1>4, <1>5, <1>6, <1>7
-----------------------------------------------------------------------------
\* A service: what manifest_rules.py asks of what it says of itself.

LEMMA ServiceTyped ==
    ASSUME NEW s \in Service
    PROVE  /\ s.provides \in Seq(STRING) /\ s.claim \in Seq([capability: STRING, probe: SUBSET Fixture])
           /\ s.publish \in Seq(Nat) /\ s.mount \in Seq([to: STRING, relative: BOOLEAN]) /\ s.tmpfs \in Seq(STRING)
           /\ s.port \in AtMostOne(Nat) /\ s.config_path \in AtMostOne(STRING)
           /\ s.own \in BOOLEAN /\ s.takes_data \in BOOLEAN /\ s.missing \in SUBSET SERVICE_REQUIRED
           /\ \A e \in s.env : e.kind \in {"constant", "setting", "url_of", "secret", "none"}
  BY DEF Service

\* Where names are one each, the rules on errands ask of all what they ask of any.
LEMMA ErrandsHold ==
    ASSUME NEW files, NEW m \in Manifest(files), Again(Field(Services(m), "id")) = {}
    PROVE  (/\ \A s \in ToSet(Services(m)) : ErrandFaults(s) = {}
            /\ ErrandsFaults(Services(m)) = {}) <=> Forthcoming(m)
  <1> DEFINE S == ToSet(Services(m))
  <1>1. Services(m) \in Seq(Service)
    BY ManifestParts
  <1>2. \A s, t \in S : t["id"] = s["id"] => t = s
    BY <1>1, NamesOne
  <1>3. ErrandsFaults(Services(m)) = {} <=> \/ \A s \in S : ~Answers(s)
                                            \/ \A s \in S : \E t \in S : t.id = s.id /\ Answers(t)
    BY DEF ErrandsFaults, Unless
  <1>4. \A s : ErrandFaults(s) = {} <=> (Answers(s) => s.reaches # {} /\ s.asks_for # {} /\ s.asks_for # {""})
    BY DEF ErrandFaults, Unless
  <1>5. \A s : Answers(s) <=> s.reaches # {} \/ s.asks_for # {}
    BY DEF Answers
  <1>6. Forthcoming(m) <=> ((\E s \in S : Answers(s)) => \A s \in S : s.reaches # {} /\ s.asks_for # {} /\ s.asks_for # {""})
    BY DEF Forthcoming, Answers
  <1> HIDE DEF S
  <1>7. (\A s \in S : \E t \in S : t.id = s.id /\ Answers(t)) <=> \A s \in S : Answers(s)
    BY <1>2
  <1>8. QED
    <2>1. ((\A s \in S : ErrandFaults(s) = {}) /\ ErrandsFaults(Services(m)) = {}) <=> Forthcoming(m)
      BY <1>3, <1>4, <1>5, <1>6, <1>7
    <2>2. QED
      BY <2>1 DEF S

LEMMA ProvidesHold ==
    ASSUME NEW s \in Service
    PROVE  ProvidesFaults(s) = {} <=> ToSet(s.provides) \subseteq CoreName /\ OneMeaning(s.provides)
  <1>1. OneMeaning(s.provides) <=> Again(s.provides) = {}
    BY ServiceTyped, NothingAgain
  <1>2. QED
    BY <1>1 DEF ProvidesFaults, Unless

LEMMA ClaimsHold ==
    ASSUME NEW s \in Service
    PROVE  ClaimFaults(s) = {} <=>
               /\ OneMeaning(Field(s.claim, "capability"))
               /\ \A c \in ToSet(s.claim) : /\ c.capability \in ToSet(s.provides)
                                            /\ c.probe \subseteq {[under |-> s.id, of |-> {s.digest}]}
  <1> DEFINE Claim == [capability: STRING, probe: SUBSET Fixture]
             C == ToSet(s.claim)
             shown == [under |-> s.id, of |-> {s.digest}]
             recorded(c) == UNION {RecordingFaults(s, fixture) : fixture \in c.probe}
             faults(c) == Unless(c.capability \in ToSet(s.provides), "a_claim_to_what_is_not_provided") \union recorded(c)
             twice == Unless(Again(Field(s.claim, "capability")) = {}, "a_claim_twice")
  <1>1. s.claim \in Seq(Claim)
    BY ServiceTyped
  <1>2. C \subseteq Claim
    <2> HIDE DEF Claim
    <2> QED
      BY <1>1, Members
  <1>3. \A fixture \in Fixture : RecordingFaults(s, fixture) = {} <=> fixture = shown
    <2>1. \A fixture \in Fixture : RecordingFaults(s, fixture) = {} <=> fixture.under = s.id /\ fixture.of = {s.digest}
      BY DEF RecordingFaults, Unless
    <2>2. \A fixture \in Fixture : fixture = [under |-> fixture.under, of |-> fixture.of]
      BY DEF Fixture
    <2>3. QED
      BY <2>1, <2>2
  <1>4. \A c \in C : recorded(c) = {} <=> c.probe \subseteq {shown}
    <2> SUFFICES ASSUME NEW c \in C PROVE recorded(c) = {} <=> c.probe \subseteq {shown}
      OBVIOUS
    <2>1. c.probe \subseteq Fixture
      BY <1>2
    <2>2. recorded(c) = {} <=> \A fixture \in c.probe : RecordingFaults(s, fixture) = {}
      OBVIOUS
    <2> HIDE DEF shown, recorded
    <2>3. QED
      BY <1>3, <2>1, <2>2
  <1>5. \A c : Unless(c.capability \in ToSet(s.provides), "a_claim_to_what_is_not_provided") = {}
                   <=> c.capability \in ToSet(s.provides)
    BY DEF Unless
  <1>6. ClaimFaults(s) = twice \union UNION {faults(c) : c \in C}
    BY DEF ClaimFaults
  <1>7. twice = {} <=> OneMeaning(Field(s.claim, "capability"))
    <2>1. OneMeaning(Field(s.claim, "capability")) <=> Again(Field(s.claim, "capability")) = {}
      BY <1>1, NamedOnce
    <2>2. QED
      BY <2>1 DEF Unless
  <1> HIDE DEF twice, recorded, shown
  <1>8. \A c \in C : faults(c) = {} <=> c.capability \in ToSet(s.provides) /\ c.probe \subseteq {shown}
    BY <1>4, <1>5
  <1> HIDE DEF faults, C
  <1>9. ClaimFaults(s) = {} <=> OneMeaning(Field(s.claim, "capability")) /\ \A c \in C : faults(c) = {}
    BY <1>6, <1>7
  <1>10. QED
    BY <1>8, <1>9 DEF C, shown

LEMMA HealthHolds ==
    ASSUME NEW s
    PROVE  HealthFaults(s) = {} <=>
               \A h \in s.health : h.kind \in HEALTH_KINDS /\ (h.kind = "http" => h.path /\ s.port # {})
  <1> DEFINE faults(h) == Unless(h.kind \in HEALTH_KINDS, "no_such_health_check")
                          \union Unless(h.kind # "http" \/ h.path, "an_http_check_without_a_path")
                          \union Unless(h.kind # "http" \/ s.port # {}, "an_http_check_without_a_port")
  <1>1. HealthFaults(s) = UNION {faults(h) : h \in s.health}
    BY DEF HealthFaults
  <1>2. \A h : faults(h) = {} <=> h.kind \in HEALTH_KINDS /\ (h.kind = "http" => h.path /\ s.port # {})
    BY DEF Unless
  <1> HIDE DEF faults
  <1>3. QED
    BY <1>1, <1>2

LEMMA ApiHolds ==
    ASSUME NEW s
    PROVE  ApiFaults(s) = {} <=>
               \A a \in s.api : /\ a.kind \in API_KINDS /\ s.listens # {} /\ a.source \in {"file", "asked"}
                                /\ (a.source = "file" => a.path) /\ (a.kind = "servarr" => a.version # {})
  <1> DEFINE faults(a) == Unless(a.kind \in API_KINDS, "no_such_api")
                          \union Unless(a.source \in {"file", "asked"}, "no_such_key_source")
                          \union Unless(a.source # "file" \/ a.path, "a_key_file_without_a_path")
                          \union Unless(s.listens # {}, "an_api_that_does_not_listen")
                          \union Unless(a.kind # "servarr" \/ a.version # {}, "an_api_of_no_version")
  <1>1. ApiFaults(s) = UNION {faults(a) : a \in s.api}
    BY DEF ApiFaults
  <1>2. \A a : faults(a) = {} <=> /\ a.kind \in API_KINDS /\ s.listens # {} /\ a.source \in {"file", "asked"}
                                  /\ (a.source = "file" => a.path) /\ (a.kind = "servarr" => a.version # {})
    BY DEF Unless
  <1> HIDE DEF faults
  <1>3. QED
    BY <1>1, <1>2
-----------------------------------------------------------------------------
\* Its container: what container_rules.py asks of its ports and of what is mounted in it.

LEMMA PortsHold ==
    ASSUME NEW s \in Service
    PROVE  Published(s) \union RuntimeFaults(s) = {} <=>
               /\ Cardinality(Ports(s)) = Cardinality(s.port) + Len(s.publish)
               /\ Ports(s) # {} => s.port # {} /\ s.bind # {}
  <1> DEFINE own == SetToSeq(s.port)
             all == own \o s.publish
  <1>1. own \in Seq(Nat) /\ ToSet(own) = s.port /\ Len(own) = Cardinality(s.port)
    BY ServiceTyped, AtMostOneListed
  <1>2. s.publish \in Seq(Nat) /\ Len(s.publish) \in Nat
    BY ServiceTyped, SeqIsFunction
  <1> HIDE DEF own
  <1>3. all \in Seq(Nat) /\ Len(all) = Cardinality(s.port) + Len(s.publish) /\ ToSet(all) = Ports(s)
    <2>1. all \in Seq(Nat) /\ Len(all) = Len(own) + Len(s.publish) /\ ToSet(all) = ToSet(own) \union ToSet(s.publish)
      <3>1. own \in Seq(Nat) /\ s.publish \in Seq(Nat)
        BY <1>1, <1>2
      <3>2. QED
        BY <3>1, JoinedMembers
    <2> HIDE DEF all
    <2>2. QED
      BY <1>1, <2>1 DEF Ports
  <1>4. Again(all) = {} <=> Cardinality(Ports(s)) = Cardinality(s.port) + Len(s.publish)
    <2>1. OneMeaning(all) <=> Again(all) = {}
      BY <1>3, NothingAgain
    <2>2. QED
      BY <2>1, <1>3 DEF OneMeaning
  <1>5. s.publish = <<>> <=> ToSet(s.publish) = {}
    <2>1. s.publish = <<>> => ToSet(s.publish) = {}
      <3>1. ToSet(<<>>) = {}
        BY DEF ToSet
      <3>2. QED
        BY <3>1
    <2>2. s.publish # <<>> => ToSet(s.publish) # {}
      <3>1. s.publish # <<>> => Len(s.publish) \in Nat \ {0}
        BY <1>2, EmptySeq
      <3>2. s.publish # <<>> => 1 \in 1..Len(s.publish)
        BY <3>1
      <3>3. \A i \in 1..Len(s.publish) : s.publish[i] \in ToSet(s.publish)
        BY <1>2, Members
      <3>4. QED
        BY <3>2, <3>3
    <2>3. QED
      BY <2>1, <2>2
  <1>6. Published(s) = {} <=> (s.publish = <<>> \/ s.port # {}) /\ Again(all) = {}
    BY DEF Published, Unless, own
  <1>7. RuntimeFaults(s) = {} <=> s.port = {} \/ s.bind # {}
    BY DEF RuntimeFaults, Unless
  <1> HIDE DEF all
  <1>8. QED
    BY <1>4, <1>5, <1>6, <1>7 DEF Ports

\* The entries of a field, of all that are listed.
LEMMA FieldMembers ==
    ASSUME NEW S, NEW list \in Seq(S), NEW field
    PROVE  \A v : v \in ToSet(Field(list, field)) <=> \E e \in ToSet(list) : e[field] = v
  <1> DEFINE named == Field(list, field)
  <1>1. DOMAIN named = 1..Len(list) /\ \A i \in 1..Len(list) : named[i] = list[i][field]
    BY FieldsListed
  <1>2. (\A i \in 1..Len(list) : list[i] \in ToSet(list)) /\ \A e \in ToSet(list) : \E i \in 1..Len(list) : list[i] = e
    BY Members
  <1> HIDE DEF named
  <1>3. \A v : v \in ToSet(named) <=> \E i \in 1..Len(list) : list[i][field] = v
    BY <1>1 DEF ToSet
  <1>4. \A v : v \in ToSet(named) <=> \E e \in ToSet(list) : e[field] = v
    BY <1>2, <1>3
  <1>5. QED
    BY <1>4 DEF named

\* What is mounted, in the order the rules read it, and where the service's settings are.
Paths == STRING \union {"/config"}

LEMMA TargetsAreMounts ==
    ASSUME NEW s \in Service
    PROVE  /\ Targets(s) \in Seq(Paths) /\ ToSet(Targets(s)) = Mounts(s)
           /\ Len(Targets(s)) = 1 + Len(s.mount) + Len(s.tmpfs) /\ Len(Targets(s)) \in Nat
           /\ s.config_path = {} => Targets(s)[1] = "/config"
           /\ s.config_path # {} => Targets(s)[1] \in s.config_path
           /\ s.config_path \subseteq Mounts(s)
  <1> DEFINE first == IF s.config_path = {} THEN <<"/config">> ELSE SetToSeq(s.config_path)
             mounted == Field(s.mount, "to")
             two == first \o mounted
             Mount == [to: STRING, relative: BOOLEAN]
  <1>1. /\ first \in Seq(Paths) /\ Len(first) = 1
        /\ ToSet(first) = IF s.config_path = {} THEN {"/config"} ELSE s.config_path
    <2>1. CASE s.config_path = {}
      <3>1. <<"/config">> \in Seq(Paths) /\ Len(<<"/config">>) = 1 /\ ToSet(<<"/config">>) = {"/config"}
        BY OneListed DEF Paths
      <3>2. QED
        BY <2>1, <3>1
    <2>2. CASE s.config_path # {}
      <3>1. /\ SetToSeq(s.config_path) \in Seq(STRING) /\ ToSet(SetToSeq(s.config_path)) = s.config_path
            /\ Len(SetToSeq(s.config_path)) = 1
        BY <2>2, ServiceTyped, AtMostOneListed
      <3>2. SetToSeq(s.config_path) \in Seq(Paths)
        BY <3>1, SeqMonotonic DEF Paths
      <3>3. QED
        BY <2>2, <3>1, <3>2
    <2>3. QED
      BY <2>1, <2>2
  <1>2. s.mount \in Seq(Mount) /\ Len(s.mount) \in Nat /\ s.tmpfs \in Seq(Paths) /\ Len(s.tmpfs) \in Nat
    <2>1. s.mount \in Seq(Mount) /\ s.tmpfs \in Seq(STRING)
      BY ServiceTyped
    <2>2. s.tmpfs \in Seq(Paths)
      BY <2>1, SeqMonotonic DEF Paths
    <2> HIDE DEF Mount
    <2>3. QED
      BY <2>1, <2>2, SeqIsFunction
  <1>3. mounted \in Seq(Paths) /\ Len(mounted) = Len(s.mount)
    <2>1. Values(Mount, "to") \subseteq Paths
      BY DEF Values, Paths
    <2> HIDE DEF Mount
    <2>2. mounted \in Seq(Values(Mount, "to")) /\ Len(mounted) = Len(s.mount)
      BY <1>2, FieldsListed
    <2> HIDE DEF mounted
    <2>3. QED
      BY <2>1, <2>2, SeqMonotonic
  <1>4. ToSet(mounted) = {mount.to : mount \in ToSet(s.mount)}
    <2> HIDE DEF Mount
    <2>1. \A v : v \in ToSet(mounted) <=> \E mount \in ToSet(s.mount) : mount["to"] = v
      BY <1>2, FieldMembers
    <2> HIDE DEF mounted
    <2>2. QED
      BY <2>1
  <1>5. Targets(s) = two \o s.tmpfs
    BY DEF Targets
  <1> HIDE DEF first, mounted
  <1>6. two \in Seq(Paths) /\ Len(two) = 1 + Len(s.mount) /\ ToSet(two) = ToSet(first) \union ToSet(mounted) /\ two[1] = first[1]
    <2>1. two \in Seq(Paths) /\ Len(two) = Len(first) + Len(mounted) /\ ToSet(two) = ToSet(first) \union ToSet(mounted)
      <3>1. first \in Seq(Paths) /\ mounted \in Seq(Paths)
        BY <1>1, <1>3
      <3>2. QED
        BY <3>1, JoinedMembers
    <2>2. two[1] = first[1]
      BY <1>1, <1>2, <1>3, ConcatProperties
    <2>3. QED
      BY <1>1, <1>3, <2>1, <2>2
  <1> HIDE DEF two
  <1>7. /\ Targets(s) \in Seq(Paths) /\ Len(Targets(s)) = 1 + Len(s.mount) + Len(s.tmpfs)
        /\ ToSet(Targets(s)) = ToSet(two) \union ToSet(s.tmpfs) /\ Targets(s)[1] = first[1]
    <2>1. two \o s.tmpfs \in Seq(Paths) /\ Len(two \o s.tmpfs) = Len(two) + Len(s.tmpfs)
          /\ ToSet(two \o s.tmpfs) = ToSet(two) \union ToSet(s.tmpfs)
      <3>1. two \in Seq(Paths) /\ s.tmpfs \in Seq(Paths)
        BY <1>2, <1>6
      <3>2. QED
        BY <3>1, JoinedMembers
    <2>2. (two \o s.tmpfs)[1] = two[1]
      BY <1>2, <1>6, ConcatProperties
    <2>3. QED
      BY <1>5, <1>6, <2>1, <2>2
  <1>8. first[1] \in ToSet(first)
    BY <1>1, Members
  <1>9. ToSet(Targets(s)) = Mounts(s)
    BY <1>1, <1>4, <1>6, <1>7 DEF Mounts
  <1>10. s.config_path \subseteq Mounts(s)
    BY DEF Mounts
  <1>11. Len(Targets(s)) \in Nat
    BY <1>7, LenProperties
  <1>12. (s.config_path = {} => first[1] = "/config") /\ (s.config_path # {} => first[1] \in s.config_path)
    BY <1>1, <1>8
  <1>13. QED
    BY <1>7, <1>9, <1>10, <1>11, <1>12

LEMMA MountsHold ==
    ASSUME NEW s \in Service
    PROVE  Mounted(s) = {} <=>
               /\ Mounts(s) \subseteq PlainPath /\ Cardinality(Mounts(s)) = 1 + Len(s.mount) + Len(s.tmpfs)
               /\ s.takes_data => Mounts(s) \cap DataPath = {}
               /\ s.config_path \cap DataPath = {} /\ \A mount \in ToSet(s.mount) : mount.relative
  <1> DEFINE targets == Targets(s)
             n == Len(targets)
             May(path, takesData) == path \in PlainPath /\ (takesData => path \notin DataPath)
             own == UNION {TargetFaults(path, TRUE) : path \in s.config_path}
             further == UNION {TargetFaults(targets[i], s.takes_data) : i \in 2..n}
             outside == UNION {Unless(mount.relative, "a_mount_from_outside") : mount \in ToSet(s.mount)}
             twice == Unless(Again(targets) = {}, "two_on_one_target")
             Relative == \A mount \in ToSet(s.mount) : mount.relative
  <1>1. /\ targets \in Seq(Paths) /\ ToSet(targets) = Mounts(s) /\ n \in Nat
        /\ n = 1 + Len(s.mount) + Len(s.tmpfs)
        /\ s.config_path = {} => targets[1] = "/config"
        /\ s.config_path # {} => targets[1] \in s.config_path
        /\ s.config_path \subseteq Mounts(s)
    BY TargetsAreMounts
  <1>2. s.takes_data \in BOOLEAN
    BY ServiceTyped
  <1>3. Mounted(s) = own \union further \union twice \union outside
    BY DEF Mounted
  <1>4. \A path : TargetFaults(path, TRUE) = {} <=> May(path, TRUE)
    BY DEF TargetFaults, Unless
  <1>5. \A path : TargetFaults(path, s.takes_data) = {} <=> May(path, s.takes_data)
    BY <1>2 DEF TargetFaults, Unless
  <1>6. twice = {} <=> Again(targets) = {}
    BY DEF Unless
  <1>7. outside = {} <=> Relative
    BY DEF Unless
  <1> HIDE DEF targets, n, May, twice, outside, Relative
  <1>8. own = {} <=> \A path \in s.config_path : May(path, TRUE)
    BY <1>4
  <1>9. further = {} <=> \A i \in 2..n : May(targets[i], s.takes_data)
    BY <1>5
  <1> HIDE DEF own, further
  <1>10. Mounted(s) = {} <=> /\ \A path \in s.config_path : May(path, TRUE)
                             /\ \A i \in 2..n : May(targets[i], s.takes_data)
                             /\ Again(targets) = {} /\ Relative
    BY <1>3, <1>6, <1>7, <1>8, <1>9
  <1>11. Again(targets) = {} <=> Cardinality(Mounts(s)) = n
    <2>1. OneMeaning(targets) <=> Again(targets) = {}
      BY <1>1, NothingAgain
    <2>2. QED
      BY <1>1, <2>1 DEF OneMeaning, n
  <1>12. ToSet(targets) = {targets[i] : i \in 1..n}
    BY <1>1, Members DEF n
  <1>13. (\A path \in Mounts(s) : May(path, s.takes_data)) <=> \A i \in 1..n : May(targets[i], s.takes_data)
    BY <1>1, <1>12, ZenonT(40)
  <1>14. ASSUME \A path \in s.config_path : May(path, TRUE) PROVE May(targets[1], s.takes_data)
    BY <1>1, <1>14, ManifestAssumption DEF May
  <1>15. (\A i \in 1..n : i = 1 \/ i \in 2..n) /\ (\A i \in 2..n : i \in 1..n) /\ 1 \in 1..n
    <2>1. n \in Nat
      BY <1>1
    <2>2. n >= 1
      <3>1. Len(s.mount) \in Nat /\ Len(s.tmpfs) \in Nat
        <4> DEFINE Mount == [to: STRING, relative: BOOLEAN]
        <4>1. s.mount \in Seq(Mount) /\ s.tmpfs \in Seq(STRING)
          BY ServiceTyped
        <4> HIDE DEF Mount
        <4>2. QED
          BY <4>1, SeqIsFunction
      <3>2. n = 1 + Len(s.mount) + Len(s.tmpfs)
        BY <1>1
      <3>3. \A a, b \in Nat : 1 + a + b >= 1
        OBVIOUS
      <3>4. 1 + Len(s.mount) + Len(s.tmpfs) >= 1
        BY <3>1, <3>3, Zenon
      <3>5. QED
        BY <3>2, <3>4, Zenon
    <2>3. QED
      BY <2>1, <2>2
  <1>16. Mounted(s) = {} <=> /\ \A path \in s.config_path : May(path, TRUE)
                             /\ \A path \in Mounts(s) : May(path, s.takes_data)
                             /\ Cardinality(Mounts(s)) = n /\ Relative
    <2>1. ASSUME \A path \in s.config_path : May(path, TRUE)
          PROVE  (\A i \in 2..n : May(targets[i], s.takes_data)) <=> \A i \in 1..n : May(targets[i], s.takes_data)
      BY <1>14, <1>15, <2>1
    <2>2. QED
      BY <1>10, <1>11, <1>13, <2>1
  <1>17. (\A path \in s.config_path : May(path, TRUE)) /\ (\A path \in Mounts(s) : May(path, s.takes_data)) <=>
             /\ Mounts(s) \subseteq PlainPath /\ (s.takes_data => Mounts(s) \cap DataPath = {})
             /\ s.config_path \cap DataPath = {}
    BY <1>1, <1>2 DEF May
  <1>18. QED
    BY <1>1, <1>16, <1>17 DEF Relative

LEMMA EnvironmentHolds ==
    ASSUME NEW s \in Service
    PROVE  Environed(s) = {} /\ (\A e \in s.env : e.kind # "none") <=>
               \A e \in s.env : /\ e.name \notin RESERVED
                                /\ \/ e.kind = "constant"
                                   \/ e.kind = "setting" /\ e.of \in {"published", s.id}
                                   \/ e.kind = "url_of" /\ e.of \in AddressName
  <1> DEFINE faults(e) == Unless(e.name \notin RESERVED, "a_variable_of_lemonfiber") \union ValueFaults(s, e)
             Valued(e) == \/ e.kind = "constant"
                          \/ e.kind = "setting" /\ e.of \in {"published", s.id}
                          \/ e.kind = "url_of" /\ e.of \in AddressName
  <1>1. Environed(s) = UNION {faults(e) : e \in s.env}
    BY DEF Environed
  <1>2. \A e \in s.env : e.kind \in {"constant", "setting", "url_of", "secret", "none"}
    BY ServiceTyped
  <1>3. ASSUME NEW e \in s.env PROVE faults(e) = {} /\ e.kind # "none" <=> e.name \notin RESERVED /\ Valued(e)
    <2>1. Unless(e.name \notin RESERVED, "a_variable_of_lemonfiber") = {} <=> e.name \notin RESERVED
      BY DEF Unless
    <2>2. ValueFaults(s, e) = {} /\ e.kind # "none" <=> Valued(e)
      BY <1>2 DEF ValueFaults, Unless
    <2> HIDE DEF Valued
    <2>3. QED
      BY <2>1, <2>2
  <1> HIDE DEF faults
  <1>4. Environed(s) = {} <=> \A e \in s.env : faults(e) = {}
    BY <1>1
  <1>5. Environed(s) = {} /\ (\A e \in s.env : e.kind # "none") <=> \A e \in s.env : e.name \notin RESERVED /\ Valued(e)
    <2> HIDE DEF Valued
    <2> QED
      BY <1>3, <1>4
  <1>6. QED
    BY <1>5

LEMMA PlacementHolds ==
    ASSUME NEW s
    PROVE  /\ Confined(s) = {} <=> (s.posture = {"confined"} => User(s) = {"uid"} /\ s.shape = {})
           /\ Routed(s) = {} <=> s.via \subseteq VIA \ ToSet(s.provides)
           /\ Shaped(s) = {} <=> \A shape \in s.shape : Serves[shape] \in ToSet(s.provides)
  <1>1. Confined(s) = {} <=> (s.posture = {"confined"} => User(s) = {"uid"} /\ s.shape = {})
    BY DEF Confined, Unless
  <1>2. Routed(s) = {} <=> s.via \subseteq VIA /\ s.via \cap ToSet(s.provides) = {}
    BY DEF Routed, Unless
  <1>3. s.via \subseteq VIA /\ s.via \cap ToSet(s.provides) = {} <=> s.via \subseteq VIA \ ToSet(s.provides)
    OBVIOUS
  <1>4. Shaped(s) = {} <=> \A shape \in s.shape : Serves[shape] \in ToSet(s.provides)
    BY DEF Shaped, Unless
  <1>5. QED
    BY <1>1, <1>2, <1>3, <1>4

LEMMA AServiceHolds ==
    ASSUME NEW s \in Service, NEW ids
    PROVE  ServiceFaults(s, ids) = {} <=> s.profile \in ids /\ ErrandFaults(s) = {} /\ Contained(s) /\ Truthful(s)
  <1> DEFINE Kinds == \A e \in s.env : e.kind # "none"
             Licensed == s.license = IF s.own THEN "own" ELSE "osi"
             Runs == RuntimeFaults(s) = {}
             Publishes == Published(s) = {}
             Mounting == Mounted(s) = {}
             Environs == Environed(s) = {}
             Confines == Confined(s) = {}
             Routes == Routed(s) = {}
             Shapes == Shaped(s) = {}
             Errs == ErrandFaults(s) = {}
             Provides == ProvidesFaults(s) = {}
             Claims == ClaimFaults(s) = {}
             Healthy == HealthFaults(s) = {}
             Api == ApiFaults(s) = {}
             Containing == ContainerFaults(s) = {}
             Typed == Mistyped(s) = {}
  <1>1. ServiceFaults(s, ids) = {} <=> /\ s.missing = {} /\ s.wrong = {} /\ Typed /\ s.profile \in ids /\ Licensed
                                       /\ Errs /\ Provides /\ Claims /\ Runs /\ Healthy /\ Api /\ Containing
    <2> DEFINE profiled == Unless(s.profile \in ids, "a_service_of_a_profile_unknown")
               licensed == Unless(IF s.own THEN s.license = "own" ELSE s.license = "osi", "a_licence_not_recognised")
    <2>1. ServiceFaults(s, ids) = s.missing \union s.wrong \union Mistyped(s) \union profiled \union licensed
              \union ErrandFaults(s) \union ProvidesFaults(s) \union ClaimFaults(s)
              \union RuntimeFaults(s) \union HealthFaults(s) \union ApiFaults(s) \union ContainerFaults(s)
      BY Zenon DEF ServiceFaults
    <2>2. (profiled = {} <=> s.profile \in ids) /\ (licensed = {} <=> Licensed)
      BY DEF Unless
    <2> HIDE DEF profiled, licensed, Licensed
    <2>3. QED
      BY <2>1, <2>2
  <1>2. ContainerFaults(s) = IF ~Typed THEN {} ELSE Published(s) \union Mounted(s) \union Environed(s) \union Confined(s)
                                                    \union Routed(s) \union Shaped(s)
    BY Zenon DEF ContainerFaults
  <1>3. Typed => (Containing <=> Publishes /\ Mounting /\ Environs /\ Confines /\ Routes /\ Shapes)
    <2> HIDE DEF Typed
    <2> QED
      BY <1>2
  <1>4. s.wrong = {} => (Typed <=> Kinds)
    BY DEF Mistyped, Unless
  <1>5. Publishes /\ Runs <=> /\ Cardinality(Ports(s)) = Cardinality(s.port) + Len(s.publish)
                              /\ (Ports(s) # {} => s.port # {} /\ s.bind # {})
    BY PortsHold
  <1>6. Contained(s) <=> Publishes /\ Runs /\ Mounting /\ Environs /\ Kinds /\ Confines /\ Routes /\ Shapes
    <2> DEFINE Ported == /\ Cardinality(Ports(s)) = Cardinality(s.port) + Len(s.publish)
                         /\ Ports(s) # {} => s.port # {} /\ s.bind # {}
               Placed == /\ Mounts(s) \subseteq PlainPath /\ Cardinality(Mounts(s)) = 1 + Len(s.mount) + Len(s.tmpfs)
                         /\ s.takes_data => Mounts(s) \cap DataPath = {}
                         /\ s.config_path \cap DataPath = {} /\ \A mount \in ToSet(s.mount) : mount.relative
               Lone == s.posture = {"confined"} => User(s) = {"uid"} /\ s.shape = {}
               Serving == \A shape \in s.shape : Serves[shape] \in ToSet(s.provides)
               Beyond == s.via \subseteq VIA \ ToSet(s.provides)
               Valued == \A e \in s.env : /\ e.name \notin RESERVED
                                          /\ \/ e.kind = "constant"
                                             \/ e.kind = "setting" /\ e.of \in {"published", s.id}
                                             \/ e.kind = "url_of" /\ e.of \in AddressName
    <2>1. Contained(s) <=> Ported /\ Placed /\ Lone /\ Serving /\ Beyond /\ Valued
      BY Zenon DEF Contained
    <2>2. Ported <=> Publishes /\ Runs
      BY <1>5
    <2>3. Placed <=> Mounting
      BY MountsHold
    <2>4. (Lone <=> Confines) /\ (Beyond <=> Routes) /\ (Serving <=> Shapes)
      BY PlacementHolds
    <2>5. Valued <=> Environs /\ Kinds
      BY EnvironmentHolds
    <2> HIDE DEF Ported, Placed, Lone, Serving, Beyond, Valued, Publishes, Runs, Mounting, Confines, Routes, Shapes, Environs, Kinds
    <2>6. QED
      BY <2>1, <2>2, <2>3, <2>4, <2>5
  <1>7. Truthful(s) <=> s.missing = {} /\ s.wrong = {} /\ Licensed /\ Provides /\ Claims /\ Healthy /\ Api
    <2> DEFINE Providing == ToSet(s.provides) \subseteq CoreName /\ OneMeaning(s.provides)
               Claiming == /\ OneMeaning(Field(s.claim, "capability"))
                           /\ \A c \in ToSet(s.claim) : /\ c.capability \in ToSet(s.provides)
                                                        /\ c.probe \subseteq {[under |-> s.id, of |-> {s.digest}]}
               Asked == \A h \in s.health : h.kind \in HEALTH_KINDS /\ (h.kind = "http" => h.path /\ s.port # {})
               Keyed == \A a \in s.api : /\ a.kind \in API_KINDS /\ s.listens # {} /\ a.source \in {"file", "asked"}
                                         /\ (a.source = "file" => a.path) /\ (a.kind = "servarr" => a.version # {})
    <2>1. Truthful(s) <=> s.missing = {} /\ s.wrong = {} /\ Licensed /\ Providing /\ Claiming /\ Asked /\ Keyed
      BY Zenon DEF Truthful
    <2>2. (Providing <=> Provides) /\ (Claiming <=> Claims)
      BY ProvidesHold, ClaimsHold
    <2>3. (Asked <=> Healthy) /\ (Keyed <=> Api)
      BY HealthHolds, ApiHolds
    <2> HIDE DEF Providing, Claiming, Asked, Keyed, Provides, Claims, Healthy, Api, Licensed
    <2>4. QED
      BY <2>1, <2>2, <2>3
  <1> HIDE DEF Kinds, Licensed, Runs, Publishes, Mounting, Environs, Confines, Routes, Shapes, Errs, Provides, Claims,
               Healthy, Api, Containing, Typed
  <1>8. ServiceFaults(s, ids) = {} <=> s.profile \in ids /\ Errs /\ Contained(s) /\ Truthful(s)
    BY <1>1, <1>3, <1>4, <1>6, <1>7
  <1>9. QED
    BY <1>8 DEF Errs

\* What the rules refuse in a manifest is what makes it unsound.
LEMMA RulesAreSound ==
    ASSUME NEW files, NEW m \in Manifest(files)
    PROVE  Faults(m) = {} <=> Sound(m)
  <1> DEFINE S == ToSet(Services(m))
             ids == Profiled(m)
             Layout == LayoutFaults(m) = {} /\ m.versions
             Ones == Again(Field(Services(m), "id")) = {}
             Forms == Again(Field(m.form, "id")) = {}
             FormsFit == FormFaults(m.form, ids) = {}
             NoOrphan == OrphanFaults(ids, m.form, Services(m)) = {}
             OfProfile == \A s \in S : s.profile \in ids
             Errands == \A s \in S : ErrandFaults(s) = {}
             AllErrands == ErrandsFaults(Services(m)) = {}
             EachHolds == \A s \in S : Contained(s) /\ Truthful(s)
             ProfilesFit == ProfileFaults(Profiles(m)) = {}
             RemovalsFit == RemovalFaults(m.removed, Ids(m)) = {}
             WiringsFit == WiringsFaults(m.wiring, Services(m), Ids(m)) = {}
             ServicesFit == \A s \in S : ServiceFaults(s, ids) = {}
             NamedProfiles == OneMeaning(Field(Profiles(m), "id"))
             NamedRemovals == OneMeaning(Field(m.removed, "id"))
             NamedServices == OneMeaning(Field(Services(m), "id"))
             NamedForms == OneMeaning(Field(m.form, "id"))
  <1>1. /\ Services(m) \in Seq(Service) /\ Profiles(m) \in Seq(ProfileEntry)
        /\ m.form \in Seq(FormEntry) /\ S \subseteq Service
    BY ManifestParts, Members, Zenon
  <1>2. Faults(m) = {} <=>
            Layout /\ ProfilesFit /\ FormsFit /\ Ones /\ ServicesFit /\ AllErrands /\ NoOrphan /\ RemovalsFit /\ WiringsFit
    BY FaultsInParts, Zenon
  <1>3. Sound(m) <=> /\ FilesRead(m) /\ Named(m) /\ Reached(m) /\ Narrowed(m) /\ Wired(m) /\ Left(m)
                     /\ Forthcoming(m) /\ EachHolds
    BY Zenon DEF Sound, Whole, Linked
  <1>4. Layout <=> FilesRead(m)
    BY LayoutHolds, Zenon
  <1>5. Named(m) <=> NamedServices /\ NamedProfiles /\ NamedForms /\ NamedRemovals
    BY Zenon DEF Named
  <1>6. (NamedServices <=> Ones) /\ (NamedForms <=> Forms)
    BY <1>1, NamedOnce, Zenon
  <1>7. ProfilesFit <=> NamedProfiles /\ Narrowed(m)
    BY <1>1, ProfilesHold, Zenon DEF Narrowed
  <1>8. FormsFit => Forms
    BY DEF FormFaults, Unless
  <1>9. Forms => (FormsFit /\ NoOrphan /\ OfProfile <=> Reached(m))
    BY FormsReach, Zenon
  <1>10. RemovalsFit <=> NamedRemovals /\ Left(m)
    BY RemovalsHold, Zenon
  <1>11. Ones => (WiringsFit <=> Wired(m))
    BY WiringsHold, Zenon
  <1>12. Ones => (Errands /\ AllErrands <=> Forthcoming(m))
    BY ErrandsHold, Zenon
  <1>13. ServicesFit <=> OfProfile /\ Errands /\ EachHolds
    <2>1. \A s \in S : ServiceFaults(s, ids) = {} <=> s.profile \in ids /\ ErrandFaults(s) = {} /\ Contained(s) /\ Truthful(s)
      BY <1>1, AServiceHolds, Zenon
    <2>2. QED
      BY <2>1, Zenon
  <1> HIDE DEF Layout, Ones, Forms, FormsFit, NoOrphan, OfProfile, Errands, AllErrands, EachHolds, ProfilesFit,
               RemovalsFit, WiringsFit, ServicesFit, NamedProfiles, NamedRemovals, NamedServices, NamedForms
  <1>14. QED
    BY <1>2, <1>3, <1>4, <1>5, <1>6, <1>7, <1>8, <1>9, <1>10, <1>11, <1>12, <1>13
-----------------------------------------------------------------------------
\* Whatever is edited, what is there is a manifest the rules can read.

\* What a service says.
ServiceFields ==
    {"id", "missing", "wrong", "profile", "own", "license", "digest", "reaches", "asks_for", "provides", "claim",
     "port", "bind", "listens", "publish", "health", "api", "takes_data", "config_path", "mount", "tmpfs", "env",
     "user_mode", "posture", "via", "shape"}

\* A value that one service may give a field is one that any may give it.
LEMMA FieldWritten ==
    ASSUME NEW s \in Service, NEW t \in Service, NEW field \in DOMAIN t, NEW v, [t EXCEPT ![field] = v] \in Service
    PROVE  [s EXCEPT ![field] = v] \in Service
  <1> DEFINE u == [t EXCEPT ![field] = v]
             w == [s EXCEPT ![field] = v]
  <1>1. \A x \in Service : DOMAIN x = ServiceFields /\ x = [f \in ServiceFields |-> x[f]]
    BY DEF Service, ServiceFields
  <1>2. w = [f \in ServiceFields |-> IF f = field THEN v ELSE s[f]]
    BY <1>1
  <1>3. u = [f \in ServiceFields |-> IF f = field THEN v ELSE t[f]]
    BY <1>1
  <1>4. \A f \in ServiceFields : w[f] = u[f] \/ w[f] = s[f]
    BY <1>2, <1>3
  <1>5. w = [f \in ServiceFields |-> w[f]] /\ u \in Service
    BY <1>2
  <1> HIDE DEF u, w
  <1>6. w \in Service
    BY <1>4, <1>5, ZenonT(60) DEF Service, ServiceFields
  <1>7. QED
    BY <1>6 DEF w

\* One entry less.
LEMMA RemovedIsAList ==
    ASSUME NEW S, NEW list \in Seq(S), NEW i \in DOMAIN list
    PROVE  RemoveAt(list, i) \in Seq(S)
  <1>1. i \in 1..Len(list) /\ Len(list) \in Nat
    BY LenProperties
  <1>2. \A j \in 1..Len(list) : list[j] \in S
    BY ElementOfSeq
  <1>3. SubSeq(list, 1, i - 1) \in Seq(S)
    <2>1. \A j \in 1..(i - 1) : list[j] \in S
      BY <1>1, <1>2
    <2>2. QED
      BY <1>1, <2>1, SubSeqProperties
  <1>4. SubSeq(list, i + 1, Len(list)) \in Seq(S)
    <2>1. \A j \in (i + 1)..Len(list) : list[j] \in S
      BY <1>1, <1>2
    <2>2. QED
      BY <1>1, <2>1, SubSeqProperties
  <1>5. QED
    BY <1>3, <1>4, ConcatProperties DEF RemoveAt

\* A list that is edited by what may be in it is a list of the same.
LEMMA RewrittenIsAList ==
    ASSUME NEW S, NEW list \in Seq(S), NEW Entry \in SUBSET S, NEW new \in Rewritten(list, Entry)
    PROVE  new \in Seq(S)
  <1>1. \A i \in DOMAIN list, e \in Entry : ReplaceAt(list, i, e) \in Seq(S)
    BY LenProperties, ExceptSeq DEF ReplaceAt
  <1>2. \A e \in Entry : Append(list, e) \in Seq(S)
    BY AppendProperties
  <1>3. \A i \in DOMAIN list : RemoveAt(list, i) \in Seq(S)
    BY RemovedIsAList
  <1>4. QED
    BY <1>1, <1>2, <1>3 DEF Rewritten

\* A manifest with one of its tables, or one of its files, written anew.
LEMMA ManifestWritten ==
    ASSUME NEW files, NEW m \in Manifest(files)
    PROVE  /\ [m EXCEPT !.versions = ~@] \in Manifest(files)
           /\ \A list \in Seq(Service) : [m EXCEPT !.service = list] \in Manifest(files)
           /\ \A list \in Seq(files \union {"elsewhere"}) : [m EXCEPT !.include = list] \in Manifest(files)
           /\ \A list \in Seq(ProfileEntry) : [m EXCEPT !.profile = list] \in Manifest(files)
           /\ \A list \in Seq(FormEntry) : [m EXCEPT !.form = list] \in Manifest(files)
           /\ \A list \in Seq(WiringEntry) : [m EXCEPT !.wiring = list] \in Manifest(files)
           /\ \A list \in Seq(RemovalEntry) : [m EXCEPT !.removed = list] \in Manifest(files)
           /\ \A f \in files, held \in AtMostOne(Document) : [m EXCEPT !.file[f] = held] \in Manifest(files)
  <1>1. \A f \in files, held \in AtMostOne(Document) : [m.file EXCEPT ![f] = held] \in [files -> AtMostOne(Document)]
    BY DEF Manifest
  <1>2. \A file \in [files -> AtMostOne(Document)] : [m EXCEPT !.file = file] \in Manifest(files)
    BY DEF Manifest
  <1>3. \A f \in files, held \in AtMostOne(Document) : [m EXCEPT !.file[f] = held] \in Manifest(files)
    BY <1>1, <1>2
  <1>4. QED
    BY <1>3 DEF Manifest

\* A file is empty or holds a document, and a document that is edited is one.
LEMMA DocumentsWritten ==
    ASSUME NEW files, NEW m \in Manifest(files), NEW f \in files
    PROVE  /\ {} \in AtMostOne(Document) /\ \A document \in Document : {document} \in AtMostOne(Document)
           /\ \A document \in m.file[f] :
                /\ document \in Document
                /\ \A list \in Seq(Service) : [document EXCEPT !.service = list] \in Document
                /\ \A p \in ProfileEntry : [document EXCEPT !.profile = Append(@, p)] \in Document
                /\ \A s \in Service : document.service # <<>> => [document EXCEPT !.service[1] = s] \in Document
  <1>1. {} \in AtMostOne(Document) /\ \A document \in Document : {document} \in AtMostOne(Document)
    BY DEF AtMostOne
  <1>2. m.file[f] \subseteq Document
    BY DEF Manifest, AtMostOne
  <1>3. ASSUME NEW document \in Document
        PROVE  /\ \A list \in Seq(Service) : [document EXCEPT !.service = list] \in Document
               /\ \A p \in ProfileEntry : [document EXCEPT !.profile = Append(@, p)] \in Document
               /\ \A s \in Service : document.service # <<>> => [document EXCEPT !.service[1] = s] \in Document
    <2>1. document.service \in Seq(Service) /\ document.profile \in Seq(ProfileEntry)
      BY DEF Document
    <2>2. \A p \in ProfileEntry : Append(document.profile, p) \in Seq(ProfileEntry)
      BY <2>1, AppendProperties
    <2>3. \A s \in Service : document.service # <<>> => [document.service EXCEPT ![1] = s] \in Seq(Service)
      <3>1. document.service # <<>> => 1 \in 1..Len(document.service)
        BY <2>1, EmptySeq
      <3>2. QED
        BY <2>1, <3>1, ExceptSeq
    <2>4. \A list \in Seq(Service) : [document EXCEPT !.service = list] \in Document
      BY DEF Document
    <2>5. \A list \in Seq(ProfileEntry) : [document EXCEPT !.profile = list] \in Document
      BY DEF Document
    <2>6. QED
      BY <2>2, <2>3, <2>4, <2>5
  <1>4. QED
    BY <1>1, <1>2, <1>3

\* The edit of a service's field.
LEMMA EditServiceTyping ==
    ASSUME AdmissionTypeOK, EditService
    PROVE  AdmissionTypeOK'
  <1>1. PICK f \in DOMAIN Value : \E field \in DOMAIN Value[f] : \E document \in head.file[f], v \in Value[f][field] :
            /\ document.service # <<>>
            /\ Becomes([head EXCEPT !.file[f] = {[document EXCEPT !.service[1] = [document.service[1] EXCEPT ![field] = v]]}])
    BY DEF EditService
  <1>2. PICK field \in DOMAIN Value[f] : \E document \in head.file[f], v \in Value[f][field] :
            /\ document.service # <<>>
            /\ Becomes([head EXCEPT !.file[f] = {[document EXCEPT !.service[1] = [document.service[1] EXCEPT ![field] = v]]}])
    BY <1>1
  <1>3. PICK document \in head.file[f], v \in Value[f][field] :
            /\ document.service # <<>>
            /\ Becomes([head EXCEPT !.file[f] = {[document EXCEPT !.service[1] = [document.service[1] EXCEPT ![field] = v]]}])
    BY <1>2
  <1>4. f \in Files /\ head \in Manifest(Files) /\ field \in DOMAIN NewService /\ NewService \in Service
        /\ [NewService EXCEPT ![field] = v] \in Service
    BY ShapeAssumption DEF AdmissionTypeOK
  <1>5. document \in Document /\ document.service[1] \in Service
    <2>1. document \in Document
      BY <1>4, DocumentsWritten
    <2>2. document.service \in Seq(Service)
      BY <2>1 DEF Document
    <2>3. QED
      BY <1>3, <2>1, <2>2, EmptySeq, ElementOfSeq
  <1> DEFINE s == [document.service[1] EXCEPT ![field] = v]
             written == [document EXCEPT !.service[1] = s]
             m == [head EXCEPT !.file[f] = {written}]
  <1>6. s \in Service
    BY <1>4, <1>5, FieldWritten
  <1>7. Becomes(m)
    BY <1>3
  <1> HIDE DEF s
  <1>8. {written} \in AtMostOne(Document)
    BY <1>3, <1>4, <1>6, DocumentsWritten
  <1> HIDE DEF written
  <1>9. m \in Manifest(Files)
    BY <1>4, <1>8, ManifestWritten
  <1> HIDE DEF m
  <1>10. QED
    BY <1>7, <1>9, AdmissionAssumption DEF AdmissionTypeOK, Becomes

\* The edit of a file: emptied, left, given a profile, or another service, or written.
LEMMA EditFileTyping ==
    ASSUME AdmissionTypeOK, EditFile
    PROVE  AdmissionTypeOK'
  <1>1. ASSUME NEW m \in Manifest(Files), Becomes(m) PROVE AdmissionTypeOK'
    BY <1>1, AdmissionAssumption DEF AdmissionTypeOK, Becomes
  <1>2. head \in Manifest(Files) /\ DOMAIN head.file = Files /\ NewService \in Service
        /\ Removal \subseteq RemovalEntry /\ Profile \subseteq ProfileEntry /\ Files \subseteq STRING
    BY ShapeAssumption DEF AdmissionTypeOK, Manifest
  <1>3. PICK f \in Files :
            \/ \E document \in head.file[f] :
                \/ Becomes([head EXCEPT !.file[f] = {}])
                \/ \E records \in {<<>>} \union {<<r>> : r \in {r \in Removal : r.id = f}} :
                    \E i \in {i \in DOMAIN head.include : head.include[i] = f} :
                        Becomes([head EXCEPT !.file[f] = {}, !.include = RemoveAt(@, i), !.removed = @ \o records])
                \/ \E p \in Profile : Becomes([head EXCEPT !.file[f] = {[document EXCEPT !.profile = Append(@, p)]}])
                \/ \E list \in Rewritten(document.service, {[NewService EXCEPT !.id = f]}) :
                    Becomes([head EXCEPT !.file[f] = {[document EXCEPT !.service = list]}])
            \/ /\ head.file[f] = {}
               /\ LET document == [service |-> <<[NewService EXCEPT !.id = f]>>, profile |-> <<>>]
                  IN  \/ Becomes([head EXCEPT !.file[f] = {document}])
                      \/ Becomes([head EXCEPT !.file[f] = {document}, !.include = Append(@, f)])
    BY <1>2 DEF EditFile
  <1> DEFINE new == [NewService EXCEPT !.id = f]
             first == [service |-> <<new>>, profile |-> <<>>]
  <1>4. new \in Service
    <2>1. f \in STRING
      BY <1>2
    <2>2. QED
      BY <1>2, <2>1, ZenonT(60) DEF Service
  <1>5. \A held \in AtMostOne(Document) : [head EXCEPT !.file[f] = held] \in Manifest(Files)
    BY <1>2, ManifestWritten
  <1>6. \A held \in AtMostOne(Document) : \A list \in Seq(Files \union {"elsewhere"}) :
            [head EXCEPT !.file[f] = held, !.include = list] \in Manifest(Files)
    <2>1. \A m \in Manifest(Files) : \A list \in Seq(Files \union {"elsewhere"}) : [m EXCEPT !.include = list] \in Manifest(Files)
      BY ManifestWritten
    <2>2. QED
      BY <1>5, <2>1
  <1>7. \A held \in AtMostOne(Document) : \A list \in Seq(Files \union {"elsewhere"}), removed \in Seq(RemovalEntry) :
            [head EXCEPT !.file[f] = held, !.include = list, !.removed = removed] \in Manifest(Files)
    <2>1. \A m \in Manifest(Files) : \A removed \in Seq(RemovalEntry) : [m EXCEPT !.removed = removed] \in Manifest(Files)
      BY ManifestWritten
    <2>2. QED
      BY <1>6, <2>1
  <1>8. head.include \in Seq(Files \union {"elsewhere"}) /\ head.removed \in Seq(RemovalEntry)
    BY <1>2 DEF Manifest
  <1>9. {} \in AtMostOne(Document) /\ \A document \in Document : {document} \in AtMostOne(Document)
    BY <1>2, DocumentsWritten
  <1>10. ASSUME NEW document \in head.file[f], Becomes([head EXCEPT !.file[f] = {}]) PROVE AdmissionTypeOK'
    BY <1>1, <1>5, <1>9, <1>10
  <1>11. ASSUME NEW records \in {<<>>} \union {<<r>> : r \in {r \in Removal : r.id = f}},
                NEW i \in {i \in DOMAIN head.include : head.include[i] = f},
                Becomes([head EXCEPT !.file[f] = {}, !.include = RemoveAt(@, i), !.removed = @ \o records])
         PROVE  AdmissionTypeOK'
    <2>1. RemoveAt(head.include, i) \in Seq(Files \union {"elsewhere"})
      BY <1>8, <1>11, RemovedIsAList
    <2>2. records \in Seq(RemovalEntry)
      <3>1. \A r \in Removal : <<r>> \in Seq(RemovalEntry)
        BY <1>2, OneListed
      <3>2. QED
        BY <1>11, <3>1, EmptySeq
    <2>3. head.removed \o records \in Seq(RemovalEntry)
      BY <1>8, <2>2, ConcatProperties
    <2>4. [head EXCEPT !.file[f] = {}, !.include = RemoveAt(@, i), !.removed = @ \o records] \in Manifest(Files)
      BY <1>7, <1>9, <2>1, <2>3
    <2>5. QED
      BY <1>1, <1>11, <2>4
  <1>12. ASSUME NEW document \in head.file[f], NEW p \in Profile,
                Becomes([head EXCEPT !.file[f] = {[document EXCEPT !.profile = Append(@, p)]}])
         PROVE  AdmissionTypeOK'
    <2>1. {[document EXCEPT !.profile = Append(@, p)]} \in AtMostOne(Document)
      BY <1>2, <1>12, DocumentsWritten
    <2>2. QED
      BY <1>1, <1>5, <1>12, <2>1
  <1>13. ASSUME NEW document \in head.file[f], NEW list \in Rewritten(document.service, {new}),
                Becomes([head EXCEPT !.file[f] = {[document EXCEPT !.service = list]}])
         PROVE  AdmissionTypeOK'
    <2>1. document \in Document
      BY <1>2, <1>13, DocumentsWritten
    <2>2. document.service \in Seq(Service)
      BY <2>1 DEF Document
    <2>3. list \in Seq(Service)
      <3> HIDE DEF new
      <3>1. QED
        BY <1>4, <1>13, <2>2, RewrittenIsAList
    <2>4. {[document EXCEPT !.service = list]} \in AtMostOne(Document)
      BY <1>2, <1>13, <2>3, DocumentsWritten
    <2>5. QED
      BY <1>1, <1>5, <1>13, <2>4
  <1>14. {first} \in AtMostOne(Document) /\ Append(head.include, f) \in Seq(Files \union {"elsewhere"})
    <2>1. first \in Document
      BY <1>4 DEF Document
    <2>2. QED
      BY <1>8, <1>9, <2>1, AppendProperties
  <1>15. ASSUME Becomes([head EXCEPT !.file[f] = {first}]) PROVE AdmissionTypeOK'
    BY <1>1, <1>5, <1>14, <1>15
  <1>16. ASSUME Becomes([head EXCEPT !.file[f] = {first}, !.include = Append(@, f)]) PROVE AdmissionTypeOK'
    BY <1>1, <1>6, <1>14, <1>16
  <1>17. QED
    BY <1>3, <1>10, <1>11, <1>12, <1>13, <1>15, <1>16, Zenon

\* The edit of one of the root's own tables.
LEMMA EditRootTyping ==
    ASSUME AdmissionTypeOK, EditRoot
    PROVE  AdmissionTypeOK'
  <1>1. ASSUME NEW m \in Manifest(Files), Becomes(m) PROVE AdmissionTypeOK'
    BY <1>1, AdmissionAssumption DEF AdmissionTypeOK, Becomes
  <1>2. head \in Manifest(Files) /\ DOMAIN head.file = Files /\ {NewService} \in SUBSET Service
        /\ Profile \in SUBSET ProfileEntry /\ Form \in SUBSET FormEntry
        /\ Wiring \in SUBSET WiringEntry /\ Removal \in SUBSET RemovalEntry
        /\ Files \union {"elsewhere"} \in SUBSET (Files \union {"elsewhere"})
    BY ShapeAssumption DEF AdmissionTypeOK, Manifest
  <1>3. /\ head.service \in Seq(Service) /\ head.include \in Seq(Files \union {"elsewhere"})
        /\ head.profile \in Seq(ProfileEntry) /\ head.form \in Seq(FormEntry)
        /\ head.wiring \in Seq(WiringEntry) /\ head.removed \in Seq(RemovalEntry)
    BY <1>2 DEF Manifest
  <1>4. CASE Becomes([head EXCEPT !.versions = ~@])
    BY <1>1, <1>2, <1>4, ManifestWritten
  <1>5. CASE \E list \in Rewritten(head.service, {NewService}) : Becomes([head EXCEPT !.service = list])
    <2>1. \A list \in Rewritten(head.service, {NewService}) : list \in Seq(Service)
      BY <1>2, <1>3, RewrittenIsAList
    <2>2. QED
      BY <1>1, <1>2, <1>5, <2>1, ManifestWritten
  <1>6. CASE \E list \in Rewritten(head.include, DOMAIN head.file \union {"elsewhere"}) : Becomes([head EXCEPT !.include = list])
    <2>1. \A list \in Rewritten(head.include, Files \union {"elsewhere"}) : list \in Seq(Files \union {"elsewhere"})
      BY <1>2, <1>3, RewrittenIsAList
    <2>2. QED
      BY <1>1, <1>2, <1>6, <2>1, ManifestWritten
  <1>7. CASE \E list \in Rewritten(head.profile, Profile) : Becomes([head EXCEPT !.profile = list])
    <2>1. \A list \in Rewritten(head.profile, Profile) : list \in Seq(ProfileEntry)
      BY <1>2, <1>3, RewrittenIsAList
    <2>2. QED
      BY <1>1, <1>2, <1>7, <2>1, ManifestWritten
  <1>8. CASE \E list \in Rewritten(head.form, Form) : Becomes([head EXCEPT !.form = list])
    <2>1. \A list \in Rewritten(head.form, Form) : list \in Seq(FormEntry)
      BY <1>2, <1>3, RewrittenIsAList
    <2>2. QED
      BY <1>1, <1>2, <1>8, <2>1, ManifestWritten
  <1>9. CASE \E list \in Rewritten(head.wiring, Wiring) : Becomes([head EXCEPT !.wiring = list])
    <2>1. \A list \in Rewritten(head.wiring, Wiring) : list \in Seq(WiringEntry)
      BY <1>2, <1>3, RewrittenIsAList
    <2>2. QED
      BY <1>1, <1>2, <1>9, <2>1, ManifestWritten
  <1>10. CASE \E list \in Rewritten(head.removed, Removal) : Becomes([head EXCEPT !.removed = list])
    <2>1. \A list \in Rewritten(head.removed, Removal) : list \in Seq(RemovalEntry)
      BY <1>2, <1>3, RewrittenIsAList
    <2>2. QED
      BY <1>1, <1>2, <1>10, <2>1, ManifestWritten
  <1>11. QED
    BY <1>4, <1>5, <1>6, <1>7, <1>8, <1>9, <1>10 DEF EditRoot

\* What is on main and what is proposed to it is at every moment a manifest of
\* the shape the rules read it in, and no more edits were made than there may be.
THEOREM ManifestsAreRead == AdmissionSpec => []AdmissionTypeOK
  <1>1. AdmissionInit => AdmissionTypeOK
    BY AdmissionAssumption, ShapeAssumption DEF AdmissionInit, AdmissionTypeOK
  <1>2. AdmissionTypeOK /\ [AdmissionNext]_admissionVars => AdmissionTypeOK'
    <2> SUFFICES ASSUME AdmissionTypeOK, [AdmissionNext]_admissionVars PROVE AdmissionTypeOK'
      OBVIOUS
    <2>1. CASE EditService
      BY <2>1, EditServiceTyping
    <2>2. CASE EditFile
      BY <2>2, EditFileTyping
    <2>3. CASE EditRoot
      BY <2>3, EditRootTyping
    <2>4. CASE Land
      BY <2>4 DEF Land, AdmissionTypeOK
    <2>5. CASE UNCHANGED admissionVars
      BY <2>5 DEF admissionVars, AdmissionTypeOK
    <2>6. QED
      BY <2>1, <2>2, <2>3, <2>4, <2>5 DEF AdmissionNext
  <1>3. QED
    BY <1>1, <1>2, PTL DEF AdmissionSpec

\* Whatever is edited, and in whatever order, the manifest that is proposed is
\* refused just where it does not hold together: each rule, with what it keeps
\* while it reads and where it stops reading, finds a fault exactly where what
\* it stands for does not hold.
THEOREM RefusesJustTheUnsound == AdmissionSpec => []AcceptsWhatHolds
  <1>1. AdmissionTypeOK => AcceptsWhatHolds
    BY RulesAreSound DEF AdmissionTypeOK, AcceptsWhatHolds
  <1>2. QED
    BY <1>1, ManifestsAreRead, PTL
=============================================================================
