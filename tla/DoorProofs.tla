----------------------------- MODULE DoorProofs -----------------------------
(***************************************************************************)
(* What the door serves and what it refuses, for any items, any requests   *)
(* and whatever Jellyfin answers from one moment to the next; and what a   *)
(* script's run leaves behind it, wherever it failed.                      *)
(***************************************************************************)
EXTENDS DoorCheck, WellFoundedInduction, TLAPS

\* A set of naturals has its least member, so the first handle that matches is there.
LEMMA MinIsReached ==
    ASSUME NEW S \in SUBSET Nat, S # {}
    PROVE  Min(S) \in S /\ \A i \in S : Min(S) <= i
  <1>1. PICK i \in S : \A j \in S : <<j, i>> \notin OpToRel(<, Nat)
    <2>1. \E i \in S : \A j \in S : <<j, i>> \notin OpToRel(<, Nat)
      BY NatLessThanWellFounded, WFMin, Zenon
    <2>2. QED
      BY <2>1, Zenon
  <1>2. \A j \in S : ~(j < i)
    BY <1>1 DEF OpToRel
  <1>3. \A j \in S : i <= j
    BY <1>2
  <1>4. QED
    BY <1>3 DEF Min

\* A door never lacks its last handle, which takes what is left: so a request
\* meets the first handle the door has that matches it.
LEMMA MeetsFirst ==
    ASSUME NEW d \in DoorSpace, NEW q
    PROVE  \E i \in 1..15 :
              /\ Handle(d, q) = Handles[i] /\ Handles[i] \notin d.off /\ Matches(d, Handles[i], q)
              /\ \A j \in 1..15 : j < i => Handles[j] \in d.off \/ ~Matches(d, Handles[j], q)
  <1> DEFINE tried == {i \in DOMAIN Handles : Handles[i] \notin d.off /\ Matches(d, Handles[i], q)}
  <1>1. DOMAIN Handles = 1..15 /\ Handles[15] = "rest" /\ "rest" \notin d.off
    BY DEF Handles, DoorSpace
  <1>2. Matches(d, "rest", q)
    BY DEF Matches
  <1>3. tried \in SUBSET Nat /\ tried # {}
    <2>1. 15 \in tried
      BY <1>1, <1>2
    <2>2. tried \subseteq 1..15
      BY <1>1
    <2> HIDE DEF tried
    <2>3. QED
      BY <2>1, <2>2
  <1>4. Min(tried) \in tried /\ \A i \in tried : Min(tried) <= i
    <2> HIDE DEF tried
    <2> QED
      BY <1>3, MinIsReached
  <1>5. Handle(d, q) = Handles[Min(tried)]
    BY DEF Handle
  <1> DEFINE first == Min(tried)
  <1>6. first \in 1..15 /\ Handles[first] \notin d.off /\ Matches(d, Handles[first], q)
    BY <1>1, <1>4
  <1>7. ASSUME NEW j \in 1..15, j < first PROVE Handles[j] \in d.off \/ ~Matches(d, Handles[j], q)
    <2>1. j \notin tried
      <3> HIDE DEF tried
      <3> QED
        BY <1>4, <1>6, <1>7
    <2>2. QED
      BY <1>1, <2>1
  <1> HIDE DEF tried
  <1>8. QED
    BY <1>5, <1>6, <1>7

\* The shipped door has every handle.
LEMMA FirstMatches ==
    ASSUME NEW q
    PROVE  \E i \in DOMAIN Handles :
              /\ Handle(Shipped, q) = Handles[i] /\ Matches(Shipped, Handles[i], q)
              /\ \A j \in DOMAIN Handles : j < i => ~Matches(Shipped, Handles[j], q)
  <1>1. DOMAIN Handles = 1..15 /\ Shipped.off = {} /\ Shipped \in DoorSpace
    BY DEF Handles, Shipped, DoorSpace
  <1>2. QED
    BY <1>1, MeetsFirst

\* What each handle of the shipped door takes, on the forms a path may have.
LEMMA MatchesOf ==
    ASSUME NEW q \in Requests
    PROVE  /\ Matches(Shipped, "abnormal", q) <=> q.form \in {"climbing", "backslash"}
           /\ Matches(Shipped, "encoded_unreserved", q) <=> q.form = "hidden"
           /\ Matches(Shipped, "token_query", q) <=> q.as = "spelled"
           /\ Matches(Shipped, "encoded_on_bytes", q) <=> q.form \in {"encoded", "dressed"} /\ q.route \in Bytes
           /\ Matches(Shipped, "nonpchar_path", q) <=> q.form = "foreign"
           /\ Matches(Shipped, "live_stream_on_bytes", q) <=> q.via = "live" /\ q.form # "hidden" /\ q.route \in Bytes
           /\ Matches(Shipped, "item_in_query", q) <=> q.via = "item" /\ q.form # "hidden" /\ q.route \in Bytes
           /\ Matches(Shipped, "by_name_image", q) <=> q.form # "hidden" /\ q.route = "named"
           /\ Matches(Shipped, "splashscreen", q) <=> q.form # "hidden" /\ q.route = "splash"
           /\ Matches(Shipped, "trickplay_source_unaskable", q) <=>
                  q.via = "media" /\ ~q.plain /\ q.form \in {"normal", "dressed"} /\ q.route = "trickplay"
           /\ Matches(Shipped, "trickplay_source", q) <=>
                  q.via = "media" /\ q.form \in {"normal", "dressed"} /\ q.route = "trickplay"
           /\ Matches(Shipped, "keyed", q) <=> q.form \in {"normal", "dressed"} /\ q.route \in {"videos", "trickplay"}
           /\ Matches(Shipped, "owned", q) <=> q.form \in {"normal", "dressed"} /\ q.route = "items"
           /\ Matches(Shipped, "unkeyed", q) <=> q.form \in {"normal", "dressed"} /\ q.route \in Bytes
  <1>1. Shipped.guards /\ Shipped.names /\ Shipped.abnormal = {"climbing", "backslash"}
    BY DEF Shipped
  <1> HIDE DEF Shipped
  <1>2. QED
    BY <1>1 DEF Matches, On, RawOn

\* A request that goes on has met a handle that asks or the last one, and none of
\* those before it.
LEMMA GoesOnAt ==
    ASSUME NEW q \in Requests
    PROVE  LET Asked(h, earlier) == /\ Handle(Shipped, q) = h /\ Matches(Shipped, h, q)
                                    /\ \A g \in earlier : ~Matches(Shipped, g, q)
               refusals == {"abnormal", "encoded_unreserved", "token_query", "encoded_on_bytes", "nonpchar_path",
                            "live_stream_on_bytes", "item_in_query", "by_name_image", "splashscreen",
                            "trickplay_source_unaskable"}
           IN  \/ \E h \in refusals : Handle(Shipped, q) = h /\ Matches(Shipped, h, q)
               \/ Asked("unkeyed", refusals \union {"keyed", "owned"})
               \/ Asked("trickplay_source", refusals)
               \/ Asked("keyed", refusals \union {"trickplay_source"})
               \/ Asked("owned", refusals)
               \/ Asked("rest", refusals \union {"keyed", "owned", "unkeyed"})
  <1>1. PICK i \in DOMAIN Handles :
              /\ Handle(Shipped, q) = Handles[i] /\ Matches(Shipped, Handles[i], q)
              /\ \A j \in DOMAIN Handles : j < i => ~Matches(Shipped, Handles[j], q)
    BY FirstMatches
  <1>2. DOMAIN Handles = 1..15
    BY DEF Handles
  <1>3. /\ Handles[1] = "abnormal" /\ Handles[2] = "encoded_unreserved" /\ Handles[3] = "token_query"
        /\ Handles[4] = "encoded_on_bytes" /\ Handles[5] = "nonpchar_path" /\ Handles[6] = "live_stream_on_bytes"
        /\ Handles[7] = "item_in_query" /\ Handles[8] = "by_name_image" /\ Handles[9] = "splashscreen"
        /\ Handles[10] = "trickplay_source_unaskable" /\ Handles[11] = "trickplay_source" /\ Handles[12] = "keyed"
        /\ Handles[13] = "owned" /\ Handles[14] = "unkeyed" /\ Handles[15] = "rest"
    BY DEF Handles
  <1>4. \A j \in 1..15 : j < i => ~Matches(Shipped, Handles[j], q)
    BY <1>1, <1>2
  <1>5. i \in 1..10 \/ i = 11 \/ i = 12 \/ i = 13 \/ i = 14 \/ i = 15
    BY <1>1, <1>2
  <1>6. QED
    BY <1>1, <1>3, <1>4, <1>5

\* The door refuses, whatever Jellyfin says, just what it cannot ask about.
LEMMA RefusesTheUnaskable ==
    ASSUME NEW q \in Requests
    PROVE  Refuses(Shipped, q) <=> Unaskable(q)
  <1>1. q \in Request
    BY DoorAssumption
  <1>2. Refuses(Shipped, q) <=> Handle(Shipped, q) \notin {"trickplay_source", "keyed", "owned", "rest"}
    BY DEF Refuses, Shipped
  <1>3. /\ q.route \in Bytes \union {"named", "splash", "open"} /\ q.plain \in BOOLEAN
        /\ q.form \in {"normal", "climbing", "backslash", "hidden", "encoded", "dressed", "foreign"}
    BY <1>1 DEF Request
  <1>4. CASE Refuses(Shipped, q)
    <2>1. \/ \E h \in {"abnormal", "encoded_unreserved", "token_query", "encoded_on_bytes", "nonpchar_path",
                       "live_stream_on_bytes", "item_in_query", "by_name_image", "splashscreen",
                       "trickplay_source_unaskable"} : Matches(Shipped, h, q)
          \/ Matches(Shipped, "unkeyed", q) /\ ~Matches(Shipped, "keyed", q) /\ ~Matches(Shipped, "owned", q)
      BY <1>2, <1>4, GoesOnAt
    <2>2. QED
      BY <1>3, <1>4, <2>1, MatchesOf DEF Unaskable, Bytes
  <1>5. CASE ~Refuses(Shipped, q)
    <2>1. \A h \in {"abnormal", "encoded_unreserved", "token_query", "encoded_on_bytes", "nonpchar_path",
                    "live_stream_on_bytes", "item_in_query", "by_name_image", "splashscreen",
                    "trickplay_source_unaskable"} : ~Matches(Shipped, h, q)
      BY <1>2, <1>5, GoesOnAt
    <2>2. Matches(Shipped, "unkeyed", q) => q.route \in {"trickplay", "videos", "items"}
      <3>1. CASE Handle(Shipped, q) = "rest"
        BY <1>2, <1>5, <3>1, GoesOnAt
      <3>2. CASE Handle(Shipped, q) \in {"trickplay_source", "keyed", "owned"}
        BY <3>2, GoesOnAt, MatchesOf
      <3>3. QED
        BY <1>2, <1>5, <3>1, <3>2
    <2>3. q.form # "climbing" /\ q.form # "backslash" /\ q.form # "hidden" /\ q.form # "foreign" /\ q.as # "spelled"
      BY <2>1, MatchesOf
    <2>4. q.form \in {"encoded", "dressed"} => q.route \notin Bytes
      BY <1>3, <2>1, MatchesOf
    <2>5. q.form \in {"normal", "encoded", "dressed"} /\ q.route \notin {"named", "splash"} /\ (q.route \in Bytes => q.via \notin {"live", "item"})
      BY <1>3, <2>1, <2>3, MatchesOf
    <2>6. q.route # "odd" /\ ~(q.route = "trickplay" /\ q.via = "media" /\ ~q.plain)
      BY <2>1, <2>2, <2>4, <2>5, MatchesOf DEF Bytes
    <2>7. QED
      BY <1>3, <1>5, <2>3, <2>4, <2>5, <2>6 DEF Unaskable
  <1>6. QED
    BY <1>4, <1>5

\* A request that goes on carries into the question the session Jellyfin will
\* read and the client it is for; and where bytes are served, it is asked about
\* the item of its path and about the one whose bytes they are.
LEMMA AsksWhatIsServed ==
    ASSUME NEW q \in Requests, ~Refuses(Shipped, q)
    PROVE  /\ Carried(Shipped, q) = Presented(Shipped, q)
           /\ Told(Shipped, q) = For(q)
           /\ \/ q.route = "open" /\ Asks(Shipped, q) = <<>>
              \/ /\ q.route \in {"videos", "trickplay", "items"}
                 /\ \/ Asks(Shipped, q) = <<q.item>> /\ Serves(q) = q.item
                    \/ Asks(Shipped, q) = <<q.item, q.source>> /\ Serves(q) = q.source /\ q.source \in Item
  <1>1. q \in Request /\ ~Unaskable(q) /\ (q.via # "none" => q.source \in Item)
    BY DoorAssumption, RefusesTheUnaskable
  <1>2. /\ q.route \in Bytes \union {"named", "splash", "open"} /\ q.plain \in BOOLEAN
        /\ q.form \in {"normal", "climbing", "backslash", "hidden", "encoded", "dressed", "foreign"}
        /\ q.via \in {"none", "item", "live", "media"}
    BY <1>1 DEF Request
  <1>3. /\ q.as # "spelled" /\ q.route \notin {"odd", "named", "splash"} /\ (q.form # "normal" => q.route = "open")
        /\ q.route \in Bytes => q.via \in {"none", "media"}
        /\ q.route = "trickplay" /\ q.via = "media" => q.plain
    BY <1>1, <1>2 DEF Unaskable, Bytes
  <1>4. Carried(Shipped, q) = Presented(Shipped, q)
    BY <1>3 DEF Carried
  <1>5. Told(Shipped, q) = For(q)
    BY DEF Told, For, Shipped
  <1>6. Handle(Shipped, q) \in {"trickplay_source", "keyed", "owned", "rest"}
    BY DEF Refuses
  <1>7. CASE q.route = "open"
    <2>1. Handle(Shipped, q) = "rest"
      BY <1>6, <1>7, GoesOnAt, MatchesOf
    <2>2. QED
      BY <1>4, <1>5, <1>7, <2>1 DEF Asks
  <1>8. CASE q.route \in {"videos", "trickplay", "items"}
    <2>1. q.form = "normal"
      BY <1>3, <1>8
    <2>2. CASE q.route = "trickplay" /\ q.via = "media"
      <3>1. Handle(Shipped, q) = "trickplay_source"
        BY <1>6, <2>1, <2>2, GoesOnAt, MatchesOf
      <3>2. Asks(Shipped, q) = <<q.item, q.source>>
        BY <1>3, <2>2, <3>1 DEF Asks, Shipped
      <3>3. QED
        BY <1>1, <1>4, <1>5, <1>8, <2>2, <3>2 DEF Serves
    <2>3. CASE ~(q.route = "trickplay" /\ q.via = "media")
      <3>1. Handle(Shipped, q) \in {"keyed", "owned"}
        BY <1>6, <1>8, <2>1, <2>3, GoesOnAt, MatchesOf
      <3>2. Asks(Shipped, q) = <<q.item>>
        BY <3>1 DEF Asks
      <3>3. Serves(q) = q.item
        BY <1>3, <1>8, <2>3 DEF Serves, Bytes
      <3>4. QED
        BY <1>4, <1>5, <1>8, <3>2, <3>3
    <2>4. QED
      BY <2>2, <2>3
  <1>9. QED
    BY <1>2, <1>3, <1>7, <1>8 DEF Bytes
-----------------------------------------------------------------------------
\* The type of the state, with a request of its shape.
Lefts == {<<>>} \union {<<i>> : i \in Item} \union {<<i, j>> : i, j \in Item}
InFlight == [pc: {"asking", "served", "refused"}, left: Lefts, q: Requests]
DoorTyped == jellyfin \in Moods /\ req \in {NoRequest} \union InFlight /\ moments \subseteq Moods

\* Jellyfin as it is now is among what it was since the request came.
NowIsAMoment == ~In("idle") => jellyfin \in moments

\* Of what the door asks about, nothing but what is left was not granted yet.
Of(list) == {list[i] : i \in DOMAIN list}
GrantedSoFar ==
    req.pc \in {"asking", "served"} =>
        /\ ~Refuses(Shipped, req.q)
        /\ Of(req.left) \subseteq Of(Asks(Shipped, req.q))
        /\ \A item \in Of(Asks(Shipped, req.q)) \ Of(req.left) :
              \E j \in moments : Grants(j, Carried(Shipped, req.q), item, Told(Shipped, req.q))
        /\ In("served") => req.left = <<>>

DoorInv == DoorTyped /\ NowIsAMoment /\ GrantedSoFar /\ RefusedForAReason

\* A request in flight, taken apart, and with its state changed.
LEMMA InFlightParts ==
    ASSUME DoorTyped, ~In("idle")
    PROVE  /\ req \in InFlight /\ req.q \in Requests /\ req.left \in Lefts
           /\ req.pc \in {"asking", "served", "refused"}
           /\ \A pc \in {"asking", "served", "refused"} :
                 /\ [req EXCEPT !.pc = pc] \in InFlight
                 /\ [req EXCEPT !.pc = pc].pc = pc
                 /\ [req EXCEPT !.pc = pc].q = req.q
                 /\ [req EXCEPT !.pc = pc].left = req.left
  <1>1. req \in InFlight
    BY DEF DoorTyped, NoRequest, In
  <1>2. QED
    BY <1>1 DEF InFlight

LEMMA DoorStarts == Init => DoorInv
  <1> SUFFICES ASSUME Init PROVE DoorInv
    OBVIOUS
  <1>1. req.pc = "idle"
    BY DEF Init, NoRequest
  <1>2. DoorTyped
    BY DEF Init, DoorTyped
  <1>3. QED
    BY <1>1, <1>2 DEF DoorInv, NowIsAMoment, GrantedSoFar, RefusedForAReason, In

\* A request that comes has nothing granted, or is one the door cannot ask about.
LEMMA ArriveKeeps ==
    ASSUME DoorInv, NEW q \in Requests, Arrive(q)
    PROVE  DoorInv'
  <1> DEFINE asks == Asks(Shipped, q)
             pc == IF Refuses(Shipped, q) THEN "refused" ELSE "asking"
  <1>1. /\ req' = [pc |-> pc, left |-> asks, q |-> q]
        /\ moments' = {jellyfin} /\ jellyfin' = jellyfin /\ jellyfin \in Moods
    BY DEF Arrive, DoorInv, DoorTyped
  <1>2. asks \in Lefts
    <2>1. CASE Refuses(Shipped, q)
      <3>1. Handle(Shipped, q) \notin {"trickplay_source", "keyed", "owned"}
        BY <2>1 DEF Refuses, Shipped
      <3>2. QED
        BY <3>1 DEF Asks, Lefts
    <2>2. CASE ~Refuses(Shipped, q)
      <3>1. q.item \in Item
        BY DoorAssumption DEF Request
      <3>2. QED
        BY <2>2, <3>1, AsksWhatIsServed DEF Lefts
    <2>3. QED
      BY <2>1, <2>2
  <1> HIDE DEF asks
  <1>3. req'.pc = pc /\ req'.q = q /\ req'.left = asks /\ pc \in {"refused", "asking"}
    BY <1>1
  <1>4. DoorTyped'
    BY <1>1, <1>2, <1>3 DEF DoorTyped, InFlight
  <1>5. NowIsAMoment'
    BY <1>1 DEF NowIsAMoment
  <1>6. GrantedSoFar'
    BY <1>3 DEF GrantedSoFar, asks, In
  <1>7. RefusedForAReason'
    BY <1>3, RefusesTheUnaskable DEF RefusedForAReason, In
  <1>8. QED
    BY <1>4, <1>5, <1>6, <1>7 DEF DoorInv

\* What a list of at most two says.
LEMMA OfShort ==
    /\ Of(<<>>) = {}
    /\ \A i : Of(<<i>>) = {i}
    /\ \A i, j : Of(<<i, j>>) = {i, j}
  <1>1. Of(<<>>) = {}
    BY DEF Of
  <1>2. ASSUME NEW i PROVE Of(<<i>>) = {i}
    <2>1. DOMAIN <<i>> = {1} /\ <<i>>[1] = i
      OBVIOUS
    <2>2. QED
      BY <2>1 DEF Of
  <1>3. ASSUME NEW i, NEW j PROVE Of(<<i, j>>) = {i, j}
    <2>1. DOMAIN <<i, j>> = {1, 2} /\ <<i, j>>[1] = i /\ <<i, j>>[2] = j
      OBVIOUS
    <2>2. QED
      BY <2>1 DEF Of
  <1>4. QED
    BY <1>1, <1>2, <1>3

\* What is left, but for the one asked now, is the rest.
LEMMA LeftParts ==
    ASSUME NEW left \in Lefts, left # <<>>
    PROVE  /\ Tail(left) \in Lefts
           /\ Head(left) \in Of(left)
           /\ Of(left) = {Head(left)} \union Of(Tail(left))
  <1>1. CASE \E i \in Item : left = <<i>>
    <2>1. PICK i \in Item : left = <<i>>
      BY <1>1
    <2>2. Tail(left) = <<>> /\ Head(left) = i
      BY <2>1
    <2>3. Of(left) = {i} /\ Of(Tail(left)) = {}
      BY <2>1, <2>2, OfShort
    <2>4. QED
      BY <2>2, <2>3 DEF Lefts
  <1>2. CASE \E i, j \in Item : left = <<i, j>>
    <2>1. PICK i, j \in Item : left = <<i, j>>
      BY <1>2
    <2>2. Tail(left) = <<j>> /\ Head(left) = i
      BY <2>1
    <2>3. Of(left) = {i, j} /\ Of(Tail(left)) = {j}
      BY <2>1, <2>2, OfShort
    <2>4. QED
      BY <2>2, <2>3 DEF Lefts
  <1>3. QED
    BY <1>1, <1>2 DEF Lefts

\* What is asked about is the item of the path or the one that is served.
LEMMA AskedOf ==
    ASSUME NEW q \in Requests, ~Refuses(Shipped, q)
    PROVE  /\ Of(Asks(Shipped, q)) \subseteq {q.item, Serves(q)}
           /\ q.route # "open" => Serves(q) \in Of(Asks(Shipped, q))
           /\ Of(Asks(Shipped, q)) # {} => q.route # "open"
  BY AsksWhatIsServed, OfShort

\* A question granted takes one off what is left; one refused is a reason.
LEMMA AskKeeps ==
    ASSUME DoorInv, Ask
    PROVE  DoorInv'
  <1> DEFINE q == req.q
             now == Head(req.left)
             granted == Grants(jellyfin, Carried(Shipped, q), now, Told(Shipped, q))
  <1>1. /\ req.pc = "asking" /\ req.left # <<>> /\ UNCHANGED <<jellyfin, moments>>
        /\ req' = IF granted THEN [req EXCEPT !.left = Tail(@)] ELSE [req EXCEPT !.pc = "refused"]
    BY DEF Ask, In
  <1>2. /\ req \in InFlight /\ q \in Requests /\ req.left \in Lefts
    BY <1>1, InFlightParts DEF DoorInv, In
  <1>3. jellyfin \in moments /\ jellyfin \in Moods /\ moments \subseteq Moods
    BY <1>1 DEF DoorInv, DoorTyped, NowIsAMoment, In
  <1>4. /\ ~Refuses(Shipped, q)
        /\ Of(req.left) \subseteq Of(Asks(Shipped, q))
        /\ \A item \in Of(Asks(Shipped, q)) \ Of(req.left) :
              \E j \in moments : Grants(j, Carried(Shipped, q), item, Told(Shipped, q))
    BY <1>1 DEF DoorInv, GrantedSoFar
  <1>5. /\ Tail(req.left) \in Lefts /\ now \in Of(req.left)
        /\ Of(req.left) = {now} \union Of(Tail(req.left))
    BY <1>1, <1>2, LeftParts
  <1>6. NowIsAMoment'
    BY <1>1, <1>3 DEF NowIsAMoment
  <1>7. CASE granted
    <2>1. req' \in InFlight /\ req'.pc = "asking" /\ req'.q = q /\ req'.left = Tail(req.left)
      <3> HIDE DEF granted
      <3> QED
        BY <1>1, <1>2, <1>5, <1>7 DEF InFlight
    <2>2. DoorTyped'
      BY <1>1, <1>3, <2>1 DEF DoorTyped
    <2>3. \A item \in Of(Asks(Shipped, q)) \ Of(Tail(req.left)) :
              \E j \in moments : Grants(j, Carried(Shipped, q), item, Told(Shipped, q))
      BY <1>3, <1>4, <1>5, <1>7
    <2>4. GrantedSoFar'
      BY <1>1, <1>4, <1>5, <2>1, <2>3 DEF GrantedSoFar, In
    <2>5. RefusedForAReason'
      BY <2>1 DEF RefusedForAReason, In
    <2>6. QED
      BY <1>6, <2>2, <2>4, <2>5 DEF DoorInv
  <1>8. CASE ~granted
    <2>1. req' \in InFlight /\ req'.pc = "refused" /\ req'.q = q
      <3>1. req' = [req EXCEPT !.pc = "refused"]
        <4> HIDE DEF granted
        <4> QED
          BY <1>1, <1>8
      <3>2. QED
        BY <1>2, <3>1 DEF InFlight
    <2>2. DoorTyped'
      BY <1>1, <1>3, <2>1 DEF DoorTyped
    <2>3. GrantedSoFar'
      BY <2>1 DEF GrantedSoFar
    <2>4. now \in {q.item, Serves(q)} /\ q.route # "open"
      BY <1>2, <1>4, <1>5, AskedOf
    <2>5. ~Grants(jellyfin, Presented(Shipped, q), now, For(q))
      BY <1>2, <1>4, <1>8, AsksWhatIsServed
    <2>6. RefusedForAReason'
      <3> HIDE DEF q, now, granted
      <3>1. q = req'.q
        BY <2>1
      <3>2. QED
        BY <1>1, <1>3, <2>4, <2>5, <3>1 DEF RefusedForAReason
    <2>7. QED
      BY <1>6, <2>2, <2>3, <2>6 DEF DoorInv
  <1>9. QED
    BY <1>7, <1>8

\* A request is given up where Jellyfin is not up, and forwarded once there is
\* nothing left to ask.
LEMMA AnswerKeeps ==
    ASSUME DoorInv, Unanswered \/ Forward
    PROVE  DoorInv'
  <1>1. /\ req.pc = "asking" /\ UNCHANGED <<jellyfin, moments>>
        /\ \/ req' = [req EXCEPT !.pc = "served"] /\ req.left = <<>>
           \/ req' = [req EXCEPT !.pc = "refused"] /\ jellyfin.mood # "up"
    BY DEF Unanswered, Forward, In, To
  <1>2. jellyfin \in moments /\ jellyfin \in Moods /\ moments \subseteq Moods
    BY <1>1 DEF DoorInv, DoorTyped, NowIsAMoment, In
  <1>3. /\ req' \in InFlight /\ req'.q = req.q /\ req'.left = req.left
        /\ \/ req'.pc = "served" /\ req.left = <<>>
           \/ req'.pc = "refused" /\ jellyfin.mood # "up"
    BY <1>1, InFlightParts DEF DoorInv, In
  <1>4. DoorTyped'
    BY <1>1, <1>2, <1>3 DEF DoorTyped
  <1>5. NowIsAMoment'
    BY <1>1, <1>2 DEF NowIsAMoment
  <1>6. GrantedSoFar'
    BY <1>1, <1>3 DEF DoorInv, GrantedSoFar, In
  <1>7. RefusedForAReason'
    BY <1>1, <1>2, <1>3 DEF RefusedForAReason, In
  <1>8. QED
    BY <1>4, <1>5, <1>6, <1>7 DEF DoorInv

\* What a moment has been, it has been.
LEMMA ChangeKeeps ==
    ASSUME DoorInv, Change
    PROVE  DoorInv'
  <1>1. /\ jellyfin' \in Moods /\ req' = req
        /\ moments' = IF In("idle") THEN {} ELSE moments \union {jellyfin'}
    BY DEF Change
  <1>2. DoorTyped'
    BY <1>1 DEF DoorInv, DoorTyped
  <1>3. CASE In("idle")
    BY <1>1, <1>2, <1>3 DEF DoorInv, NowIsAMoment, GrantedSoFar, RefusedForAReason, In
  <1>4. CASE ~In("idle")
    <2>1. moments \subseteq moments' /\ jellyfin' \in moments'
      BY <1>1, <1>4
    <2>2. NowIsAMoment'
      BY <2>1 DEF NowIsAMoment
    <2>3. GrantedSoFar'
      BY <1>1, <2>1 DEF DoorInv, GrantedSoFar, In
    <2>4. RefusedForAReason'
      BY <1>1, <2>1 DEF DoorInv, RefusedForAReason, In
    <2>5. QED
      BY <1>2, <2>2, <2>3, <2>4 DEF DoorInv
  <1>5. QED
    BY <1>3, <1>4

LEMMA DoorSteps == DoorInv /\ [AllNext]_allVars => DoorInv'
  <1> SUFFICES ASSUME DoorInv, [AllNext]_allVars PROVE DoorInv'
    OBVIOUS
  <1>1. CASE DoorNext
    <2>1. CASE Ask
      BY <2>1, AskKeeps
    <2>2. CASE Unanswered \/ Forward
      BY <2>2, AnswerKeeps
    <2>3. CASE Leave
      <3>1. req' = NoRequest /\ moments' = {} /\ jellyfin' = jellyfin /\ req'.pc = "idle"
        BY <2>3 DEF Leave, NoRequest
      <3>2. QED
        BY <3>1 DEF DoorInv, DoorTyped, NowIsAMoment, GrantedSoFar, RefusedForAReason, In
    <2>4. CASE Change
      BY <2>4, ChangeKeeps
    <2>5. ASSUME NEW q \in Requests, Arrive(q) PROVE DoorInv'
      BY <2>5, ArriveKeeps
    <2>6. QED
      BY <1>1, <2>1, <2>2, <2>3, <2>4, <2>5 DEF DoorNext
  <1>2. CASE UNCHANGED vars
    BY <1>2 DEF vars, DoorInv, DoorTyped, NowIsAMoment, GrantedSoFar, RefusedForAReason, In
  <1>3. QED
    BY <1>1, <1>2 DEF AllNext, allVars

LEMMA DoorHolds == Spec => []DoorInv
  <1>1. AllInit => DoorInv
    BY DoorStarts DEF AllInit
  <1>2. QED
    BY <1>1, DoorSteps, PTL DEF Spec

\* The request in flight is one the household may send, and of at most two items.
THEOREM DoorTyping == Spec => []TypeOK
  <1>1. DoorInv => TypeOK
    <2> SUFFICES ASSUME DoorInv PROVE TypeOK
      OBVIOUS
    <2>1. CASE req = NoRequest
      BY <2>1 DEF TypeOK, DoorInv, DoorTyped, NoRequest, Lefts
    <2>2. CASE req \in InFlight
      BY <2>2 DEF TypeOK, DoorInv, DoorTyped, InFlight, Lefts
    <2>3. QED
      BY <2>1, <2>2 DEF DoorInv, DoorTyped
  <1>2. QED
    BY <1>1, DoorHolds, PTL

\* No byte of an item goes to a request unless, at some moment since it came,
\* the session Jellyfin reads of it might see that item from where it is: however
\* its path is spelled, whatever else its query names, and whichever of the door's
\* handles it meets.
THEOREM BytesAreOfWhatIsSeen == Spec => []ServedAsSeen
  <1>1. DoorInv => ServedAsSeen
    <2> SUFFICES ASSUME DoorInv, In("served"), req.q.route # "open"
                 PROVE  /\ req.q.route \in {"videos", "trickplay", "items"}
                        /\ \E j \in moments : Grants(j, Presented(Shipped, req.q), Serves(req.q), For(req.q))
      BY DEF ServedAsSeen
    <2> DEFINE q == req.q
    <2>1. q \in Requests /\ ~Refuses(Shipped, q) /\ req.left = <<>>
      BY InFlightParts DEF DoorInv, GrantedSoFar, In
    <2>2. Serves(q) \in Of(Asks(Shipped, q)) \ Of(req.left)
      BY <2>1, AskedOf, OfShort
    <2>3. \E j \in moments : Grants(j, Carried(Shipped, q), Serves(q), Told(Shipped, q))
      BY <2>2 DEF DoorInv, GrantedSoFar, In
    <2>4. QED
      BY <2>1, <2>3, AsksWhatIsServed
  <1>2. QED
    BY <1>1, DoorHolds, PTL

\* And none that can be asked about is turned away while Jellyfin answers and
\* would have granted it throughout.
THEOREM NoneIsRefusedForNothing == Spec => []RefusedForAReason
  <1>1. DoorInv => RefusedForAReason
    BY DEF DoorInv
  <1>2. QED
    BY <1>1, DoorHolds, PTL

\* Of any request, with the stand-in behind it, the shipped door decides rightly:
\* what check_door.py concludes of its cases, of all of them.
THEOREM TheShippedDoorIsRight == \A q \in Requests : Right(Shipped, q)
  <1> SUFFICES ASSUME NEW q \in Requests PROVE Right(Shipped, q)
    OBVIOUS
  <1>1. StandIn.mood = "up"
    BY DEF StandIn
  <1>2. CASE Refuses(Shipped, q)
    BY <1>2, RefusesTheUnaskable DEF Right, Outcome, PASS
  <1>3. CASE ~Refuses(Shipped, q)
    <2> DEFINE asks == Asks(Shipped, q)
               grants(item) == Grants(StandIn, Presented(Shipped, q), item, For(q))
    <2>1. Outcome(Shipped, q, StandIn) = PASS <=> \A item \in Of(asks) : grants(item)
      BY <1>1, <1>3, AsksWhatIsServed DEF Outcome, PASS, Of
    <2>2. ~Unaskable(q) /\ Told(Shipped, q) = For(q)
      BY <1>3, RefusesTheUnaskable, AsksWhatIsServed
    <2>3. /\ Of(asks) \subseteq {q.item, Serves(q)} /\ (Of(asks) # {} => q.route # "open")
          /\ q.route # "open" => Serves(q) \in Of(asks)
      BY <1>3, AskedOf
    <2> HIDE DEF asks
    <2>4. CASE Outcome(Shipped, q, StandIn) = PASS
      BY <2>1, <2>2, <2>3, <2>4 DEF Right
    <2>5. CASE Outcome(Shipped, q, StandIn) # PASS
      <3>1. PICK item \in Of(asks) : ~grants(item)
        BY <2>1, <2>5
      <3>2. QED
        BY <2>3, <2>5, <3>1 DEF Right
    <2>6. QED
      BY <2>4, <2>5
  <1>4. QED
    BY <1>2, <1>3
-----------------------------------------------------------------------------
\* The rig of a script: all of its fields, and of them what RigTypeOK says.
RigTyped == DOMAIN rig = DOMAIN NoRig /\ RigTypeOK

\* While a run goes on, what it made is on its list, but for what an interrupt
\* cut short; and once the teardown is done, nothing is left but that and what was
\* not removed.
MadeIsListed ==
    /\ rig.pc \in {"make", "judge", "silence"} => rig.made \subseteq rig.listed /\ rig.lost = {}
    /\ rig.pc = "teardown" => rig.made \subseteq rig.listed \union rig.lost
    /\ rig.pc = "over" => rig.made \subseteq (rig.lost \ Named(rig.mode)) \union rig.stuck
    /\ rig.pc \in {"off", "make", "judge", "silence", "teardown", "over"}

RigInv == RigTyped /\ MadeIsListed /\ RemovedAgain

\* A rig with other containers on it, and what of them is its own.
Fields == {"pc", "mode", "left", "made", "listed", "lost", "stuck", "door", "set", "broken", "problems", "raised", "exit"}

\* What a run's every step is that neither begins nor ends it: a rig at some
\* state of the run, whose list holds what it made.
Goes(r) ==
    /\ DOMAIN r = Fields
    /\ r.mode = rig.mode /\ r.exit = rig.exit
    /\ r.made \subseteq Made /\ r.listed \subseteq r.made /\ r.lost \subseteq Made /\ r.stuck \subseteq Made
    /\ r.broken \subseteq CaughtBy /\ {r.problems, r.raised, r.set} \subseteq BOOLEAN
    /\ \/ r.pc \in {"make", "judge", "silence"} /\ r.made = r.listed /\ r.lost = {}
       \/ r.pc = "teardown" /\ r.made \subseteq r.listed \union r.lost

LEMMA GoingOn ==
    ASSUME RigInv, Goes(rig'), debris' = debris, stack' \in BOOLEAN, agree' \in BOOLEAN
    PROVE  RigInv'
  <1>1. DOMAIN NoRig = Fields
    BY DEF NoRig, Fields
  <1>2. RigTypeOK'
    BY DEF RigInv, RigTyped, RigTypeOK, Goes
  <1>3. MadeIsListed'
    BY DEF Goes, MadeIsListed
  <1>4. RemovedAgain'
    BY DEF Goes, RemovedAgain, At
  <1>5. QED
    BY <1>1, <1>2, <1>3, <1>4 DEF RigInv, RigTyped, Goes

\* Where a run is on, the rig as it is.
LEMMA AsItIs ==
    ASSUME RigInv, rig.pc \in {"make", "judge", "silence"}
    PROVE  /\ DOMAIN rig = Fields
           /\ rig.mode \in {"check", "self-test", "record"}
           /\ rig.made \subseteq Made /\ rig.listed = rig.made /\ rig.lost = {}
           /\ rig.stuck \subseteq Made /\ rig.set \in BOOLEAN
           /\ rig.broken \subseteq CaughtBy /\ rig.problems \in BOOLEAN /\ rig.raised \in BOOLEAN
           /\ stack \in BOOLEAN /\ agree \in BOOLEAN
  <1>1. DOMAIN NoRig = Fields
    BY DEF NoRig, Fields
  <1>2. QED
    BY <1>1 DEF RigInv, RigTyped, RigTypeOK, MadeIsListed

\* What is raised goes to the teardown, and what is kept is on the list.
LEMMA KeptIsListed ==
    ASSUME RigInv, rig.pc \in {"make", "judge", "silence"}, NEW o
    PROVE  /\ Goes(Raised(rig)) /\ Goes(Raised(Keep(rig, o)))
           /\ DOMAIN Keep(rig, o) = Fields
           /\ Keep(rig, o).made = rig.made \union ({o} \cap Made)
           /\ Keep(rig, o).listed = rig.made \union ({o} \cap Made)
           /\ \A f \in Fields \ {"made", "listed"} : Keep(rig, o)[f] = rig[f]
  <1> DEFINE kept == Keep(rig, o)
  <1>1. /\ DOMAIN kept = Fields
        /\ kept.made = rig.made \union ({o} \cap Made)
        /\ kept.listed = rig.made \union ({o} \cap Made)
        /\ \A f \in Fields \ {"made", "listed"} : kept[f] = rig[f]
    BY AsItIs DEF Keep, Fields
  <1>2. /\ kept.mode = rig.mode /\ kept.exit = rig.exit /\ kept.lost = rig.lost
        /\ kept.stuck = rig.stuck /\ kept.set = rig.set
        /\ kept.broken = rig.broken /\ kept.problems = rig.problems
    BY <1>1 DEF Fields
  <1>3. Goes(Raised(rig))
    BY AsItIs DEF Raised, Goes, Fields
  <1>4. Goes(Raised(kept))
    <2> HIDE DEF kept
    <2>1. /\ DOMAIN Raised(kept) = Fields /\ Raised(kept).pc = "teardown" /\ Raised(kept).raised = TRUE
          /\ \A f \in Fields \ {"pc", "raised"} : Raised(kept)[f] = kept[f]
      BY <1>1 DEF Raised, Fields
    <2>2. /\ Raised(kept).made = kept.made /\ Raised(kept).listed = kept.listed /\ Raised(kept).lost = kept.lost
          /\ Raised(kept).mode = kept.mode /\ Raised(kept).exit = kept.exit
          /\ Raised(kept).stuck = kept.stuck /\ Raised(kept).set = kept.set
          /\ Raised(kept).broken = kept.broken /\ Raised(kept).problems = kept.problems
      BY <2>1 DEF Fields
    <2> HIDE DEF Raised
    <2>3. QED
      BY <1>1, <1>2, <2>1, <2>2, AsItIs DEF Goes
  <1>5. QED
    BY <1>1, <1>3, <1>4

\* Docker makes the next thing or refuses it.
LEMMA MakeGoes ==
    ASSUME RigInv, Make
    PROVE  RigInv'
  <1> DEFINE o == Head(rig.left)
             kept == Keep(rig, o)
             pc == IF Len(rig.left) = 1 THEN "judge" ELSE "make"
             on == [kept EXCEPT !.left = Tail(@), !.pc = pc]
  <1>1. /\ rig.pc = "make" /\ UNCHANGED <<debris, stack, agree>>
        /\ Fails(o) \/ rig' = on \/ \E d \in Doors : rig' = [on EXCEPT !.door = d]
    BY DEF Make, At
  <1>2. /\ DOMAIN kept = Fields
        /\ kept.made = rig.made \union ({o} \cap Made) /\ kept.listed = rig.made \union ({o} \cap Made)
        /\ \A f \in Fields \ {"made", "listed"} : kept[f] = rig[f]
    BY <1>1, KeptIsListed
  <1>3. /\ kept.mode = rig.mode /\ kept.exit = rig.exit /\ kept.lost = rig.lost
        /\ kept.stuck = rig.stuck /\ kept.set = rig.set
        /\ kept.broken = rig.broken /\ kept.problems = rig.problems /\ kept.raised = rig.raised
    BY <1>2 DEF Fields
  <1>4. /\ rig.made \subseteq Made /\ rig.lost = {} /\ rig.broken \subseteq CaughtBy
        /\ rig.stuck \subseteq Made /\ rig.set \in BOOLEAN
        /\ rig.problems \in BOOLEAN /\ rig.raised \in BOOLEAN /\ stack \in BOOLEAN /\ agree \in BOOLEAN
    BY <1>1, AsItIs
  <1>5. CASE Fails(o)
    <2>1. rig' = Raised(rig) \/ rig' = Raised(kept)
      BY <1>5 DEF Fails, Raise
    <2>2. Goes(Raised(rig)) /\ Goes(Raised(kept))
      BY <1>1, KeptIsListed
    <2> HIDE DEF kept
    <2>3. Goes(rig')
      BY <2>1, <2>2
    <2>4. QED
      BY <1>1, <1>4, <2>3, GoingOn
  <1>6. CASE rig' = on \/ \E d \in Doors : rig' = [on EXCEPT !.door = d]
    <2> HIDE DEF kept
    <2>1. pc \in {"make", "judge"}
      OBVIOUS
    <2> HIDE DEF pc
    <2>2. DOMAIN on = Fields /\ on.pc = pc /\ \A f \in Fields \ {"left", "pc"} : on[f] = kept[f]
      BY <1>2 DEF Fields
    <2> HIDE DEF on
    <2>3. DOMAIN rig' = Fields /\ rig'.pc = pc /\ \A f \in Fields \ {"left", "pc", "door"} : rig'[f] = kept[f]
      <3>1. CASE rig' = on
        BY <2>2, <3>1 DEF Fields
      <3>2. CASE \E d \in Doors : rig' = [on EXCEPT !.door = d]
        <4>1. PICK d \in Doors : rig' = [on EXCEPT !.door = d]
          BY <3>2
        <4>2. QED
          BY <2>2, <4>1 DEF Fields
      <3>3. QED
        BY <1>6, <3>1, <3>2
    <2>4. /\ rig'.mode = kept.mode /\ rig'.exit = kept.exit /\ rig'.lost = kept.lost
          /\ rig'.made = kept.made /\ rig'.listed = kept.listed
          /\ rig'.stuck = kept.stuck /\ rig'.set = kept.set
          /\ rig'.broken = kept.broken /\ rig'.problems = kept.problems /\ rig'.raised = kept.raised
      BY <2>3 DEF Fields
    <2>5. Goes(rig')
      BY <1>2, <1>3, <1>4, <2>1, <2>3, <2>4 DEF Goes
    <2>6. QED
      BY <1>1, <1>4, <2>5, GoingOn
  <1>7. QED
    BY <1>1, <1>5, <1>6

\* A door, or what Jellyfin itself answers, is asked every case.
LEMMA JudgeGoes ==
    ASSUME RigInv, JudgeDoor \/ Silence \/ Record
    PROVE  RigInv'
  <1>1. /\ rig.pc \in {"judge", "silence"} /\ UNCHANGED <<debris, stack>> /\ agree' \in BOOLEAN
        /\ \/ rig' = Raised(rig)
           \/ \E pc \in {"silence", "teardown"}, set \in BOOLEAN, problems \in BOOLEAN :
                rig' = [rig EXCEPT !.pc = pc, !.set = set, !.problems = problems]
    <2>1. rig.pc \in {"judge", "silence"} /\ UNCHANGED <<debris, stack>>
      BY DEF JudgeDoor, Silence, Record, At
    <2>2. /\ rig.problems \in BOOLEAN /\ agree \in BOOLEAN /\ rig.set \in BOOLEAN
          /\ DOMAIN rig = Fields
      BY <2>1, AsItIs
    <2>3. CASE JudgeDoor
      <3>1. CASE rig' # Raised(rig)
        <4>1. PICK placed \in BOOLEAN, presented \in BOOLEAN :
                 rig' = [rig EXCEPT !.pc = "silence", !.set = placed /\ presented,
                                    !.problems = @ \/ Problems(rig.door, placed) # {} \/ ~presented]
          BY <2>3, <3>1 DEF JudgeDoor, Raise
        <4>2. /\ (placed /\ presented) \in BOOLEAN
              /\ (rig.problems \/ Problems(rig.door, placed) # {} \/ ~presented) \in BOOLEAN
          BY <2>2
        <4>3. rig' = [rig EXCEPT !.pc = "silence", !.set = (placed /\ presented),
                                 !.problems = (rig.problems \/ Problems(rig.door, placed) # {} \/ ~presented)]
          BY <4>1
        <4>4. QED
          BY <2>1, <2>2, <2>3, <4>2, <4>3, Zenon DEF JudgeDoor
      <3>2. QED
        BY <2>1, <2>2, <2>3, <3>1 DEF JudgeDoor
    <2>4. CASE Silence
      <3> DEFINE problems == rig.problems \/ Outcome(rig.door, Stream, [StandIn EXCEPT !.mood = "down"]) # REFUSE
      <3>1. CASE rig' # Raised(rig)
        <4>1. rig' = [rig EXCEPT !.pc = "teardown", !.problems = problems] /\ problems \in BOOLEAN
          BY <2>2, <2>4, <3>1 DEF Silence, Raise
        <4> HIDE DEF problems
        <4>2. rig' = [rig EXCEPT !.pc = "teardown", !.set = rig.set, !.problems = problems]
          BY <2>2, <4>1 DEF Fields
        <4>3. QED
          BY <2>1, <2>2, <2>4, <4>1, <4>2 DEF Silence
      <3> HIDE DEF problems
      <3>2. QED
        BY <2>1, <2>2, <2>4, <3>1 DEF Silence
    <2>5. CASE Record
      <3>1. CASE rig' # Raised(rig)
        <4>1. PICK right \in BOOLEAN :
                 /\ rig' = [rig EXCEPT !.pc = "teardown", !.problems = ~right \/ Wrongs(rig.door) # {}]
                 /\ agree' = (right /\ Wrongs(rig.door) = {})
          BY <2>5, <3>1 DEF Record, Raise
        <4> DEFINE problems == ~right \/ Wrongs(rig.door) # {}
        <4>2. problems \in BOOLEAN /\ agree' \in BOOLEAN
          BY <4>1
        <4>3. rig' = [rig EXCEPT !.pc = "teardown", !.problems = problems]
          BY <4>1
        <4> HIDE DEF problems
        <4>4. rig' = [rig EXCEPT !.pc = "teardown", !.set = rig.set, !.problems = problems]
          BY <2>2, <4>3 DEF Fields
        <4>5. QED
          BY <2>1, <2>2, <4>2, <4>4
      <3>2. QED
        BY <2>1, <2>2, <2>5, <3>1 DEF Record, Raise
    <2>6. QED
      BY <2>3, <2>4, <2>5
  <1>2. /\ DOMAIN rig = Fields /\ rig.made \subseteq Made /\ rig.listed = rig.made /\ rig.lost = {}
        /\ rig.broken \subseteq CaughtBy /\ rig.raised \in BOOLEAN /\ stack \in BOOLEAN
        /\ rig.stuck \subseteq Made
    BY <1>1, AsItIs
  <1>3. CASE rig' = Raised(rig)
    BY <1>1, <1>2, <1>3, KeptIsListed, GoingOn
  <1>4. CASE \E pc \in {"silence", "teardown"}, set \in BOOLEAN, problems \in BOOLEAN :
                rig' = [rig EXCEPT !.pc = pc, !.set = set, !.problems = problems]
    <2>1. PICK pc \in {"silence", "teardown"}, set \in BOOLEAN, problems \in BOOLEAN :
                rig' = [rig EXCEPT !.pc = pc, !.set = set, !.problems = problems]
      BY <1>4
    <2>2. /\ DOMAIN rig' = Fields /\ rig'.pc = pc /\ rig'.problems = problems
          /\ rig'.set = set /\ rig'.stuck = rig.stuck
          /\ rig'.mode = rig.mode /\ rig'.exit = rig.exit /\ rig'.lost = rig.lost /\ rig'.made = rig.made
          /\ rig'.listed = rig.listed /\ rig'.broken = rig.broken /\ rig'.raised = rig.raised
      BY <1>2, <2>1 DEF Fields
    <2>3. Goes(rig')
      BY <1>2, <2>2 DEF Goes
    <2>4. QED
      BY <1>1, <1>2, <2>3, GoingOn
  <1>5. QED
    BY <1>1, <1>3, <1>4

\* So is one broken door after another, each started in the last one's place.
LEMMA JudgedOf ==
    ASSUME NEW r, DOMAIN r = Fields, NEW b, NEW problem
    PROVE  /\ DOMAIN Judged(r, b, problem) = Fields
           /\ \A f \in Fields \ {"pc", "broken", "problems"} : Judged(r, b, problem)[f] = r[f]
           /\ Judged(r, b, problem).broken = r.broken \ {b}
           /\ Judged(r, b, problem).problems = (r.problems \/ problem)
           /\ Judged(r, b, problem).pc = IF r.broken = {b} THEN "teardown" ELSE "judge"
  BY DEF Judged, Fields

LEMMA JudgeBrokenGoes ==
    ASSUME RigInv, JudgeBroken
    PROVE  RigInv'
  <1> DEFINE kept == Keep(rig, "door")
  <1>1. /\ rig.pc = "judge" /\ UNCHANGED <<debris, stack, agree>>
        /\ \/ Fails("door")
           \/ \E b, problem : rig' = Judged(rig, b, problem) \/ rig' = Judged(kept, b, problem)
    <2>1. rig.pc = "judge" /\ UNCHANGED <<debris, stack, agree>>
      BY DEF JudgeBroken, At
    <2> DEFINE b == CHOOSE one \in rig.broken : TRUE
    <2>2. \/ Fails("door")
          \/ rig' = Judged(rig, b, TRUE)
          \/ \E placed \in BOOLEAN : rig' = Judged(kept, b, b \notin Problems(Broken(rig.door, b), placed))
      BY Zenon DEF JudgeBroken
    <2> HIDE DEF b, kept
    <2>3. QED
      BY <2>1, <2>2, Zenon
  <1>2. /\ DOMAIN kept = Fields
        /\ kept.made = rig.made \union ({"door"} \cap Made) /\ kept.listed = rig.made \union ({"door"} \cap Made)
        /\ \A f \in Fields \ {"made", "listed"} : kept[f] = rig[f]
    BY <1>1, KeptIsListed
  <1>3. /\ kept.mode = rig.mode /\ kept.exit = rig.exit /\ kept.lost = rig.lost
        /\ kept.stuck = rig.stuck /\ kept.set = rig.set
        /\ kept.broken = rig.broken /\ kept.problems = rig.problems /\ kept.raised = rig.raised
    BY <1>2 DEF Fields
  <1>4. /\ rig.made \subseteq Made /\ rig.listed = rig.made /\ rig.lost = {} /\ rig.broken \subseteq CaughtBy
        /\ rig.stuck \subseteq Made /\ rig.set \in BOOLEAN /\ DOMAIN rig = Fields
        /\ rig.problems \in BOOLEAN /\ rig.raised \in BOOLEAN /\ stack \in BOOLEAN /\ agree \in BOOLEAN
    BY <1>1, AsItIs
  <1>5. CASE Fails("door")
    <2>1. Goes(rig')
      BY <1>1, <1>5, KeptIsListed DEF Fails, Raise
    <2>2. QED
      BY <1>1, <1>4, <2>1, GoingOn
  <1> HIDE DEF kept
  <1>6. ASSUME NEW r \in {rig, kept}, NEW b, NEW problem, rig' = Judged(r, b, problem)
        PROVE  RigInv'
    <2>1. /\ DOMAIN r = Fields /\ r.made \subseteq Made /\ r.listed = r.made /\ r.lost = {} /\ r.stuck \subseteq Made
          /\ r.set \in BOOLEAN /\ r.broken \subseteq CaughtBy /\ r.problems \in BOOLEAN /\ r.raised \in BOOLEAN
          /\ r.mode = rig.mode /\ r.exit = rig.exit
      <3>1. CASE r = rig
        BY <1>4, <3>1
      <3>2. CASE r = kept
        BY <1>2, <1>3, <1>4, <3>2
      <3>3. QED
        BY <1>6, <3>1, <3>2
    <2>2. /\ DOMAIN rig' = Fields
          /\ \A f \in Fields \ {"pc", "broken", "problems"} : rig'[f] = r[f]
          /\ rig'.broken = r.broken \ {b} /\ rig'.problems = (r.problems \/ problem)
          /\ rig'.pc = IF r.broken = {b} THEN "teardown" ELSE "judge"
      BY <1>6, <2>1, JudgedOf
    <2>3. /\ rig'.mode = r.mode /\ rig'.exit = r.exit /\ rig'.lost = r.lost /\ rig'.stuck = r.stuck
          /\ rig'.set = r.set /\ rig'.made = r.made /\ rig'.listed = r.listed /\ rig'.raised = r.raised
      BY <2>2 DEF Fields
    <2>4. rig'.problems \in BOOLEAN /\ rig'.pc \in {"teardown", "judge"}
      BY <2>2
    <2>5. Goes(rig')
      BY <2>1, <2>2, <2>3, <2>4 DEF Goes
    <2>6. QED
      BY <1>1, <1>4, <2>5, GoingOn
  <1>7. QED
    BY <1>1, <1>5, <1>6

\* An interrupt goes through the teardown, with what was being made.
LEMMA CutGoes ==
    ASSUME RigInv, Cut, UNCHANGED <<debris, stack, agree>>
    PROVE  RigInv'
  <1>1. PICK cut \in SUBSET Made : rig' = Raised([rig EXCEPT !.made = @ \union cut, !.lost = cut])
    BY DEF Cut
  <1>2. rig.pc \in {"make", "judge", "silence"} /\ UNCHANGED <<debris, stack, agree>>
    BY DEF Cut
  <1>3. /\ DOMAIN rig = Fields /\ rig.made \subseteq Made /\ rig.listed = rig.made
        /\ rig.broken \subseteq CaughtBy /\ rig.problems \in BOOLEAN /\ stack \in BOOLEAN /\ agree \in BOOLEAN
        /\ rig.stuck \subseteq Made /\ rig.set \in BOOLEAN
    BY <1>2, AsItIs
  <1>4. /\ DOMAIN rig' = Fields /\ rig'.pc = "teardown" /\ rig'.raised = TRUE
        /\ rig'.made = rig.made \union cut /\ rig'.lost = cut /\ rig'.listed = rig.listed
        /\ rig'.mode = rig.mode /\ rig'.exit = rig.exit
        /\ rig'.broken = rig.broken /\ rig'.problems = rig.problems
        /\ rig'.stuck = rig.stuck /\ rig'.set = rig.set
    BY <1>1, <1>3 DEF Raised, Fields
  <1>5. Goes(rig')
    BY <1>3, <1>4 DEF Goes
  <1>6. QED
    BY <1>2, <1>3, <1>5, GoingOn

LEMMA TeardownEnds ==
    ASSUME RigInv, Teardown \/ (CutShort /\ UNCHANGED <<debris, stack, agree>>) \/ Verdict
    PROVE  RigInv'
  <1>1. /\ DOMAIN rig = Fields /\ DOMAIN NoRig = Fields
        /\ RigTypeOK /\ UNCHANGED <<debris, stack, agree>>
    BY DEF RigInv, RigTyped, NoRig, Fields, Teardown, Verdict
  <1>2. CASE Teardown \/ CutShort
    <2>1. /\ rig.pc = "teardown"
          /\ \E stuck \in SUBSET (rig.made \intersect Removed) :
                rig' = TakenDown(stuck) \/ rig' = [TakenDown(stuck) EXCEPT !.raised = TRUE]
      BY <1>2 DEF Teardown, CutShort, At
    <2>2. PICK stuck \in SUBSET (rig.made \intersect Removed) :
            /\ DOMAIN rig' = Fields /\ rig'.pc = "over" /\ rig'.made = rig.made \ (Removed \ stuck) /\ rig'.listed = {}
            /\ rig'.mode = rig.mode /\ rig'.exit = rig.exit /\ rig'.lost = rig.lost /\ rig'.stuck = stuck
            /\ rig'.set = rig.set
            /\ rig'.broken = rig.broken /\ rig'.problems = rig.problems
            /\ rig'.raised = rig.raised \/ rig'.raised = TRUE
      <3>1. PICK stuck \in SUBSET (rig.made \intersect Removed) :
                rig' = TakenDown(stuck) \/ rig' = [TakenDown(stuck) EXCEPT !.raised = TRUE]
        BY <2>1
      <3>2. /\ DOMAIN rig' = Fields /\ rig'.pc = "over" /\ rig'.made = rig.made \ (Removed \ stuck) /\ rig'.listed = {}
            /\ rig'.mode = rig.mode /\ rig'.exit = rig.exit /\ rig'.lost = rig.lost /\ rig'.stuck = stuck
            /\ rig'.set = rig.set
            /\ rig'.broken = rig.broken /\ rig'.problems = rig.problems
            /\ rig'.raised = rig.raised \/ rig'.raised = TRUE
        <4> DEFINE d == TakenDown(stuck)
        <4>1. /\ DOMAIN d = Fields /\ d.pc = "over" /\ d.made = rig.made \ (Removed \ stuck) /\ d.listed = {}
              /\ d.mode = rig.mode /\ d.exit = rig.exit /\ d.lost = rig.lost /\ d.stuck = stuck
              /\ d.set = rig.set
              /\ d.broken = rig.broken /\ d.problems = rig.problems /\ d.raised = rig.raised
          BY <1>1 DEF TakenDown, Fields
        <4>2. rig' = d \/ rig' = [d EXCEPT !.raised = TRUE]
          BY <3>1
        <4> HIDE DEF d
        <4>3. CASE rig' = d
          BY <4>1, <4>3
        <4>4. CASE rig' = [d EXCEPT !.raised = TRUE]
          BY <4>1, <4>4 DEF Fields
        <4>5. QED
          BY <4>2, <4>3, <4>4
      <3>3. QED
        BY <3>2
    <2>3. rig'.made \subseteq (rig'.lost \ Named(rig'.mode)) \union rig'.stuck
      BY <2>1, <2>2 DEF RigInv, MadeIsListed, Removed
    <2>4. RigTypeOK'
      BY <1>1, <2>2 DEF RigTypeOK
    <2>5. MadeIsListed' /\ RemovedAgain'
      BY <2>2, <2>3 DEF MadeIsListed, RemovedAgain, At
    <2>6. QED
      BY <1>1, <2>2, <2>4, <2>5 DEF RigInv, RigTyped
  <1>3. CASE Verdict
    <2>1. /\ rig.pc = "over"
          /\ rig' = [NoRig EXCEPT !.exit = IF rig.problems \/ rig.raised THEN "1" ELSE "0",
                                  !.mode = rig.mode, !.raised = rig.raised,
                                  !.door = rig.door, !.set = rig.set,
                                  !.made = rig.made, !.lost = rig.lost, !.stuck = rig.stuck]
      BY <1>3 DEF Verdict, At
    <2>2. /\ DOMAIN rig' = Fields /\ rig'.pc = "off" /\ rig'.made = rig.made /\ rig'.listed = {}
          /\ rig'.mode = rig.mode /\ rig'.exit \in {"0", "1"} /\ rig'.lost = rig.lost
          /\ rig'.broken = {} /\ rig'.problems = FALSE /\ rig'.raised = rig.raised
          /\ rig'.stuck = rig.stuck /\ rig'.set = rig.set
      BY <2>1 DEF NoRig, Fields
    <2>3. rig'.made \subseteq (rig'.lost \ Named(rig'.mode)) \union rig'.stuck
      BY <2>1, <2>2 DEF RigInv, MadeIsListed
    <2>4. RigTypeOK'
      BY <1>1, <2>2 DEF RigTypeOK
    <2>5. MadeIsListed' /\ RemovedAgain'
      BY <2>2, <2>3 DEF MadeIsListed, RemovedAgain, At
    <2>6. QED
      BY <1>1, <2>2, <2>4, <2>5 DEF RigInv, RigTyped
  <1>4. QED
    BY <1>2, <1>3

LEMMA InterruptGoes ==
    ASSUME RigInv, Interrupt
    PROVE  RigInv'
  BY CutGoes, TeardownEnds DEF Interrupt

\* A run begins with nothing of its own.
LEMMA BeginGoes ==
    ASSUME RigInv, NEW mode \in {"check", "self-test", "record"}, Begin(mode)
    PROVE  RigInv'
  <1>1. PICK laid \in BOOLEAN, door \in IF mode = "self-test" THEN Doors ELSE {Shipped} :
        rig' = [NoRig EXCEPT !.mode = mode, !.left = Plan(mode), !.door = door,
                             !.broken = IF mode = "self-test" THEN CaughtBy ELSE {},
                             !.pc = IF laid THEN "make" ELSE "over",
                             !.raised = ~laid, !.problems = mode # "record" /\ ~agree]
    BY DEF Begin
  <1>2. debris' = debris \union rig.made /\ UNCHANGED <<stack, agree>> /\ RigTypeOK
    BY DEF Begin, RigInv, RigTyped
  <1> DEFINE problems == mode # "record" /\ ~agree
  <1>3. problems \in BOOLEAN
    OBVIOUS
  <1> HIDE DEF problems
  <1>4. /\ DOMAIN rig' = DOMAIN NoRig /\ rig'.pc \in {"make", "over"} /\ rig'.mode = mode
        /\ rig'.made = {} /\ rig'.listed = {} /\ rig'.lost = {} /\ rig'.exit = "none"
        /\ rig'.broken \subseteq CaughtBy /\ rig'.raised \in BOOLEAN /\ rig'.stuck = {} /\ rig'.set = TRUE
    BY <1>1 DEF NoRig
  <1>5. rig'.problems = problems
    BY <1>1 DEF NoRig, problems
  <1>6. RigTypeOK'
    BY <1>2, <1>3, <1>4, <1>5 DEF RigTypeOK
  <1>7. MadeIsListed' /\ RemovedAgain'
    BY <1>4 DEF MadeIsListed, RemovedAgain, At
  <1>8. QED
    BY <1>4, <1>6, <1>7 DEF RigInv, RigTyped

\* A kill ends it with no teardown; and the stack comes and goes beside it.
LEMMA AroundARun ==
    ASSUME RigInv, Kill \/ Up \/ Down \/ Sweep \/ UNCHANGED checkVars
    PROVE  RigInv'
  <1>1. RigTypeOK
    BY DEF RigInv, RigTyped
  <1>2. CASE Kill
    <2>1. rig' = [NoRig EXCEPT !.exit = "killed"] /\ debris' = debris \union rig.made /\ UNCHANGED <<stack, agree>>
      BY <1>2 DEF Kill
    <2>2. /\ DOMAIN rig' = DOMAIN NoRig /\ rig'.pc = "off" /\ rig'.mode = "check" /\ rig'.exit = "killed"
          /\ rig'.made = {} /\ rig'.listed = {} /\ rig'.lost = {}
          /\ rig'.broken = {} /\ rig'.problems = FALSE /\ rig'.raised = FALSE
          /\ rig'.stuck = {} /\ rig'.set = TRUE
      BY <2>1 DEF NoRig
    <2>3. RigTypeOK'
      BY <1>1, <2>1, <2>2 DEF RigTypeOK
    <2>4. MadeIsListed' /\ RemovedAgain'
      BY <2>2 DEF MadeIsListed, RemovedAgain, At
    <2>5. QED
      BY <2>2, <2>3, <2>4 DEF RigInv, RigTyped
  <1>3. CASE Up \/ Down \/ Sweep \/ UNCHANGED checkVars
    <2>1. rig' = rig /\ debris' \subseteq Made /\ stack' \in BOOLEAN /\ agree' \in BOOLEAN
      BY <1>1, <1>3 DEF Up, Down, Sweep, checkVars, RigTypeOK
    <2>2. RigTypeOK'
      BY <1>1, <2>1 DEF RigTypeOK
    <2>3. QED
      BY <2>1, <2>2 DEF RigInv, RigTyped, MadeIsListed, RemovedAgain, At
  <1>4. QED
    BY <1>2, <1>3

LEMMA RigStarts == AllInit => RigInv
  <1> SUFFICES ASSUME AllInit PROVE RigInv
    OBVIOUS
  <1>1. rig = NoRig /\ debris = {} /\ stack = FALSE /\ agree \in BOOLEAN
    BY DEF AllInit, CheckInit
  <1>2. /\ rig.pc = "off" /\ rig.mode = "check" /\ rig.exit = "none"
        /\ rig.made = {} /\ rig.listed = {} /\ rig.lost = {}
        /\ rig.broken = {} /\ rig.problems = FALSE /\ rig.raised = FALSE /\ rig.stuck = {} /\ rig.set = TRUE
    BY <1>1 DEF NoRig
  <1>3. RigTypeOK
    BY <1>1, <1>2 DEF RigTypeOK
  <1>4. QED
    BY <1>1, <1>2, <1>3 DEF RigInv, RigTyped, MadeIsListed, RemovedAgain, At

LEMMA RigSteps == RigInv /\ [AllNext]_allVars => RigInv'
  <1> SUFFICES ASSUME RigInv, [AllNext]_allVars PROVE RigInv'
    OBVIOUS
  <1>1. CASE CheckNext
    <2>1. CASE Make
      BY <2>1, MakeGoes
    <2>2. CASE JudgeDoor \/ Silence \/ Record
      BY <2>2, JudgeGoes
    <2>3. CASE JudgeBroken
      BY <2>3, JudgeBrokenGoes
    <2>4. CASE Teardown \/ Verdict
      BY <2>4, TeardownEnds
    <2>5. CASE Interrupt
      BY <2>5, InterruptGoes
    <2>6. CASE Kill \/ Up \/ Down \/ Sweep
      BY <2>6, AroundARun
    <2>7. ASSUME NEW mode \in {"check", "self-test", "record"}, Begin(mode) PROVE RigInv'
      BY <2>7, BeginGoes
    <2>8. QED
      BY <1>1, <2>1, <2>2, <2>3, <2>4, <2>5, <2>6, <2>7 DEF CheckNext
  <1>2. CASE UNCHANGED checkVars
    BY <1>2, AroundARun
  <1>3. QED
    BY <1>1, <1>2 DEF AllNext, allVars

LEMMA RigHolds == Spec => []RigInv
  BY RigStarts, RigSteps, PTL DEF Spec

\* The rig, and what killed runs left of theirs, is of what a run can make.
THEOREM RigTyping == Spec => []RigTypeOK
  <1>1. RigInv => RigTypeOK
    BY DEF RigInv, RigTyped
  <1>2. QED
    BY <1>1, RigHolds, PTL

\* Whatever a run was for and wherever it failed or was interrupted, it leaves no
\* network, volume or container of its own but the one Docker was still making, and
\* what Docker would not remove or an interrupted teardown did not come to.
THEOREM NothingIsLeft == Spec => []RemovedAgain
  <1>1. RigInv => RemovedAgain
    BY DEF RigInv
  <1>2. QED
    BY <1>1, RigHolds, PTL
-----------------------------------------------------------------------------
Names == {"abnormal", "encoded_unreserved", "token_query", "encoded_on_bytes", "nonpchar_path",
          "live_stream_on_bytes", "item_in_query", "by_name_image", "splashscreen",
          "trickplay_source_unaskable", "trickplay_source", "keyed", "owned", "unkeyed", "rest"}
Forwarding == {"trickplay_source", "keyed", "owned", "rest"}

\* What any door does with a request is what the handle it meets does, which it
\* has and which matches; and one that is left for the last meets no other.
LEMMA MeetsWhatMatches ==
    ASSUME NEW d \in DoorSpace, NEW q
    PROVE  /\ Handle(d, q) \in Names \ d.off /\ Matches(d, Handle(d, q), q)
           /\ Handle(d, q) = "rest" => \A h \in Names \ {"rest"} : h \in d.off \/ ~Matches(d, h, q)
           /\ Handle(d, q) = "unkeyed" => \A h \in {"keyed", "owned"} : h \in d.off \/ ~Matches(d, h, q)
  <1>1. PICK i \in 1..15 :
              /\ Handle(d, q) = Handles[i] /\ Handles[i] \notin d.off /\ Matches(d, Handles[i], q)
              /\ \A j \in 1..15 : j < i => Handles[j] \in d.off \/ ~Matches(d, Handles[j], q)
    BY MeetsFirst
  <1>2. /\ Handles[1] = "abnormal" /\ Handles[2] = "encoded_unreserved" /\ Handles[3] = "token_query"
        /\ Handles[4] = "encoded_on_bytes" /\ Handles[5] = "nonpchar_path" /\ Handles[6] = "live_stream_on_bytes"
        /\ Handles[7] = "item_in_query" /\ Handles[8] = "by_name_image" /\ Handles[9] = "splashscreen"
        /\ Handles[10] = "trickplay_source_unaskable" /\ Handles[11] = "trickplay_source" /\ Handles[12] = "keyed"
        /\ Handles[13] = "owned" /\ Handles[14] = "unkeyed" /\ Handles[15] = "rest"
    BY DEF Handles
  <1>3. Handles[i] \in Names
    BY <1>2 DEF Names
  <1>4. ASSUME Handle(d, q) = "rest", NEW h \in Names \ {"rest"} PROVE h \in d.off \/ ~Matches(d, h, q)
    <2>1. i = 15
      <3>1. \A k \in 1..15 : k = 15 \/ k = 1 \/ k = 2 \/ k = 3 \/ k = 4 \/ k = 5 \/ k = 6 \/ k = 7 \/ k = 8
                              \/ k = 9 \/ k = 10 \/ k = 11 \/ k = 12 \/ k = 13 \/ k = 14
        OBVIOUS
      <3>2. Handles[i] = "rest"
        BY <1>1, <1>4
      <3>3. QED
        BY <1>2, <3>1, <3>2
    <2>2. \E j \in 1..14 : Handles[j] = h
      BY <1>2 DEF Names
    <2>3. QED
      BY <1>1, <2>1, <2>2
  <1>5. ASSUME Handle(d, q) = "unkeyed", NEW h \in {"keyed", "owned"} PROVE h \in d.off \/ ~Matches(d, h, q)
    <2>1. i = 14
      <3>1. \A k \in 1..15 : k = 14 \/ k = 1 \/ k = 2 \/ k = 3 \/ k = 4 \/ k = 5 \/ k = 6 \/ k = 7 \/ k = 8
                              \/ k = 9 \/ k = 10 \/ k = 11 \/ k = 12 \/ k = 13 \/ k = 15
        OBVIOUS
      <3>2. Handles[i] = "unkeyed"
        BY <1>1, <1>5
      <3>3. QED
        BY <1>2, <3>1, <3>2
    <2>2. \E j \in 1..13 : Handles[j] = h
      BY <1>2
    <2>3. QED
      BY <1>1, <2>1, <2>2
  <1>6. QED
    BY <1>1, <1>3, <1>4, <1>5

\* What a handle that a door has may take.
LEMMA MeetsOnly ==
    ASSUME NEW d \in DoorSpace, NEW q
    PROVE  LET h == Handle(d, q) IN
           /\ h \in Names \ d.off
           /\ h = "abnormal" => q.form \in d.abnormal
           /\ h = "encoded_unreserved" => q.form = "hidden"
           /\ h = "token_query" => q.as = "spelled"
           /\ h = "encoded_on_bytes" => q.form \in {"encoded", "dressed"} /\ q.route \in Bytes
           /\ h = "nonpchar_path" => q.form = "foreign"
           /\ h = "live_stream_on_bytes" => q.via = "live"
           /\ h = "item_in_query" => q.via = "item" /\ (q.plain \/ d.names)
           /\ h = "by_name_image" => q.route = "named"
           /\ h = "splashscreen" => q.route = "splash"
           /\ h = "trickplay_source_unaskable" => q.via = "media" /\ ~q.plain /\ d.guards
           /\ h = "trickplay_source" => q.via = "media" /\ q.form \in {"normal", "dressed"} /\ q.route = "trickplay" /\ d.guards
           /\ h = "keyed" => q.form \in {"normal", "dressed"} /\ q.route \in {"videos", "trickplay"} /\ d.guards
           /\ h = "owned" => q.form \in {"normal", "dressed"} /\ q.route = "items" /\ d.guards
           /\ h = "unkeyed" => q.form \in {"normal", "dressed"} /\ q.route \in Bytes /\ d.guards
           /\ h = "rest" /\ "keyed" \notin d.off /\ d.guards =>
                  ~(q.form = "normal" /\ q.route \in {"videos", "trickplay"})
           /\ h = "rest" /\ "unkeyed" \notin d.off /\ d.guards => ~(q.form = "normal" /\ q.route \in Bytes)
           /\ h = "unkeyed" /\ "keyed" \notin d.off => q.route \notin {"videos", "trickplay"}
  <1> DEFINE h == Handle(d, q)
  <1>1. h \in Names \ d.off /\ Matches(d, h, q)
    BY MeetsWhatMatches
  <1>2. /\ h = "rest" => ("keyed" \in d.off \/ ~Matches(d, "keyed", q))
        /\ h = "rest" => ("unkeyed" \in d.off \/ ~Matches(d, "unkeyed", q))
        /\ h = "unkeyed" => ("keyed" \in d.off \/ ~Matches(d, "keyed", q))
    BY MeetsWhatMatches DEF Names
  <1> HIDE DEF h
  <1>3. /\ h = "rest" /\ "keyed" \notin d.off /\ d.guards => ~(q.form = "normal" /\ q.route \in {"videos", "trickplay"})
        /\ h = "rest" /\ "unkeyed" \notin d.off /\ d.guards => ~(q.form = "normal" /\ q.route \in Bytes)
    BY <1>2 DEF Matches, On
  <1>4. /\ h = "unkeyed" => q.form \in {"normal", "dressed"} /\ q.route \in Bytes /\ d.guards
        /\ h = "unkeyed" /\ "keyed" \notin d.off => q.route \notin {"videos", "trickplay"}
    BY <1>1, <1>2 DEF Matches, On
  <1>5. /\ h = "abnormal" => q.form \in d.abnormal
        /\ h = "encoded_unreserved" => q.form = "hidden"
        /\ h = "token_query" => q.as = "spelled"
        /\ h = "encoded_on_bytes" => q.form \in {"encoded", "dressed"} /\ q.route \in Bytes
        /\ h = "nonpchar_path" => q.form = "foreign"
        /\ h = "live_stream_on_bytes" => q.via = "live"
        /\ h = "item_in_query" => q.via = "item" /\ (q.plain \/ d.names)
        /\ h = "by_name_image" => q.route = "named"
        /\ h = "splashscreen" => q.route = "splash"
    BY <1>1 DEF Matches, RawOn
  <1>6. /\ h = "trickplay_source_unaskable" => q.via = "media" /\ ~q.plain /\ d.guards
        /\ h = "trickplay_source" => q.via = "media" /\ q.form \in {"normal", "dressed"} /\ q.route = "trickplay" /\ d.guards
        /\ h = "keyed" => q.form \in {"normal", "dressed"} /\ q.route \in {"videos", "trickplay"} /\ d.guards
        /\ h = "owned" => q.form \in {"normal", "dressed"} /\ q.route = "items" /\ d.guards
    BY <1>1 DEF Matches, On
  <1>7. QED
    BY <1>1, <1>3, <1>4, <1>5, <1>6 DEF h

\* A door that forwards asks of the item of the path, but for a source it reads.
LEMMA SlipsThrough ==
    ASSUME NEW d \in DoorSpace, d.passes, NEW q, Handle(d, q) \in Forwarding, q.item = open,
           ~(d.source /\ q.plain /\ Handle(d, q) = "trickplay_source"),
           Handle(d, q) = "rest" \/ (Carried(d, q) = "member" /\ Told(d, q) # "away")
    PROVE  Outcome(d, q, StandIn) = "served"
  <1>1. ~Refuses(d, q)
    BY DEF Refuses, Forwarding
  <1>2. StandIn.mood = "up" /\ <<"member", open>> \in StandIn.sees
    BY DEF StandIn
  <1>3. \/ Asks(d, q) = <<>> 
        \/ Asks(d, q) \in {<<open>>, <<open, open>>} /\ Handle(d, q) # "rest"
    BY DEF Asks, Forwarding
  <1>4. \A i \in DOMAIN Asks(d, q) : Grants(StandIn, Carried(d, q), Asks(d, q)[i], Told(d, q))
    BY <1>2, <1>3 DEF Grants
  <1>5. QED
    BY <1>1, <1>2, <1>4 DEF Outcome

\* A door is caught by a case that comes out otherwise, and by one that passes with the
\* client told otherwise: by its name, or all of the household's together.
LEMMA NoProblem ==
    ASSUME NEW d, NEW placed
    PROVE  /\ \A name, q : Case(name, q, REFUSE) \in Cases /\ Outcome(d, q, StandIn) = "served"
                               => name \in Problems(d, placed)
           /\ \A name, q : Case(name, q, PASS) \in Cases /\ Outcome(d, q, StandIn) # "served"
                               => name \in Problems(d, placed)
           /\ \A name, q : Case(name, q, PASS) \in Cases /\ q.from # "household" /\ Told(d, q) # Client(q)
                               => name \in Problems(d, placed)
           /\ \A name, q : Case(name, q, PASS) \in Cases /\ q.from = "household" /\ Told(d, q) # "household"
                               => Problems(d, placed) # {}
           /\ ~placed => Problems(d, placed) # {}
  <1>1. \A name, q, expect : LET c == Case(name, q, expect) IN
            c.name = name /\ c.request = q /\ c.expect = expect
    BY DEF Case
  <1>2. PASS = "served" /\ REFUSE # "served"
    BY DEF PASS, REFUSE
  <1> HIDE DEF PASS, REFUSE
  <1> DEFINE names == {c.name : c \in Wrongs(d) \union Mistold(d, placed)}
  <1>3. names \subseteq Problems(d, placed) /\ (Households(d) # {"household"} => "household requests" \in Problems(d, placed))
    BY DEF Problems
  <1>4. \A c \in Cases : Outcome(d, c.request, StandIn) # c.expect => c.name \in Problems(d, placed)
    BY <1>3 DEF Wrongs
  <1>5. \A c \in Passed(d) :
            ~placed \/ (c.request.from # "household" /\ Told(d, c.request) # Client(c.request))
                => c.name \in Problems(d, placed)
    BY <1>3 DEF Mistold
  <1>6. ASSUME NEW c \in Cases, c.expect = PASS PROVE c \in Passed(d) \/ c.name \in Problems(d, placed)
    BY <1>4, <1>6 DEF Passed, Wrongs
  <1>7. ASSUME NEW c \in Passed(d), c.request.from = "household", Told(d, c.request) # "household"
        PROVE  Problems(d, placed) # {}
    <2>1. Told(d, c.request) \in Households(d)
      BY <1>7 DEF Households
    <2>2. Households(d) # {"household"}
      BY <1>7, <2>1
    <2>3. QED
      BY <1>3, <2>2
  <1>8. ASSUME NEW name, NEW q, Case(name, q, REFUSE) \in Cases, Outcome(d, q, StandIn) = "served"
        PROVE  name \in Problems(d, placed)
    BY <1>1, <1>2, <1>4, <1>8
  <1>9. ASSUME NEW name, NEW q, Case(name, q, PASS) \in Cases, Outcome(d, q, StandIn) # "served"
        PROVE  name \in Problems(d, placed)
    BY <1>1, <1>2, <1>4, <1>9
  <1>10. ASSUME NEW name, NEW q, Case(name, q, PASS) \in Cases, q.from # "household", Told(d, q) # Client(q)
         PROVE  name \in Problems(d, placed)
    BY <1>1, <1>5, <1>6, <1>10
  <1>11. ASSUME NEW name, NEW q, Case(name, q, PASS) \in Cases, q.from = "household", Told(d, q) # "household"
         PROVE  Problems(d, placed) # {}
    BY <1>1, <1>6, <1>7, <1>11
  <1>12. ASSUME ~placed PROVE Problems(d, placed) # {}
    <2>1. CASE Households(d) = {"household"}
      <3>1. Passed(d) # {}
        BY <2>1 DEF Households
      <3>2. QED
        BY <1>5, <1>12, <3>1
    <2>2. QED
      BY <1>3, <2>1
  <1>13. QED
    BY <1>8, <1>9, <1>10, <1>11, <1>12

\* Each thing a door lacks that refuses, or does not ask, is let through by the door in
\* the case made for it, whatever else is wrong with the door.
Nothing(q) == q.via = "none" /\ q.as = "nothing" /\ q.item = open

LEMMA CaughtForwarding ==
    ASSUME NEW d \in DoorSpace, d.passes, NEW placed,
           NEW name, NEW q, Case(name, q, REFUSE) \in Cases, Nothing(q),
           \/ q.form = "normal" /\ q.route = "videos" /\ (~d.guards \/ {"keyed", "unkeyed"} \subseteq d.off)
           \/ q.form = "normal" /\ q.route = "items" /\ {"owned", "unkeyed"} \subseteq d.off
           \/ q.form = "normal" /\ q.route = "named" /\ "by_name_image" \in d.off
           \/ q.form = "normal" /\ q.route = "splash" /\ "splashscreen" \in d.off
           \/ /\ (q.form = "climbing" /\ q.route = "videos") \/ (q.form = "backslash" /\ q.route = "open")
              /\ "abnormal" \in d.off \/ q.form \notin d.abnormal
           \/ q.form = "encoded" /\ q.route = "videos" /\ "encoded_on_bytes" \in d.off
           \/ q.form = "foreign" /\ q.route = "open" /\ "nonpchar_path" \in d.off
           \/ q.form = "hidden" /\ q.route = "videos" /\ "encoded_unreserved" \in d.off
    PROVE  name \in Problems(d, placed)
  <1>1. d.abnormal \subseteq {"climbing", "backslash"}
    BY DEF DoorSpace
  <1>2. Handle(d, q) = "rest"
    <2> DEFINE h == Handle(d, q)
    <2>1. /\ h \in Names \ d.off
          /\ h = "abnormal" => q.form \in d.abnormal
          /\ h = "encoded_unreserved" => q.form = "hidden"
          /\ h = "encoded_on_bytes" => q.form \in {"encoded", "dressed"}
          /\ h = "nonpchar_path" => q.form = "foreign"
          /\ h \notin {"token_query", "live_stream_on_bytes", "item_in_query", "trickplay_source_unaskable",
                      "trickplay_source"}
          /\ h = "by_name_image" => q.route = "named"
          /\ h = "splashscreen" => q.route = "splash"
          /\ h = "keyed" => q.form \in {"normal", "dressed"} /\ q.route \in {"videos", "trickplay"} /\ d.guards
          /\ h = "owned" => q.form \in {"normal", "dressed"} /\ q.route = "items"
          /\ h = "unkeyed" => q.form \in {"normal", "dressed"} /\ q.route \in {"videos", "trickplay", "items", "odd"} /\ d.guards
      BY MeetsOnly DEF Nothing, Bytes
    <2> HIDE DEF h
    <2>2. h = "rest"
      BY <1>1, <2>1 DEF Names
    <2>3. QED
      BY <2>2 DEF h
  <1>3. Outcome(d, q, StandIn) = "served"
    BY <1>2, SlipsThrough DEF Forwarding, Nothing
  <1>4. QED
    BY <1>3, NoProblem

\* So is each thing it lacks that keeps a question to the item whose bytes are served ...
LEMMA CaughtNaming ==
    ASSUME NEW d \in DoorSpace, d.passes, "keyed" \notin d.off, NEW placed
    PROVE  /\ "live_stream_on_bytes" \in d.off => "stream-with-a-live-stream-id" \in Problems(d, placed)
           /\ "item_in_query" \in d.off => "subtitle-of-another-item-named-in-the-query" \in Problems(d, placed)
           /\ ~d.names => "subtitle-with-the-name-as-an-array" \in Problems(d, placed)
           /\ "trickplay_source_unaskable" \in d.off =>
                 "trickplay-playlist-with-its-source-given-twice" \in Problems(d, placed)
           /\ ~d.source \/ "trickplay_source" \in d.off =>
                 "trickplay-playlist-naming-another-item-as-its-source" \in Problems(d, placed)
  <1> DEFINE plainly(q) == /\ q.form = "normal" /\ q.item = open /\ q.as = "header" /\ q.token = "member"
                           /\ q.from = "household" /\ q.claims = "nobody"
                           /\ q.route \in {"videos", "trickplay"} /\ q.via \in {"live", "item", "media"}
             through(q) == /\ q.via = "live" => "live_stream_on_bytes" \in d.off
                           /\ q.via = "item" => ("item_in_query" \in d.off \/ (~q.plain /\ ~d.names))
                           /\ q.via = "media" /\ ~q.plain => "trickplay_source_unaskable" \in d.off
                           /\ q.via = "media" /\ q.plain => ~d.source \/ "trickplay_source" \in d.off
  <1>1. d.abnormal \subseteq {"climbing", "backslash"}
    BY DEF DoorSpace
  <1>2. ASSUME NEW q, plainly(q), through(q)
        PROVE  Outcome(d, q, StandIn) = "served"
    <2> DEFINE h == Handle(d, q)
    <2>1. h \in Names \ d.off /\ h \in {"live_stream_on_bytes", "item_in_query", "trickplay_source_unaskable",
                                        "trickplay_source", "keyed", "rest"}
      <3>1. /\ h \in Names \ d.off
            /\ h \notin {"abnormal", "encoded_unreserved", "token_query", "encoded_on_bytes", "nonpchar_path",
                         "by_name_image", "splashscreen", "owned", "unkeyed"}
        BY <1>1, <1>2, MeetsOnly
      <3> HIDE DEF h
      <3>2. QED
        BY <3>1 DEF Names
    <2>2. /\ h = "live_stream_on_bytes" => q.via = "live"
          /\ h = "item_in_query" => q.via = "item" /\ (q.plain \/ d.names)
          /\ h = "trickplay_source_unaskable" => q.via = "media" /\ ~q.plain
          /\ h = "trickplay_source" => q.via = "media"
      BY MeetsOnly
    <2>3. h \in Forwarding
      <3> HIDE DEF h
      <3> QED
        BY <1>2, <2>1, <2>2 DEF Forwarding
    <2>4. ~(d.source /\ q.plain /\ h = "trickplay_source")
      <3> HIDE DEF h
      <3> QED
        BY <1>2, <2>1, <2>2
    <2>5. Carried(d, q) = "member" /\ Told(d, q) # "away"
      BY <1>2 DEF Carried, Presented, Told
    <2>6. QED
      BY <1>2, <2>3, <2>4, <2>5, SlipsThrough
  <1>3. LET q == Naming("live", closed) IN plainly(q) /\ q.via = "live"
    BY DEF Naming, Stream
  <1>4. LET q == Naming("item", closed) IN plainly(q) /\ q.via = "item"
    BY DEF Naming, Stream
  <1>5. LET q == [Naming("item", closed) EXCEPT !.plain = FALSE] IN plainly(q) /\ q.via = "item" /\ ~q.plain
    BY DEF Naming, Stream
  <1>6. LET q == [Tile(closed) EXCEPT !.plain = FALSE] IN plainly(q) /\ q.via = "media" /\ ~q.plain
    BY DEF Tile, Naming, Stream
  <1>7. LET q == Tile(closed) IN plainly(q) /\ q.via = "media" /\ q.plain
    BY DEF Tile, Naming, Stream
  <1>8. /\ Case("stream-with-a-live-stream-id", Naming("live", closed), REFUSE) \in Cases
        /\ Case("subtitle-of-another-item-named-in-the-query", Naming("item", closed), REFUSE) \in Cases
        /\ Case("subtitle-with-the-name-as-an-array", [Naming("item", closed) EXCEPT !.plain = FALSE], REFUSE) \in Cases
        /\ Case("trickplay-playlist-with-its-source-given-twice", [Tile(closed) EXCEPT !.plain = FALSE], REFUSE) \in Cases
        /\ Case("trickplay-playlist-naming-another-item-as-its-source", Tile(closed), REFUSE) \in Cases
    BY DEF Cases, Elsewhere, Sources
  <1> HIDE DEF plainly
  <1>9. QED
    BY <1>2, <1>3, <1>4, <1>5, <1>6, <1>7, <1>8, NoProblem

\* ... to the session Jellyfin will read, and to the client a request is from.
LEMMA CaughtPresenting ==
    ASSUME NEW d \in DoorSpace, d.passes, "keyed" \notin d.off, NEW placed
    PROVE  /\ "token_query" \in d.off => "stream-with-a-token-named-in-another-case" \in Problems(d, placed)
           /\ d.bearer /\ d.loose => "stream-with-a-field-smuggled-after-the-bearer-grant" \in Problems(d, placed)
           /\ ~d.bearer /\ d.guards => "stream-with-a-bearer-grant" \in Problems(d, placed)
           /\ ~d.tells => "proxy-naming-a-remote-client" \in Problems(d, placed)
  <1> DEFINE stream(q) == q.form = "normal" /\ q.item = open /\ q.token = "member" /\ q.route = "videos" /\ q.via = "none"
             away == [Stream EXCEPT !.from = "proxy", !.claims = "away"]
  <1>1. d.abnormal \subseteq {"climbing", "backslash"}
    BY DEF DoorSpace
  <1>2. ASSUME NEW q, stream(q), q.as = "spelled" => "token_query" \in d.off
        PROVE  Handle(d, q) \in {"keyed", "rest"}
    <2> DEFINE h == Handle(d, q)
    <2>1. /\ h \in Names \ d.off
          /\ h \notin {"abnormal", "encoded_unreserved", "encoded_on_bytes", "nonpchar_path", "live_stream_on_bytes",
                       "item_in_query", "by_name_image", "splashscreen", "trickplay_source_unaskable",
                       "trickplay_source", "owned", "unkeyed"}
          /\ h = "token_query" => q.as = "spelled"
      BY <1>1, <1>2, MeetsOnly
    <2> HIDE DEF h
    <2>2. h \in {"keyed", "rest"}
      BY <1>2, <2>1 DEF Names
    <2>3. QED
      BY <2>2 DEF h
  <1>3. ASSUME NEW q, stream(q), q.as = "spelled" => "token_query" \in d.off,
               Carried(d, q) = "member", Told(d, q) # "away"
        PROVE  Outcome(d, q, StandIn) = "served"
    BY <1>2, <1>3, SlipsThrough DEF Forwarding
  <1>4. /\ stream([Stream EXCEPT !.as = "spelled"]) /\ stream([Stream EXCEPT !.as = "bearer and more"])
        /\ stream([Stream EXCEPT !.as = "bearer"]) /\ stream(away) /\ away.as = "header"
        /\ away.claims = "away" /\ away.from = "proxy"
        /\ \A as : LET q == [Stream EXCEPT !.as = as] IN q.as = as /\ q.claims = "nobody" /\ q.from = "household"
    BY DEF Stream
  <1>5. /\ Case("stream-with-a-token-named-in-another-case", [Stream EXCEPT !.as = "spelled"], REFUSE) \in Cases
        /\ Case("stream-with-a-field-smuggled-after-the-bearer-grant", [Stream EXCEPT !.as = "bearer and more"], REFUSE) \in Cases
        /\ Case("stream-with-a-bearer-grant", [Stream EXCEPT !.as = "bearer"], PASS) \in Cases
        /\ Case("proxy-naming-a-remote-client", away, REFUSE) \in Cases
    BY DEF Cases, Presenting, Spelling, Claiming
  <1>6. ASSUME "token_query" \in d.off PROVE "stream-with-a-token-named-in-another-case" \in Problems(d, placed)
    <2> DEFINE q == [Stream EXCEPT !.as = "spelled"]
    <2>1. stream(q) /\ Carried(d, q) = "member" /\ Told(d, q) # "away"
      BY <1>4 DEF Carried, Told
    <2>2. Outcome(d, q, StandIn) = "served"
      <3> HIDE DEF q
      <3> QED
        BY <1>3, <1>6, <2>1
    <2>3. QED
      BY <1>5, <2>2, NoProblem
  <1>7. ASSUME d.bearer, d.loose PROVE "stream-with-a-field-smuggled-after-the-bearer-grant" \in Problems(d, placed)
    <2> DEFINE q == [Stream EXCEPT !.as = "bearer and more"]
    <2>1. stream(q) /\ q.as = "bearer and more"
      BY <1>4
    <2>2. Carried(d, q) = "member" /\ Told(d, q) # "away"
      BY <1>4, <1>7 DEF Carried, Presented, Told
    <2>3. Outcome(d, q, StandIn) = "served"
      <3> HIDE DEF q
      <3> QED
        BY <1>3, <2>1, <2>2
    <2>4. QED
      BY <1>5, <2>3, NoProblem
  <1>8. ASSUME ~d.bearer, d.guards
        PROVE  "stream-with-a-bearer-grant" \in Problems(d, placed)
    <2> DEFINE q == [Stream EXCEPT !.as = "bearer"]
    <2>1. stream(q) /\ q.as = "bearer"
      BY <1>4
    <2>2. Handle(d, q) = "keyed"
      <3> HIDE DEF q
      <3>1. Handle(d, q) \in {"keyed", "rest"}
        BY <1>2, <2>1
      <3>2. QED
        BY <1>8, <2>1, <3>1, MeetsOnly
    <2>3. Asks(d, q) = <<q.item>>
      BY <2>2 DEF Asks
    <2>4. Carried(d, q) = "nobody"
      BY <1>8, <2>1 DEF Carried, Presented
    <2>5. ~Grants(StandIn, Carried(d, q), Asks(d, q)[1], Told(d, q)) /\ 1 \in DOMAIN Asks(d, q)
      BY <2>3, <2>4 DEF Grants, StandIn
    <2>6. Outcome(d, q, StandIn) # "served"
      BY <2>5 DEF Outcome
    <2>7. QED
      BY <1>5, <2>6, NoProblem
  <1>9. ASSUME ~d.tells PROVE "proxy-naming-a-remote-client" \in Problems(d, placed)
    <2>1. Carried(d, away) = "member" /\ Told(d, away) # "away"
      BY <1>4, <1>9 DEF Carried, Presented, Told
    <2>2. Outcome(d, away, StandIn) = "served"
      <3> HIDE DEF away
      <3> QED
        BY <1>3, <1>4, <2>1
    <2>3. QED
      BY <1>5, <2>2, NoProblem
  <1>10. QED
    BY <1>6, <1>7, <1>8, <1>9

\* A door that tells Jellyfin of another client than the one that asks is caught
\* where it would pass; and so is one that passes nothing.
LEMMA CaughtTelling ==
    ASSUME NEW d \in DoorSpace, NEW placed
    PROVE  /\ ~d.passes => "public-information" \in Problems(d, placed)
           /\ "neighbour" \in d.trusts => "neighbour-claiming-a-remote-client" \in Problems(d, placed)
           /\ "household" \in d.trusts => Problems(d, placed) # {}
           /\ "proxy" \notin d.trusts => "proxy-naming-a-household-client" \in Problems(d, placed)
  <1> DEFINE household == [Stream EXCEPT !.claims = "away"]
             proxy == [Stream EXCEPT !.from = "proxy", !.claims = "household"]
             neighbour == [Stream EXCEPT !.from = "neighbour", !.claims = "away"]
  <1>1. /\ household.from = "household" /\ household.claims = "away"
        /\ proxy.from = "proxy" /\ proxy.claims = "household"
        /\ neighbour.from = "neighbour" /\ neighbour.claims = "away"
    BY DEF Stream
  <1>2. /\ Case("household-claiming-a-remote-client", household, PASS) \in Cases
        /\ Case("proxy-naming-a-household-client", proxy, PASS) \in Cases
        /\ Case("neighbour-claiming-a-remote-client", neighbour, PASS) \in Cases
        /\ Case("public-information", Nameless("open"), PASS) \in Cases
    BY DEF Cases, Claiming, Sources
  <1>3. "neighbour" \in d.trusts => Told(d, neighbour) # Client(neighbour)
    BY <1>1 DEF Told, Client
  <1>4. "household" \in d.trusts => Told(d, household) # "household"
    BY <1>1 DEF Told
  <1>5. "proxy" \notin d.trusts => Told(d, proxy) # Client(proxy)
    BY <1>1 DEF Told, Client
  <1>6. ~d.passes => Outcome(d, Nameless("open"), StandIn) # "served"
    BY DEF Outcome, Refuses
  <1> HIDE DEF household, proxy, neighbour
  <1>7. QED
    BY <1>1, <1>2, <1>3, <1>4, <1>5, <1>6, NoProblem

\* The cases that present nothing, which each find another of the handles missing.
LEMMA CaughtPresentingNothing ==
    ASSUME NEW d \in DoorSpace, d.passes, NEW placed
    PROVE  /\ ~d.guards \/ {"keyed", "unkeyed"} \subseteq d.off => "stream-presenting-nothing" \in Problems(d, placed)
           /\ {"owned", "unkeyed"} \subseteq d.off => "image-presenting-nothing" \in Problems(d, placed)
           /\ "by_name_image" \in d.off => "artist-image-by-name-presenting-nothing" \in Problems(d, placed)
           /\ "splashscreen" \in d.off => "splashscreen-presenting-nothing" \in Problems(d, placed)
           /\ "abnormal" \in d.off \/ "climbing" \notin d.abnormal =>
                 "stream-climbing-out-with-dot-segments" \in Problems(d, placed)
           /\ "backslash" \notin d.abnormal => "name-lookup-with-an-encoded-backslash" \in Problems(d, placed)
           /\ "encoded_on_bytes" \in d.off => "stream-with-an-encoded-slash" \in Problems(d, placed)
           /\ "nonpchar_path" \in d.off => "name-lookup-with-a-pipe" \in Problems(d, placed)
           /\ "encoded_unreserved" \in d.off => "stream-on-a-route-letter-encoded" \in Problems(d, placed)
  <1>1. ~d.guards \/ {"keyed", "unkeyed"} \subseteq d.off => "stream-presenting-nothing" \in Problems(d, placed)
    <2> DEFINE q == Nameless("videos")
    <2>1. Nothing(q) /\ q.route = "videos" /\ q.form = "normal"
      BY DEF Nothing, Nameless, Stream
    <2>2. Case("stream-presenting-nothing", q, REFUSE) \in Cases
      BY DEF Cases, Presenting
    <2> HIDE DEF q
    <2>3. QED
      BY <2>1, <2>2, CaughtForwarding
  <1>2. {"owned", "unkeyed"} \subseteq d.off => "image-presenting-nothing" \in Problems(d, placed)
    <2> DEFINE q == Nameless("items")
    <2>1. Nothing(q) /\ q.route = "items" /\ q.form = "normal"
      BY DEF Nothing, Nameless, Stream
    <2>2. Case("image-presenting-nothing", q, REFUSE) \in Cases
      BY DEF Cases, Presenting
    <2> HIDE DEF q
    <2>3. QED
      BY <2>1, <2>2, CaughtForwarding
  <1>3. "by_name_image" \in d.off => "artist-image-by-name-presenting-nothing" \in Problems(d, placed)
    <2> DEFINE q == Nameless("named")
    <2>1. Nothing(q) /\ q.route = "named" /\ q.form = "normal"
      BY DEF Nothing, Nameless, Stream
    <2>2. Case("artist-image-by-name-presenting-nothing", q, REFUSE) \in Cases
      BY DEF Cases, Elsewhere
    <2> HIDE DEF q
    <2>3. QED
      BY <2>1, <2>2, CaughtForwarding
  <1>4. "splashscreen" \in d.off => "splashscreen-presenting-nothing" \in Problems(d, placed)
    <2> DEFINE q == Nameless("splash")
    <2>1. Nothing(q) /\ q.route = "splash" /\ q.form = "normal"
      BY DEF Nothing, Nameless, Stream
    <2>2. Case("splashscreen-presenting-nothing", q, REFUSE) \in Cases
      BY DEF Cases, Elsewhere
    <2> HIDE DEF q
    <2>3. QED
      BY <2>1, <2>2, CaughtForwarding
  <1>5. "abnormal" \in d.off \/ "climbing" \notin d.abnormal => "stream-climbing-out-with-dot-segments" \in Problems(d, placed)
    <2> DEFINE q == [Nameless("videos") EXCEPT !.form = "climbing"]
    <2>1. Nothing(q) /\ q.route = "videos" /\ q.form = "climbing"
      BY DEF Nothing, Nameless, Stream
    <2>2. Case("stream-climbing-out-with-dot-segments", q, REFUSE) \in Cases
      BY DEF Cases, Spelling
    <2> HIDE DEF q
    <2>3. CASE "abnormal" \in d.off
      BY <2>1, <2>2, <2>3, CaughtForwarding
    <2>4. CASE q.form \notin d.abnormal
      BY <2>1, <2>2, <2>4, CaughtForwarding
    <2>5. QED
      BY <2>1, <2>3, <2>4
  <1>6. "backslash" \notin d.abnormal => "name-lookup-with-an-encoded-backslash" \in Problems(d, placed)
    <2> DEFINE q == [Nameless("open") EXCEPT !.form = "backslash"]
    <2>1. Nothing(q) /\ q.route = "open" /\ q.form = "backslash"
      BY DEF Nothing, Nameless, Stream
    <2>2. Case("name-lookup-with-an-encoded-backslash", q, REFUSE) \in Cases
      BY DEF Cases, Spelling
    <2> HIDE DEF q
    <2>3. QED
      BY <2>1, <2>2, CaughtForwarding
  <1>7. "encoded_on_bytes" \in d.off => "stream-with-an-encoded-slash" \in Problems(d, placed)
    <2> DEFINE q == [Nameless("videos") EXCEPT !.form = "encoded"]
    <2>1. Nothing(q) /\ q.route = "videos" /\ q.form = "encoded"
      BY DEF Nothing, Nameless, Stream
    <2>2. Case("stream-with-an-encoded-slash", q, REFUSE) \in Cases
      BY DEF Cases, Spelling
    <2> HIDE DEF q
    <2>3. QED
      BY <2>1, <2>2, CaughtForwarding
  <1>8. "nonpchar_path" \in d.off => "name-lookup-with-a-pipe" \in Problems(d, placed)
    <2> DEFINE q == [Nameless("open") EXCEPT !.form = "foreign"]
    <2>1. Nothing(q) /\ q.route = "open" /\ q.form = "foreign"
      BY DEF Nothing, Nameless, Stream
    <2>2. Case("name-lookup-with-a-pipe", q, REFUSE) \in Cases
      BY DEF Cases, Spelling
    <2> HIDE DEF q
    <2>3. QED
      BY <2>1, <2>2, CaughtForwarding
  <1>9. "encoded_unreserved" \in d.off => "stream-on-a-route-letter-encoded" \in Problems(d, placed)
    <2> DEFINE q == [Nameless("videos") EXCEPT !.form = "hidden"]
    <2>1. Nothing(q) /\ q.route = "videos" /\ q.form = "hidden"
      BY DEF Nothing, Nameless, Stream
    <2>2. Case("stream-on-a-route-letter-encoded", q, REFUSE) \in Cases
      BY DEF Cases, Spelling
    <2> HIDE DEF q
    <2>3. QED
      BY <2>1, <2>2, CaughtForwarding
  <1>10. QED
    BY <1>1, <1>2, <1>3, <1>4, <1>5, <1>6, <1>7, <1>8, <1>9

\* A door that has @unkeyed alone for a route that names an item refuses what it should
\* ask about.
LEMMA CaughtRefusing ==
    ASSUME NEW d \in DoorSpace, d.guards, "unkeyed" \notin d.off, NEW placed
    PROVE  /\ "keyed" \in d.off => "stream-with-the-member-session" \in Problems(d, placed)
           /\ "owned" \in d.off => "image-with-the-member-session" \in Problems(d, placed)
  <1>1. ASSUME NEW q, q.form = "normal", q.via = "none",
               \/ q.route = "videos" /\ "keyed" \in d.off
               \/ q.route = "items" /\ "owned" \in d.off
        PROVE  Outcome(d, q, StandIn) # "served"
    <2> DEFINE h == Handle(d, q)
    <2>1. h \notin {"rest", "keyed", "owned", "trickplay_source"}
      BY <1>1, MeetsOnly DEF Bytes
    <2> HIDE DEF h
    <2>2. Refuses(d, q)
      BY <2>1 DEF Refuses, h
    <2>3. QED
      BY <2>2 DEF Outcome
  <1>2. /\ Case("stream-with-the-member-session", Stream, PASS) \in Cases
        /\ Case("image-with-the-member-session", [Stream EXCEPT !.route = "items"], PASS) \in Cases
    BY DEF Cases, Presenting
  <1>3. /\ Stream.form = "normal" /\ Stream.via = "none" /\ Stream.route = "videos"
        /\ LET q == [Stream EXCEPT !.route = "items"] IN q.form = "normal" /\ q.via = "none" /\ q.route = "items"
    BY DEF Stream
  <1>4. QED
    BY <1>1, <1>2, <1>3, NoProblem

\* A door that is the shipped one but, maybe, for @unkeyed.
BarUnkeyed(d) ==
    /\ d.off \subseteq {"unkeyed"}
    /\ d.trusts = {"proxy"} /\ d.abnormal = {"climbing", "backslash"} /\ d.bearer = TRUE /\ d.loose = FALSE
    /\ d.guards = TRUE /\ d.passes = TRUE /\ d.tells = TRUE /\ d.source = TRUE /\ d.names = TRUE

\* The cases leave these: of all the doors that differ from the shipped one in any of
\* the things a door has, and in any number of them at once, only one that lacks @unkeyed
\* passes too.
LEMMA OnlyTheShippedPasses ==
    ASSUME NEW d \in DoorSpace, NEW placed, Problems(d, placed) = {}
    PROVE  BarUnkeyed(d)
  <1>1. d.passes /\ d.trusts \intersect {"neighbour", "household"} = {} /\ "proxy" \in d.trusts
    BY CaughtTelling
  <1>2. d.guards /\ {"climbing", "backslash"} \subseteq d.abnormal
    BY <1>1, CaughtPresentingNothing
  <1>3. "keyed" \notin d.off /\ "owned" \notin d.off
    <2>1. /\ "unkeyed" \in d.off => "keyed" \notin d.off /\ "owned" \notin d.off
      BY <1>1, CaughtPresentingNothing
    <2>2. "unkeyed" \notin d.off => "keyed" \notin d.off /\ "owned" \notin d.off
      BY <1>2, CaughtRefusing
    <2>3. QED
      BY <2>1, <2>2
  <1>4. d.names /\ d.source
    BY <1>1, <1>3, CaughtNaming
  <1>5. d.tells /\ d.bearer /\ ~d.loose
    BY <1>1, <1>2, <1>3, CaughtPresenting
  <1>6. \A h \in Names : h = "unkeyed" \/ h \notin d.off
    <2>1. "rest" \notin d.off
      BY DEF DoorSpace
    <2>2. /\ "by_name_image" \notin d.off /\ "splashscreen" \notin d.off /\ "abnormal" \notin d.off
          /\ "encoded_on_bytes" \notin d.off /\ "nonpchar_path" \notin d.off /\ "encoded_unreserved" \notin d.off
      BY <1>1, CaughtPresentingNothing
    <2>3. /\ "live_stream_on_bytes" \notin d.off /\ "item_in_query" \notin d.off
          /\ "trickplay_source_unaskable" \notin d.off /\ "trickplay_source" \notin d.off
      BY <1>1, <1>3, CaughtNaming
    <2>4. "token_query" \notin d.off
      BY <1>1, <1>3, CaughtPresenting
    <2>5. QED
      BY <1>3, <2>1, <2>2, <2>3, <2>4 DEF Names
  <1>7. {Handles[i] : i \in DOMAIN Handles} \subseteq Names
    BY DEF Handles, Names
  <1>8. QED
    <2>1. d.off \subseteq Names
      BY <1>7 DEF DoorSpace
    <2>2. /\ d.trusts \subseteq {"proxy", "neighbour", "household"} /\ d.abnormal \subseteq {"climbing", "backslash"}
          /\ d.bearer \in BOOLEAN /\ d.loose \in BOOLEAN
          /\ d.guards \in BOOLEAN /\ d.passes \in BOOLEAN /\ d.tells \in BOOLEAN
          /\ d.source \in BOOLEAN /\ d.names \in BOOLEAN
      BY DEF DoorSpace
    <2>3. d.off \subseteq {"unkeyed"}
      BY <1>6, <2>1
    <2>4. QED
      BY <1>1, <1>2, <1>4, <1>5, <2>2, <2>3 DEF BarUnkeyed

\* A door that lacks @unkeyed does what the shipped one does with every request that
\* does not come to it.
LEMMA LackingTheUnkeyed ==
    ASSUME NEW d \in DoorSpace, BarUnkeyed(d), NEW q \in Requests, Handle(Shipped, q) # "unkeyed"
    PROVE  Right(d, q)
  <1>1. /\ d.off \subseteq {"unkeyed"} /\ d.trusts = Shipped.trusts /\ d.abnormal = Shipped.abnormal
        /\ d.bearer = Shipped.bearer /\ d.loose = Shipped.loose /\ d.guards = Shipped.guards
        /\ d.passes = Shipped.passes /\ d.tells = Shipped.tells /\ d.source = Shipped.source
        /\ d.names = Shipped.names
    BY DEF BarUnkeyed, Shipped
  <1>2. \A h : Matches(d, h, q) <=> Matches(Shipped, h, q)
    BY <1>1 DEF Matches, On
  <1>3. PICK i \in DOMAIN Handles :
              /\ Handle(Shipped, q) = Handles[i] /\ Matches(Shipped, Handles[i], q)
              /\ \A j \in DOMAIN Handles : j < i => ~Matches(Shipped, Handles[j], q)
    BY FirstMatches
  <1>4. PICK k \in 1..15 :
              /\ Handle(d, q) = Handles[k] /\ Handles[k] \notin d.off /\ Matches(d, Handles[k], q)
              /\ \A j \in 1..15 : j < k => Handles[j] \in d.off \/ ~Matches(d, Handles[j], q)
    BY MeetsFirst
  <1>5. DOMAIN Handles = 1..15
    BY DEF Handles
  <1>6. ~(k < i)
    BY <1>2, <1>3, <1>4, <1>5
  <1>7. ~(i < k)
    BY <1>1, <1>2, <1>3, <1>4, <1>5
  <1>8. i = k
    BY <1>3, <1>4, <1>5, <1>6, <1>7
  <1>9. Handle(d, q) = Handle(Shipped, q)
    BY <1>3, <1>4, <1>8
  <1>10. /\ Asks(d, q) = Asks(Shipped, q) /\ Refuses(d, q) = Refuses(Shipped, q)
         /\ Carried(d, q) = Carried(Shipped, q) /\ Told(d, q) = Told(Shipped, q)
    <2>1. Asks(d, q) = Asks(Shipped, q) /\ Refuses(d, q) = Refuses(Shipped, q)
      BY <1>1, <1>9 DEF Asks, Refuses
    <2>2. Carried(d, q) = Carried(Shipped, q)
      BY <1>1 DEF Carried, Presented
    <2>3. Told(d, q) = Told(Shipped, q)
      BY <1>1 DEF Told
    <2>4. QED
      BY <2>1, <2>2, <2>3
  <1>11. Outcome(d, q, StandIn) = Outcome(Shipped, q, StandIn)
    BY <1>10 DEF Outcome
  <1>12. QED
    BY <1>10, <1>11, TheShippedDoorIsRight DEF Right

\* So what passes is right of every request that @unkeyed is not there for.
LEMMA PassingIsRight ==
    ASSUME NEW d \in DoorSpace, NEW placed, Problems(d, placed) = {},
           NEW q \in Requests, Handle(Shipped, q) # "unkeyed"
    PROVE  Right(d, q)
  BY OnlyTheShippedPasses, LackingTheUnkeyed

\* Each of the doors made from the shipped one, and broken, is caught by the case it
\* must be caught by.
LEMMA BrokenAreCaught ==
    ASSUME NEW placed
    PROVE  \A b \in CaughtBy : b \in Problems(Broken(Shipped, b), placed)
  <1>1. \A h \in Names \ {"rest"} : h \in {Handles[i] : i \in DOMAIN Handles} \ {"rest"}
    <2>1. /\ Handles[1] = "abnormal" /\ Handles[2] = "encoded_unreserved" /\ Handles[3] = "token_query"
          /\ Handles[4] = "encoded_on_bytes" /\ Handles[5] = "nonpchar_path" /\ Handles[6] = "live_stream_on_bytes"
          /\ Handles[7] = "item_in_query" /\ Handles[8] = "by_name_image" /\ Handles[9] = "splashscreen"
          /\ Handles[10] = "trickplay_source_unaskable" /\ Handles[11] = "trickplay_source" /\ Handles[12] = "keyed"
          /\ Handles[13] = "owned" /\ Handles[14] = "unkeyed" /\ DOMAIN Handles = 1..15
      BY DEF Handles
    <2> HIDE DEF Handles
    <2>2. \A h \in Names \ {"rest"} : \E i \in 1..15 : Handles[i] = h
      BY <2>1 DEF Names
    <2>3. QED
      BY <2>1, <2>2
  <1>2. \A h \in Names \ {"rest"} : /\ Lacking(Shipped, h) \in DoorSpace /\ Lacking(Shipped, h).passes = TRUE
                               /\ Lacking(Shipped, h).off = {h}
    BY <1>1 DEF Lacking, Shipped, DoorSpace
  <1>3. "stream-presenting-nothing" \in Problems([Shipped EXCEPT !.guards = FALSE], placed)
    <2> DEFINE d == [Shipped EXCEPT !.guards = FALSE]
    <2>1. d \in DoorSpace /\ d.guards = FALSE /\ d.passes
      BY DEF Shipped, DoorSpace
    <2> HIDE DEF d
    <2>2. "stream-presenting-nothing" \in Problems(d, placed)
      BY <2>1, CaughtPresentingNothing
    <2>3. QED
      BY <2>2 DEF d
  <1>4. "public-information" \in Problems([Shipped EXCEPT !.passes = FALSE], placed)
    <2> DEFINE d == [Shipped EXCEPT !.passes = FALSE]
    <2>1. d \in DoorSpace /\ d.passes = FALSE
      BY DEF Shipped, DoorSpace
    <2> HIDE DEF d
    <2>2. "public-information" \in Problems(d, placed)
      BY <2>1, CaughtTelling
    <2>3. QED
      BY <2>2 DEF d
  <1>5. "neighbour-claiming-a-remote-client" \in Problems([Shipped EXCEPT !.trusts = IF "proxy" \in @ THEN {"proxy", "neighbour", "household"} ELSE @], placed)
    <2> DEFINE d == [Shipped EXCEPT !.trusts = IF "proxy" \in @ THEN {"proxy", "neighbour", "household"} ELSE @]
    <2>1. d \in DoorSpace /\ "neighbour" \in d.trusts
      BY DEF Shipped, DoorSpace
    <2> HIDE DEF d
    <2>2. "neighbour-claiming-a-remote-client" \in Problems(d, placed)
      BY <2>1, CaughtTelling
    <2>3. QED
      BY <2>2 DEF d
  <1>6. "proxy-naming-a-remote-client" \in Problems([Shipped EXCEPT !.tells = FALSE], placed)
    <2> DEFINE d == [Shipped EXCEPT !.tells = FALSE]
    <2>1. d \in DoorSpace /\ d.tells = FALSE /\ d.passes /\ d.off = {}
      BY DEF Shipped, DoorSpace
    <2> HIDE DEF d
    <2>2. "proxy-naming-a-remote-client" \in Problems(d, placed)
      BY <2>1, CaughtPresenting
    <2>3. QED
      BY <2>2 DEF d
  <1>7. "stream-with-a-bearer-grant" \in Problems([Shipped EXCEPT !.bearer = FALSE], placed)
    <2> DEFINE d == [Shipped EXCEPT !.bearer = FALSE]
    <2>1. d \in DoorSpace /\ d.bearer = FALSE /\ d.passes /\ d.guards /\ d.off = {}
      BY DEF Shipped, DoorSpace
    <2> HIDE DEF d
    <2>2. "stream-with-a-bearer-grant" \in Problems(d, placed)
      BY <2>1, CaughtPresenting
    <2>3. QED
      BY <2>2 DEF d
  <1>8. "stream-with-a-field-smuggled-after-the-bearer-grant" \in Problems([Shipped EXCEPT !.loose = TRUE], placed)
    <2> DEFINE d == [Shipped EXCEPT !.loose = TRUE]
    <2>1. d \in DoorSpace /\ d.bearer = TRUE /\ d.loose = TRUE /\ d.passes /\ d.off = {}
      BY DEF Shipped, DoorSpace
    <2> HIDE DEF d
    <2>2. "stream-with-a-field-smuggled-after-the-bearer-grant" \in Problems(d, placed)
      BY <2>1, CaughtPresenting
    <2>3. QED
      BY <2>2 DEF d
  <1>9. "stream-climbing-out-with-dot-segments" \in Problems(Lacking(Shipped, "abnormal"), placed)
    BY <1>2, CaughtPresentingNothing DEF Names
  <1>10. "stream-with-an-encoded-slash" \in Problems(Lacking(Shipped, "encoded_on_bytes"), placed)
    BY <1>2, CaughtPresentingNothing DEF Names
  <1>11. "name-lookup-with-an-encoded-backslash" \in Problems([Shipped EXCEPT !.abnormal = @ \ {"backslash"}], placed)
    <2> DEFINE d == [Shipped EXCEPT !.abnormal = @ \ {"backslash"}]
    <2>1. d \in DoorSpace /\ "backslash" \notin d.abnormal /\ d.passes
      BY DEF Shipped, DoorSpace
    <2> HIDE DEF d
    <2>2. "name-lookup-with-an-encoded-backslash" \in Problems(d, placed)
      BY <2>1, CaughtPresentingNothing
    <2>3. QED
      BY <2>2 DEF d
  <1>12. "name-lookup-with-a-pipe" \in Problems(Lacking(Shipped, "nonpchar_path"), placed)
    BY <1>2, CaughtPresentingNothing DEF Names
  <1>13. "stream-with-a-live-stream-id" \in Problems(Lacking(Shipped, "live_stream_on_bytes"), placed)
    BY <1>2, CaughtNaming DEF Names
  <1>14. "stream-with-a-token-named-in-another-case" \in Problems(Lacking(Shipped, "token_query"), placed)
    BY <1>2, CaughtPresenting DEF Names
  <1>15. "stream-on-a-route-letter-encoded" \in Problems(Lacking(Shipped, "encoded_unreserved"), placed)
    BY <1>2, CaughtPresentingNothing DEF Names
  <1>16. "trickplay-playlist-naming-another-item-as-its-source" \in Problems([Shipped EXCEPT !.source = @ /\ "trickplay_source" \in Shipped.off], placed)
    <2> DEFINE d == [Shipped EXCEPT !.source = @ /\ "trickplay_source" \in Shipped.off]
    <2>1. d \in DoorSpace /\ d.source = FALSE /\ d.passes /\ d.off = {}
      BY DEF Shipped, DoorSpace
    <2> HIDE DEF d
    <2>2. "trickplay-playlist-naming-another-item-as-its-source" \in Problems(d, placed)
      BY <2>1, CaughtNaming
    <2>3. QED
      BY <2>2 DEF d
  <1>17. "subtitle-of-another-item-named-in-the-query" \in Problems(Lacking(Shipped, "item_in_query"), placed)
    BY <1>2, CaughtNaming DEF Names
  <1>18. "subtitle-with-the-name-as-an-array" \in Problems([Shipped EXCEPT !.names = FALSE], placed)
    <2> DEFINE d == [Shipped EXCEPT !.names = FALSE]
    <2>1. d \in DoorSpace /\ d.names = FALSE /\ d.passes /\ d.off = {}
      BY DEF Shipped, DoorSpace
    <2> HIDE DEF d
    <2>2. "subtitle-with-the-name-as-an-array" \in Problems(d, placed)
      BY <2>1, CaughtNaming
    <2>3. QED
      BY <2>2 DEF d
  <1>19. "artist-image-by-name-presenting-nothing" \in Problems(Lacking(Shipped, "by_name_image"), placed)
    BY <1>2, CaughtPresentingNothing DEF Names
  <1>20. \A x \in BROKEN(Shipped) : x[2] \in Problems(x[1], placed)
    <2> DEFINE caught(x) == x[2] \in Problems(x[1], placed)
    <2>1. \A d, name : caught(<<d, name>>) <=> name \in Problems(d, placed)
      OBVIOUS
    <2> HIDE DEF caught
    <2>2. /\ caught(<<[Shipped EXCEPT !.guards = FALSE], "stream-presenting-nothing">>)
          /\ caught(<<[Shipped EXCEPT !.passes = FALSE], "public-information">>)
          /\ caught(<<[Shipped EXCEPT !.trusts = IF "proxy" \in @ THEN {"proxy", "neighbour", "household"} ELSE @], "neighbour-claiming-a-remote-client">>)
          /\ caught(<<[Shipped EXCEPT !.tells = FALSE], "proxy-naming-a-remote-client">>)
          /\ caught(<<[Shipped EXCEPT !.bearer = FALSE], "stream-with-a-bearer-grant">>)
          /\ caught(<<[Shipped EXCEPT !.loose = TRUE], "stream-with-a-field-smuggled-after-the-bearer-grant">>)
          /\ caught(<<Lacking(Shipped, "abnormal"), "stream-climbing-out-with-dot-segments">>)
          /\ caught(<<Lacking(Shipped, "encoded_on_bytes"), "stream-with-an-encoded-slash">>)
          /\ caught(<<[Shipped EXCEPT !.abnormal = @ \ {"backslash"}], "name-lookup-with-an-encoded-backslash">>)
          /\ caught(<<Lacking(Shipped, "nonpchar_path"), "name-lookup-with-a-pipe">>)
          /\ caught(<<Lacking(Shipped, "live_stream_on_bytes"), "stream-with-a-live-stream-id">>)
          /\ caught(<<Lacking(Shipped, "token_query"), "stream-with-a-token-named-in-another-case">>)
          /\ caught(<<Lacking(Shipped, "encoded_unreserved"), "stream-on-a-route-letter-encoded">>)
          /\ caught(<<[Shipped EXCEPT !.source = @ /\ "trickplay_source" \in Shipped.off], "trickplay-playlist-naming-another-item-as-its-source">>)
          /\ caught(<<Lacking(Shipped, "item_in_query"), "subtitle-of-another-item-named-in-the-query">>)
          /\ caught(<<[Shipped EXCEPT !.names = FALSE], "subtitle-with-the-name-as-an-array">>)
          /\ caught(<<Lacking(Shipped, "by_name_image"), "artist-image-by-name-presenting-nothing">>)
      BY <2>1, <1>3, <1>4, <1>5, <1>6, <1>7, <1>8, <1>9, <1>10, <1>11,
         <1>12, <1>13, <1>14, <1>15, <1>16, <1>17, <1>18, <1>19
    <2>3. \A x \in BROKEN(Shipped) : caught(x)
      BY <2>2, Zenon DEF BROKEN
    <2>4. QED
      BY <2>3 DEF caught
  <1>21. ASSUME NEW b \in CaughtBy PROVE b \in Problems(Broken(Shipped, b), placed)
    <2>1. \E x \in BROKEN(Shipped) : x[2] = b
      BY DEF CaughtBy
    <2> DEFINE chosen == CHOOSE x \in BROKEN(Shipped) : x[2] = b
    <2>2. chosen \in BROKEN(Shipped) /\ chosen[2] = b
      BY <2>1
    <2>3. QED
      BY <1>20, <2>2 DEF Broken
  <1>22. QED
    BY <1>21

\* What a door must do in a case does not depend on the door.
Due(c) ==
    LET q == c.request
        grants(i) == Grants(StandIn, Presented(Shipped, q), i, For(q)) IN
    \/ /\ c.expect = PASS
       /\ ~Unaskable(q) /\ (q.route = "open" \/ (grants(q.item) /\ grants(Serves(q))))
       /\ For(q) = Client(q)
    \/ /\ c.expect = REFUSE
       /\ Unaskable(q) \/ (q.route # "open" /\ ~grants(Serves(q)))

\* One case is due where the fields of its request say so.
LEMMA DueByFields ==
    ASSUME NEW name, NEW q
    PROVE  LET granted == q.item = open /\ Serves(q) = open /\ Presented(Shipped, q) = "member" /\ For(q) # "away" IN
           /\ /\ ~Unaskable(q) /\ (q.route = "open" \/ granted)
              /\ For(q) = Client(q)
              => Due(Case(name, q, PASS))
           /\ /\ Unaskable(q) \/ (q.route # "open" /\ (Serves(q) # open \/ Presented(Shipped, q) # "member" \/ For(q) = "away"))
              => Due(Case(name, q, REFUSE))
  <1>1. \A expect : Case(name, q, expect).request = q /\ Case(name, q, expect).expect = expect
    BY DEF Case
  <1>2. ASSUME NEW session, NEW i, NEW client
        PROVE  Grants(StandIn, session, i, client) <=> session = "member" /\ i = open /\ client # "away"
    BY DEF Grants, StandIn
  <1>3. QED
    BY <1>1, <1>2 DEF Due

LEMMA CasesAreDue == \A c \in Cases : Due(c)
  <1>1. Due(Case("stream-presenting-nothing", Nameless("videos"), REFUSE))
    BY DueByFields, CheckAssumption DEF Nameless, Stream, Unaskable, Serves, For, Client, Presented, Shipped, Bytes
  <1>2. Due(Case("stream-with-the-member-session", Stream, PASS))
    BY DueByFields, CheckAssumption DEF Stream, Unaskable, Serves, For, Client, Presented, Shipped, Bytes
  <1>3. Due(Case("stream-outside-the-member-libraries", [Stream EXCEPT !.item = closed], REFUSE))
    BY DueByFields, CheckAssumption DEF Stream, Unaskable, Serves, For, Client, Presented, Shipped, Bytes
  <1>4. Due(Case("stream-with-an-unknown-token", [Stream EXCEPT !.token = "unknown"], REFUSE))
    BY DueByFields, CheckAssumption DEF Stream, Unaskable, Serves, For, Client, Presented, Shipped, Bytes
  <1>5. Due(Case("stream-with-a-bearer-grant", [Stream EXCEPT !.as = "bearer"], PASS))
    BY DueByFields, CheckAssumption DEF Stream, Unaskable, Serves, For, Client, Presented, Shipped, Bytes
  <1>6. Due(Case("stream-outside-the-member-libraries-with-a-bearer-grant", [Stream EXCEPT !.as = "bearer", !.item = closed], REFUSE))
    BY DueByFields, CheckAssumption DEF Stream, Unaskable, Serves, For, Client, Presented, Shipped, Bytes
  <1>7. Due(Case("stream-with-a-field-smuggled-after-the-bearer-grant", [Stream EXCEPT !.as = "bearer and more"], REFUSE))
    BY DueByFields, CheckAssumption DEF Stream, Unaskable, Serves, For, Client, Presented, Shipped, Bytes
  <1>8. Due(Case("stream-with-apikey-in-the-query", [Stream EXCEPT !.as = "query"], PASS))
    BY DueByFields, CheckAssumption DEF Stream, Unaskable, Serves, For, Client, Presented, Shipped, Bytes
  <1>9. Due(Case("stream-outside-the-member-libraries-with-the-query", [Stream EXCEPT !.as = "query", !.item = closed], REFUSE))
    BY DueByFields, CheckAssumption DEF Stream, Unaskable, Serves, For, Client, Presented, Shipped, Bytes
  <1>10. Due(Case("hls-playlist-with-the-member-session", Naming("media", open), PASS))
    BY DueByFields, CheckAssumption DEF Naming, Stream, Unaskable, Serves, For, Client, Presented, Shipped, Bytes
  <1>11. Due(Case("image-presenting-nothing", Nameless("items"), REFUSE))
    BY DueByFields, CheckAssumption DEF Nameless, Stream, Unaskable, Serves, For, Client, Presented, Shipped, Bytes
  <1>12. Due(Case("image-with-the-member-session", [Stream EXCEPT !.route = "items"], PASS))
    BY DueByFields, CheckAssumption DEF Stream, Unaskable, Serves, For, Client, Presented, Shipped, Bytes
  <1>13. Due(Case("image-outside-the-member-libraries", [Stream EXCEPT !.route = "items", !.item = closed], REFUSE))
    BY DueByFields, CheckAssumption DEF Stream, Unaskable, Serves, For, Client, Presented, Shipped, Bytes
  <1>14. \A c \in Presenting : Due(c)
    BY <1>1, <1>2, <1>3, <1>4, <1>5, <1>6, <1>7, <1>8, <1>9, <1>10, <1>11, <1>12, <1>13, Zenon DEF Presenting
  <1>15. Due(Case("id-in-braces", [Nameless("odd") EXCEPT !.form = "dressed"], REFUSE))
    BY DueByFields, CheckAssumption DEF Nameless, Stream, Unaskable, Serves, For, Client, Presented, Shipped, Bytes
  <1>16. Due(Case("stream-climbing-out-with-dot-segments", [Nameless("videos") EXCEPT !.form = "climbing"], REFUSE))
    BY DueByFields, CheckAssumption DEF Nameless, Stream, Unaskable, Serves, For, Client, Presented, Shipped, Bytes
  <1>17. Due(Case("stream-with-an-encoded-slash", [Nameless("videos") EXCEPT !.form = "encoded"], REFUSE))
    BY DueByFields, CheckAssumption DEF Nameless, Stream, Unaskable, Serves, For, Client, Presented, Shipped, Bytes
  <1>18. Due(Case("download-with-an-encoded-slash", [Nameless("items") EXCEPT !.form = "encoded"], REFUSE))
    BY DueByFields, CheckAssumption DEF Nameless, Stream, Unaskable, Serves, For, Client, Presented, Shipped, Bytes
  <1>19. Due(Case("discovery-with-an-encoded-query", [Stream EXCEPT !.route = "open"], PASS))
    BY DueByFields, CheckAssumption DEF Stream, Unaskable, Serves, For, Client, Presented, Shipped, Bytes
  <1>20. Due(Case("name-lookup-with-an-encoded-backslash", [Nameless("open") EXCEPT !.form = "backslash"], REFUSE))
    BY DueByFields, CheckAssumption DEF Nameless, Stream, Unaskable, Serves, For, Client, Presented, Shipped, Bytes
  <1>21. Due(Case("stream-with-a-token-named-in-another-case", [Stream EXCEPT !.as = "spelled"], REFUSE))
    BY DueByFields, CheckAssumption DEF Stream, Unaskable, Serves, For, Client, Presented, Shipped, Bytes
  <1>22. Due(Case("name-lookup-with-a-pipe", [Nameless("open") EXCEPT !.form = "foreign"], REFUSE))
    BY DueByFields, CheckAssumption DEF Nameless, Stream, Unaskable, Serves, For, Client, Presented, Shipped, Bytes
  <1>23. Due(Case("stream-on-a-route-letter-encoded", [Nameless("videos") EXCEPT !.form = "hidden"], REFUSE))
    BY DueByFields, CheckAssumption DEF Nameless, Stream, Unaskable, Serves, For, Client, Presented, Shipped, Bytes
  <1>24. \A c \in Spelling : Due(c)
    BY <1>15, <1>16, <1>17, <1>18, <1>19, <1>20, <1>21, <1>22, <1>23, Zenon DEF Spelling
  <1>25. Due(Case("stream-with-a-live-stream-id", Naming("live", closed), REFUSE))
    BY DueByFields, CheckAssumption DEF Naming, Stream, Unaskable, Serves, For, Client, Presented, Shipped, Bytes
  <1>26. Due(Case("subtitle-of-another-item-named-in-the-query", Naming("item", closed), REFUSE))
    BY DueByFields, CheckAssumption DEF Naming, Stream, Unaskable, Serves, For, Client, Presented, Shipped, Bytes
  <1>27. Due(Case("subtitle-with-the-name-as-an-array", [Naming("item", closed) EXCEPT !.plain = FALSE], REFUSE))
    BY DueByFields, CheckAssumption DEF Naming, Stream, Unaskable, Serves, For, Client, Presented, Shipped, Bytes
  <1>28. Due(Case("artist-image-by-name-presenting-nothing", Nameless("named"), REFUSE))
    BY DueByFields, CheckAssumption DEF Nameless, Stream, Unaskable, Serves, For, Client, Presented, Shipped, Bytes
  <1>29. Due(Case("splashscreen-presenting-nothing", Nameless("splash"), REFUSE))
    BY DueByFields, CheckAssumption DEF Nameless, Stream, Unaskable, Serves, For, Client, Presented, Shipped, Bytes
  <1>30. \A c \in Elsewhere : Due(c)
    BY <1>25, <1>26, <1>27, <1>28, <1>29, Zenon DEF Elsewhere
  <1>31. Due(Case("trickplay-playlist-of-its-own-source", Tile(open), PASS))
    BY DueByFields, CheckAssumption DEF Naming, Stream, Tile, Unaskable, Serves, For, Client, Presented, Shipped, Bytes
  <1>32. Due(Case("trickplay-playlist-naming-another-item-as-its-source", Tile(closed), REFUSE))
    BY DueByFields, CheckAssumption DEF Naming, Stream, Tile, Unaskable, Serves, For, Client, Presented, Shipped, Bytes
  <1>33. Due(Case("trickplay-playlist-with-its-source-given-twice", [Tile(closed) EXCEPT !.plain = FALSE], REFUSE))
    BY DueByFields, CheckAssumption DEF Naming, Stream, Tile, Unaskable, Serves, For, Client, Presented, Shipped, Bytes
  <1>34. Due(Case("catalogue-with-the-member-session", [Stream EXCEPT !.route = "open"], PASS))
    BY DueByFields, CheckAssumption DEF Stream, Unaskable, Serves, For, Client, Presented, Shipped, Bytes
  <1>35. Due(Case("public-information", Nameless("open"), PASS))
    BY DueByFields, CheckAssumption DEF Nameless, Stream, Unaskable, Serves, For, Client, Presented, Shipped, Bytes
  <1>36. \A c \in Sources : Due(c)
    BY <1>31, <1>32, <1>33, <1>34, <1>35, Zenon DEF Sources
  <1>37. Due(Case("household-claiming-a-remote-client", [Stream EXCEPT !.claims = "away"], PASS))
    BY DueByFields, CheckAssumption DEF Stream, Unaskable, Serves, For, Client, Presented, Shipped, Bytes
  <1>38. Due(Case("proxy-naming-a-remote-client", [Stream EXCEPT !.from = "proxy", !.claims = "away"], REFUSE))
    BY DueByFields, CheckAssumption DEF Stream, Unaskable, Serves, For, Client, Presented, Shipped, Bytes
  <1>39. Due(Case("proxy-naming-a-household-client", [Stream EXCEPT !.from = "proxy", !.claims = "household"], PASS))
    BY DueByFields, CheckAssumption DEF Stream, Unaskable, Serves, For, Client, Presented, Shipped, Bytes
  <1>40. Due(Case("neighbour-claiming-a-remote-client", [Stream EXCEPT !.from = "neighbour", !.claims = "away"], PASS))
    BY DueByFields, CheckAssumption DEF Stream, Unaskable, Serves, For, Client, Presented, Shipped, Bytes
  <1>41. \A c \in Claiming : Due(c)
    BY <1>37, <1>38, <1>39, <1>40, Zenon DEF Claiming
  <1>42. QED
    BY <1>14, <1>24, <1>30, <1>36, <1>41 DEF Cases

\* A door that is right of every request there is has no problem with the cases, where
\* it reaches Jellyfin from its own address.
LEMMA ProblemsAreWrongs ==
    ASSUME NEW d, \A q \in Requests : Right(d, q)
    PROVE  Problems(d, TRUE) = {}
  <1>1. ASSUME NEW c \in Cases
        PROVE  Outcome(d, c.request, StandIn) = c.expect /\ (c.expect = PASS => Told(d, c.request) = Client(c.request))
    <2> DEFINE q == c.request
    <2>1. Right(d, q) /\ Due(c)
      BY CheckAssumption, CasesAreDue
    <2>2. Outcome(d, q, StandIn) \in {PASS, REFUSE} /\ PASS # REFUSE
      BY DEF Outcome, PASS, REFUSE
    <2>3. Serves(q) \in {q.item, Serves(q)}
      OBVIOUS
    <2>4. CASE c.expect = PASS
      <3>1. /\ ~Unaskable(q) /\ For(q) = Client(q)
            /\ q.route = "open" \/ \A i \in {q.item, Serves(q)} : Grants(StandIn, Presented(Shipped, q), i, For(q))
        BY <2>1, <2>2, <2>4 DEF Due
      <3>2. Outcome(d, q, StandIn) = PASS
        BY <2>1, <3>1 DEF Right
      <3>3. Told(d, q) = For(q)
        BY <2>1, <3>2 DEF Right
      <3>4. QED
        BY <2>4, <3>1, <3>2, <3>3
    <2>5. CASE c.expect = REFUSE
      <3>1. Unaskable(q) \/ (q.route # "open" /\ ~Grants(StandIn, Presented(Shipped, q), Serves(q), For(q)))
        BY <2>1, <2>2, <2>5 DEF Due
      <3>2. Outcome(d, q, StandIn) # PASS
        BY <2>1, <3>1 DEF Right
      <3>3. QED
        BY <2>2, <2>5, <3>2
    <2>6. QED
      BY <2>1, <2>4, <2>5 DEF Due
  <1>2. Wrongs(d) = {}
    BY <1>1 DEF Wrongs
  <1>3. \A c \in Passed(d) : Told(d, c.request) = Client(c.request)
    BY <1>1 DEF Passed
  <1>4. Mistold(d, TRUE) = {}
    BY <1>3 DEF Mistold
  <1>5. Households(d) = {"household"}
    <2>1. \A told \in Households(d) : told = "household"
      BY <1>3 DEF Households, Client
    <2>2. Case("stream-with-the-member-session", Stream, PASS) \in Cases
      BY DEF Cases, Presenting
    <2>3. \E c \in Passed(d) : c.request.from = "household"
      <3>1. LET c == Case("stream-with-the-member-session", Stream, PASS)
            IN  c.expect = PASS /\ c.request.from = "household"
        BY DEF Case, Stream
      <3>2. QED
        BY <1>2, <2>2, <3>1 DEF Passed
    <2>4. Households(d) # {}
      BY <2>3 DEF Households
    <2>5. QED
      BY <2>1, <2>4
  <1>6. QED
    BY <1>2, <1>4, <1>5 DEF Problems
-----------------------------------------------------------------------------
\* What a run has found wrong by the step it is at, where nothing was raised: a
\* recording that does not agree, and, once the door was asked, a case it fails or
\* a rig that is not as it should be.
Found(r, agreed) ==
    CASE r.mode = "check" /\ r.pc \in {"silence", "teardown", "over"} ->
            ~agreed \/ ~r.set \/ Problems(r.door, TRUE) # {}
      [] r.mode = "record" /\ r.pc \in {"make", "judge"} -> FALSE
      [] OTHER -> ~agreed

\* The self-test of another door than the shipped one may find what it likes.
Weighed(r, agreed) ==
    /\ r.door \in DoorSpace
    /\ r.pc = "silence" => r.mode = "check"
    /\ r.mode = "self-test" /\ r.pc \in {"make", "judge"} => r.broken # {}
    /\ r.pc # "off" /\ ~r.raised /\ (r.mode = "self-test" => r.pc = "make" \/ r.door = Shipped) =>
          (r.problems <=> Found(r, agreed))

VerdictInv == Weighed(rig, agree) /\ VerdictHolds

\* What a run at any of its steps found is all a verdict needs.
LEMMA StillWeighed ==
    ASSUME Weighed(rig, agree)', rig'.pc # "off"
    PROVE  VerdictInv'
  BY DEF VerdictInv, VerdictHolds, At

\* What is raised is said to be, whatever was found.
LEMMA RaisedIsWeighed ==
    ASSUME NEW r, DOMAIN r = Fields, r.door \in DoorSpace, NEW agreed
    PROVE  Weighed(Raised(r), agreed)
  <1>1. Raised(r).pc = "teardown" /\ Raised(r).raised = TRUE /\ Raised(r).door = r.door
    BY DEF Raised, Fields
  <1>2. QED
    BY <1>1 DEF Weighed

LEMMA ShippedIsADoor == Shipped \in DoorSpace
  BY DEF Shipped, DoorSpace

\* Nor does it matter what was found where a step fails, or is interrupted.
LEMMA FailsWeighs ==
    ASSUME RigInv, VerdictInv, rig.pc \in {"make", "judge", "silence"}, NEW o,
           rig' = Raised(rig) \/ rig' = Raised(Keep(rig, o))
    PROVE  VerdictInv'
  <1> DEFINE kept == Keep(rig, o)
  <1>1. /\ DOMAIN rig = Fields /\ DOMAIN kept = Fields
        /\ kept.door = rig.door /\ rig.door \in DoorSpace
    BY KeptIsListed, AsItIs DEF VerdictInv, Weighed, Fields
  <1> HIDE DEF kept
  <1>2. Weighed(Raised(rig), agree') /\ Weighed(Raised(kept), agree')
    BY <1>1, RaisedIsWeighed
  <1>3. Raised(rig).pc = "teardown" /\ Raised(kept).pc = "teardown"
    BY <1>1 DEF Raised, Fields
  <1>4. Weighed(rig, agree)' /\ rig'.pc # "off"
    BY <1>2, <1>3 DEF kept
  <1>5. QED
    BY <1>4, StillWeighed

\* Where a run is made, nothing is found yet; it may only fail, or get its door.
LEMMA MakeWeighs ==
    ASSUME RigInv, VerdictInv, Make
    PROVE  VerdictInv'
  <1> DEFINE o == Head(rig.left)
             kept == Keep(rig, o)
             pc == IF Len(rig.left) = 1 THEN "judge" ELSE "make"
             on == [kept EXCEPT !.left = Tail(@), !.pc = pc]
  <1>1. /\ rig.pc = "make" /\ agree' = agree
        /\ Fails(o) \/ rig' = on \/ \E d \in Doors : rig' = [on EXCEPT !.door = d]
    BY DEF Make, At
  <1>2. /\ DOMAIN rig = Fields /\ DOMAIN kept = Fields
        /\ \A f \in Fields \ {"made", "listed"} : kept[f] = rig[f]
    BY <1>1, KeptIsListed, AsItIs
  <1>3. kept.door = rig.door /\ rig.door \in DoorSpace
    BY <1>2 DEF VerdictInv, Weighed, Fields
  <1>4. CASE Fails(o)
    BY <1>1, <1>4, FailsWeighs DEF Fails, Raise
  <1>5. CASE rig' = on \/ \E d \in Doors : rig' = [on EXCEPT !.door = d]
    <2>1. pc \in {"make", "judge"}
      OBVIOUS
    <2> HIDE DEF kept, pc
    <2>2. DOMAIN on = Fields /\ on.pc = pc /\ \A f \in Fields \ {"left", "pc"} : on[f] = kept[f]
      BY <1>2 DEF Fields
    <2> HIDE DEF on
    <2>3. /\ DOMAIN rig' = Fields /\ rig'.pc = pc /\ \A f \in Fields \ {"left", "pc", "door"} : rig'[f] = kept[f]
          /\ rig'.door = kept.door \/ rig'.door \in Doors
      <3>1. CASE rig' = on
        BY <2>2, <3>1 DEF Fields
      <3>2. CASE \E d \in Doors : rig' = [on EXCEPT !.door = d]
        <4>1. PICK d \in Doors : rig' = [on EXCEPT !.door = d]
          BY <3>2
        <4>2. QED
          BY <2>2, <4>1 DEF Fields
      <3>3. QED
        BY <1>5, <3>1, <3>2
    <2>4. /\ rig'.mode = rig.mode /\ rig'.problems = rig.problems /\ rig'.raised = rig.raised
          /\ rig'.broken = rig.broken
      BY <1>2, <2>3 DEF Fields
    <2>5. rig'.door \in DoorSpace
      BY <1>3, <2>3, CheckAssumption
    <2>6. Found(rig', agree') <=> Found(rig, agree)
      BY <1>1, <2>1, <2>3, <2>4 DEF Found
    <2>7. Weighed(rig, agree)' /\ rig'.pc # "off"
      BY <1>1, <2>1, <2>3, <2>4, <2>5, <2>6 DEF VerdictInv, Weighed
    <2>8. QED
      BY <2>7, StillWeighed
  <1>6. QED
    BY <1>1, <1>4, <1>5

\* The door is asked its cases, and one with the stand-in stopped, which a door that
\* asks at all refuses; a recording agrees where its case does.
LEMMA JudgeWeighs ==
    ASSUME RigInv, VerdictInv, JudgeDoor \/ Silence \/ Record
    PROVE  VerdictInv'
  <1>1. rig.pc \in {"judge", "silence"} /\ rig.mode \in {"check", "record"}
    BY DEF JudgeDoor, Silence, Record, At, VerdictInv, Weighed
  <1>2. /\ DOMAIN rig = Fields /\ rig.problems \in BOOLEAN /\ rig.raised \in BOOLEAN /\ agree \in BOOLEAN
        /\ rig.door \in DoorSpace /\ rig.set \in BOOLEAN
        /\ ~rig.raised => (rig.problems <=> Found(rig, agree))
    BY <1>1, AsItIs DEF VerdictInv, Weighed
  <1>3. CASE rig' = Raised(rig)
    BY <1>1, <1>3, FailsWeighs
  <1>4. CASE rig' # Raised(rig)
    <2>1. PICK pc \in {"silence", "teardown"}, set \in BOOLEAN, problems \in BOOLEAN :
              /\ rig' = [rig EXCEPT !.pc = pc, !.set = set, !.problems = problems]
              /\ pc = "silence" => rig.mode = "check"
              /\ ~rig.raised => (problems <=> Found([rig EXCEPT !.pc = pc, !.set = set], agree'))
      <3>1. CASE JudgeDoor
        <4>1. PICK placed, presented \in BOOLEAN :
                 rig' = [rig EXCEPT !.pc = "silence", !.set = placed /\ presented,
                                    !.problems = @ \/ Problems(rig.door, placed) # {} \/ ~presented]
          BY <1>4, <3>1 DEF JudgeDoor, Raise
        <4> DEFINE set == placed /\ presented
                   problems == rig.problems \/ Problems(rig.door, placed) # {} \/ ~presented
        <4>2. /\ rig' = [rig EXCEPT !.pc = "silence", !.set = set, !.problems = problems]
              /\ set \in BOOLEAN /\ problems \in BOOLEAN
              /\ rig.pc = "judge" /\ rig.mode = "check" /\ agree' = agree
          BY <1>2, <3>1, <4>1 DEF JudgeDoor, At
        <4>3. Problems(rig.door, placed) # {} \/ ~presented <=> ~set \/ Problems(rig.door, TRUE) # {}
          BY <4>1, NoProblem
        <4>4. Found(rig, agree) <=> ~agree
          BY <4>2 DEF Found
        <4>5. LET r == [rig EXCEPT !.pc = "silence", !.set = set] IN
              Found(r, agree') <=> ~agree \/ ~set \/ Problems(rig.door, TRUE) # {}
          <5> HIDE DEF set
          <5> QED
            BY <1>2, <4>2 DEF Found, Fields
        <4>6. ~rig.raised => (problems <=> Found([rig EXCEPT !.pc = "silence", !.set = set], agree'))
          BY <1>2, <4>2, <4>3, <4>4, <4>5
        <4> HIDE DEF problems, set
        <4>7. QED
          BY <4>2, <4>6
      <3>2. CASE Silence
        <4> DEFINE problems == rig.problems \/ Outcome(rig.door, Stream, [StandIn EXCEPT !.mood = "down"]) # REFUSE
        <4>1. /\ rig' = [rig EXCEPT !.pc = "teardown", !.problems = problems]
              /\ rig.pc = "silence" /\ rig.mode = "check" /\ agree' = agree
          BY <1>4, <3>2 DEF Silence, Raise, At, VerdictInv, Weighed
        <4>2. Outcome(rig.door, Stream, [StandIn EXCEPT !.mood = "down"]) = REFUSE
          BY DEF Outcome, StandIn, REFUSE
        <4>3. problems = rig.problems
          BY <1>2, <4>2
        <4>4. Found(rig, agree) <=> ~agree \/ ~rig.set \/ Problems(rig.door, TRUE) # {}
          BY <4>1 DEF Found
        <4>5. LET r == [rig EXCEPT !.pc = "teardown", !.set = rig.set] IN
              Found(r, agree') <=> ~agree \/ ~rig.set \/ Problems(rig.door, TRUE) # {}
          BY <1>2, <4>1 DEF Found, Fields
        <4>6. rig' = [rig EXCEPT !.pc = "teardown", !.set = rig.set, !.problems = problems]
          <5> HIDE DEF problems
          <5> QED
            BY <1>2, <4>1 DEF Fields
        <4> HIDE DEF problems
        <4>7. QED
          BY <1>2, <4>1, <4>3, <4>4, <4>5, <4>6
      <3>3. CASE Record
        <4>1. PICK right \in BOOLEAN :
                 /\ rig' = [rig EXCEPT !.pc = "teardown", !.problems = ~right \/ Wrongs(rig.door) # {}]
                 /\ agree' = (right /\ Wrongs(rig.door) = {})
          BY <1>4, <3>3 DEF Record, Raise
        <4>2. rig.mode = "record"
          BY <3>3 DEF Record
        <4> DEFINE problems == ~right \/ Wrongs(rig.door) # {}
        <4>3. Found([rig EXCEPT !.pc = "teardown", !.set = rig.set], agree') <=> ~agree'
          BY <1>2, <4>2 DEF Found, Fields
        <4>4. problems \in BOOLEAN /\ (problems <=> ~agree')
          BY <4>1
        <4>5. rig' = [rig EXCEPT !.pc = "teardown", !.set = rig.set, !.problems = problems]
          <5>1. rig' = [rig EXCEPT !.pc = "teardown", !.problems = problems]
            BY <4>1
          <5> HIDE DEF problems
          <5>2. QED
            BY <1>2, <5>1 DEF Fields
        <4> HIDE DEF problems
        <4>6. QED
          BY <1>2, <4>3, <4>4, <4>5
      <3>4. QED
        BY <3>1, <3>2, <3>3
    <2>2. /\ rig'.pc = pc /\ rig'.problems = problems /\ rig'.mode = rig.mode
          /\ rig'.door = rig.door /\ rig'.raised = rig.raised /\ rig'.set = set
      BY <1>2, <2>1 DEF Fields
    <2>3. Found([rig EXCEPT !.pc = pc, !.set = set], agree') <=> Found(rig', agree')
      <3>1. LET r == [rig EXCEPT !.pc = pc, !.set = set] IN
            r.pc = pc /\ r.mode = rig.mode /\ r.door = rig.door /\ r.set = set
        BY <1>2 DEF Fields
      <3>2. QED
        BY <2>2, <3>1 DEF Found
    <2>4. Weighed(rig, agree)' /\ rig'.pc # "off"
      BY <1>1, <1>2, <2>1, <2>2, <2>3 DEF Weighed
    <2>5. QED
      BY <2>4, StillWeighed
  <1>5. QED
    BY <1>3, <1>4

\* A broken door that is the door it was made from is not broken.
LEMMA BrokenDiffer == \A b \in CaughtBy : Broken(Shipped, b) # Shipped
  <1>1. Problems(Shipped, TRUE) = {}
    BY ProblemsAreWrongs, TheShippedDoorIsRight
  <1>2. QED
    BY <1>1, BrokenAreCaught

\* The self-test finds nothing of its own in the shipped door: every door made from it
\* is another, and caught.
LEMMA JudgeBrokenWeighs ==
    ASSUME RigInv, VerdictInv, JudgeBroken
    PROVE  VerdictInv'
  <1> DEFINE b == CHOOSE one \in rig.broken : TRUE
             door == Broken(rig.door, b)
             kept == Keep(rig, "door")
  <1>1. /\ rig.pc = "judge" /\ rig.mode = "self-test" /\ agree' = agree
        /\ \/ Fails("door")
           \/ door = rig.door /\ rig' = Judged(rig, b, TRUE)
           \/ \E placed \in BOOLEAN : rig' = Judged(kept, b, b \notin Problems(door, placed))
    BY DEF JudgeBroken, At
  <1>2. /\ DOMAIN rig = Fields /\ DOMAIN kept = Fields /\ \A f \in Fields \ {"made", "listed"} : kept[f] = rig[f]
        /\ rig.problems \in BOOLEAN /\ rig.broken \subseteq CaughtBy
    BY <1>1, KeptIsListed, AsItIs
  <1>3. b \in rig.broken /\ b \in CaughtBy /\ rig.door \in DoorSpace
    <2>1. rig.broken # {} /\ rig.door \in DoorSpace
      BY <1>1 DEF VerdictInv, Weighed
    <2>2. QED
      BY <1>2, <2>1
  <1>4. ASSUME NEW r, DOMAIN r = Fields, \A f \in Fields \ {"made", "listed"} : r[f] = rig[f],
               NEW problem \in BOOLEAN, rig.door = Shipped => ~problem, rig' = Judged(r, b, problem)
        PROVE  VerdictInv'
    <2> DEFINE pc == IF rig.broken = {b} THEN "teardown" ELSE "judge"
    <2>1. pc \in {"teardown", "judge"} /\ (pc = "judge" => rig.broken \ {b} # {})
      BY <1>3
    <2> HIDE DEF pc, b
    <2>2. /\ r.problems = rig.problems /\ r.broken = rig.broken /\ r.mode = rig.mode
          /\ r.door = rig.door /\ r.raised = rig.raised
      BY <1>4 DEF Fields
    <2>3. rig' = [r EXCEPT !.broken = @ \ {b}, !.problems = @ \/ problem, !.pc = pc]
      BY <1>4, <2>2 DEF Judged, pc
    <2>4. /\ rig'.pc = pc /\ rig'.problems = (rig.problems \/ problem) /\ rig'.broken = rig.broken \ {b}
          /\ rig'.mode = rig.mode /\ rig'.door = rig.door /\ rig'.raised = rig.raised
      BY <1>4, <2>2, <2>3 DEF Fields
    <2>5. Found(rig', agree') <=> Found(rig, agree)
      BY <1>1, <2>4 DEF Found
    <2>6. rig.door = Shipped => rig'.problems = rig.problems
      BY <1>2, <1>4, <2>4
    <2>7. Weighed(rig, agree)' /\ rig'.pc # "off"
      BY <1>1, <1>3, <2>1, <2>4, <2>5, <2>6 DEF VerdictInv, Weighed
    <2>8. QED
      BY <2>7, StillWeighed
  <1>5. CASE Fails("door")
    BY <1>1, <1>5, FailsWeighs DEF Fails, Raise
  <1>6. CASE door = rig.door /\ rig' = Judged(rig, b, TRUE)
    <2>1. rig.door # Shipped
      BY <1>3, <1>6, BrokenDiffer
    <2> HIDE DEF b, door, kept
    <2>2. QED
      BY <1>2, <1>4, <1>6, <2>1
  <1>7. CASE \E placed \in BOOLEAN : rig' = Judged(kept, b, b \notin Problems(door, placed))
    <2>1. PICK placed \in BOOLEAN : rig' = Judged(kept, b, b \notin Problems(door, placed))
      BY <1>7
    <2> DEFINE problem == b \notin Problems(door, placed)
    <2>2. problem \in BOOLEAN /\ (rig.door = Shipped => ~problem)
      BY <1>3, BrokenAreCaught
    <2>3. rig' = Judged(kept, b, problem)
      BY <2>1
    <2> HIDE DEF b, door, kept, problem
    <2>4. QED
      BY <1>2, <1>4, <2>2, <2>3
  <1>8. QED
    BY <1>1, <1>5, <1>6, <1>7

\* An interrupt is something raised, and the teardown changes nothing of what was found.
LEMMA InterruptWeighs ==
    ASSUME RigInv, VerdictInv, Interrupt \/ Teardown
    PROVE  VerdictInv'
  <1>1. DOMAIN rig = Fields /\ rig.door \in DoorSpace /\ agree' = agree
    <2>1. DOMAIN NoRig = Fields
      BY DEF NoRig, Fields
    <2>2. QED
      BY <2>1 DEF RigInv, RigTyped, VerdictInv, Weighed, Interrupt, Teardown
  <1>2. CASE Cut
    <2>1. PICK cut : rig' = Raised([rig EXCEPT !.made = @ \union cut, !.lost = cut])
      BY <1>2 DEF Cut
    <2> DEFINE r == [rig EXCEPT !.made = @ \union cut, !.lost = cut]
    <2>2. DOMAIN r = Fields /\ r.door = rig.door
      BY <1>1 DEF Fields
    <2> HIDE DEF r
    <2>3. Weighed(Raised(r), agree') /\ Raised(r).pc = "teardown"
      <3>1. Raised(r).pc = "teardown"
        BY <2>2 DEF Raised, Fields
      <3>2. QED
        BY <1>1, <2>2, <3>1, RaisedIsWeighed
    <2>4. Weighed(rig, agree)' /\ rig'.pc # "off"
      BY <2>1, <2>3 DEF r
    <2>5. QED
      BY <2>4, StillWeighed
  <1>3. CASE CutShort
    <2>1. PICK stuck : rig' = [TakenDown(stuck) EXCEPT !.raised = TRUE]
      BY <1>3 DEF CutShort
    <2>2. rig'.pc = "over" /\ rig'.raised = TRUE /\ rig'.door = rig.door
      BY <1>1, <2>1 DEF TakenDown, Fields
    <2>3. Weighed(rig, agree)' /\ rig'.pc # "off"
      BY <1>1, <2>2 DEF Weighed
    <2>4. QED
      BY <2>3, StillWeighed
  <1>4. CASE Teardown
    <2>1. PICK stuck : rig.pc = "teardown" /\ rig' = TakenDown(stuck)
      BY <1>4 DEF Teardown, At
    <2>2. /\ rig'.pc = "over" /\ rig'.mode = rig.mode /\ rig'.door = rig.door
          /\ rig'.problems = rig.problems /\ rig'.raised = rig.raised /\ rig'.set = rig.set
      BY <1>1, <2>1 DEF TakenDown, Fields
    <2>3. Found(rig', agree') <=> Found(rig, agree)
      BY <1>1, <2>1, <2>2 DEF Found
    <2>4. Weighed(rig, agree)' /\ rig'.pc # "off"
      BY <1>1, <2>1, <2>2, <2>3 DEF VerdictInv, Weighed
    <2>5. QED
      BY <2>4, StillWeighed
  <1>5. QED
    BY <1>2, <1>3, <1>4 DEF Interrupt

\* The verdict: a door with no problem is right of every request that @unkeyed is not
\* there for; one with a problem is wrong of a request it was asked.
LEMMA VerdictWeighs ==
    ASSUME RigInv, VerdictInv, Verdict
    PROVE  VerdictInv'
  <1>1. /\ rig.pc = "over" /\ agree' = agree /\ agree \in BOOLEAN
        /\ rig.problems \in BOOLEAN /\ rig.raised \in BOOLEAN /\ rig.set \in BOOLEAN /\ rig.door \in DoorSpace
        /\ rig.mode \in {"check", "self-test", "record"}
    BY DEF Verdict, At, RigInv, RigTyped, RigTypeOK, VerdictInv, Weighed
  <1>2. /\ rig'.pc = "off" /\ rig'.mode = rig.mode /\ rig'.door = rig.door /\ rig'.raised = rig.raised
        /\ rig'.set = rig.set /\ rig'.exit = IF rig.problems \/ rig.raised THEN "1" ELSE "0"
    BY DEF Verdict, NoRig
  <1>3. ~rig.raised /\ (rig.mode = "self-test" => rig.door = Shipped) => (rig.problems <=> Found(rig, agree))
    BY <1>1 DEF VerdictInv, Weighed
  <1>4. Weighed(rig, agree)'
    BY <1>1, <1>2 DEF Weighed
  <1>5. ASSUME rig'.exit = "0", rig.mode = "check"
        PROVE  Set' /\ \A q \in Requests : Handle(Shipped, q) = "unkeyed" \/ Right(rig'.door, q)
    <2>1. ~rig.problems /\ ~rig.raised
      BY <1>1, <1>2, <1>5
    <2>2. agree /\ rig.set /\ Problems(rig.door, TRUE) = {}
      BY <1>1, <1>3, <1>5, <2>1 DEF Found
    <2>3. QED
      BY <1>1, <1>2, <2>2, PassingIsRight DEF Set
  <1>6. ASSUME rig'.exit = "1", ~rig.raised
        PROVE  \/ ~Set'
               \/ IF rig.mode = "self-test" THEN rig.door # Shipped ELSE \E q \in Requests : ~Right(rig.door, q)
    <2>1. CASE rig.mode = "self-test" /\ rig.door # Shipped
      BY <2>1
    <2>2. CASE ~(rig.mode = "self-test" /\ rig.door # Shipped)
      <3>1. Found(rig, agree)
        BY <1>1, <1>2, <1>3, <1>6, <2>2
      <3>2. CASE ~agree
        BY <1>1, <3>2 DEF Set
      <3>3. CASE rig.mode = "check" /\ (~rig.set \/ Problems(rig.door, TRUE) # {})
        BY <1>1, <1>2, <3>3, ProblemsAreWrongs DEF Set
      <3>4. QED
        BY <1>1, <3>1, <3>2, <3>3 DEF Found
    <2>3. QED
      BY <2>1, <2>2
  <1>7. VerdictHolds'
    BY <1>1, <1>2, <1>5, <1>6 DEF VerdictHolds, At
  <1>8. QED
    BY <1>4, <1>7 DEF VerdictInv

\* A run begins with the recordings held to their cases, unless it is to take them.
LEMMA BeginWeighs ==
    ASSUME RigInv, VerdictInv, NEW mode \in {"check", "self-test", "record"}, Begin(mode)
    PROVE  VerdictInv'
  <1>1. PICK laid \in BOOLEAN, door \in IF mode = "self-test" THEN Doors ELSE {Shipped} :
        rig' = [NoRig EXCEPT !.mode = mode, !.left = Plan(mode), !.door = door,
                             !.broken = IF mode = "self-test" THEN CaughtBy ELSE {},
                             !.pc = IF laid THEN "make" ELSE "over",
                             !.raised = ~laid, !.problems = mode # "record" /\ ~agree]
    BY DEF Begin
  <1> DEFINE problems == mode # "record" /\ ~agree
             broken == IF mode = "self-test" THEN CaughtBy ELSE {}
  <1>2. rig'.problems = problems /\ rig'.raised = ~laid /\ rig'.broken = broken
    BY <1>1 DEF NoRig
  <1>3. /\ rig'.pc = IF laid THEN "make" ELSE "over"
        /\ rig'.mode = mode /\ rig'.door = door /\ door \in DoorSpace
    BY <1>1, CheckAssumption, ShippedIsADoor DEF NoRig
  <1>4. agree' = agree /\ agree \in BOOLEAN
    BY DEF Begin, RigInv, RigTyped, RigTypeOK
  <1>5. mode = "self-test" => broken # {}
    BY DEF CaughtBy, BROKEN
  <1> HIDE DEF broken
  <1>6. laid => (problems <=> Found(rig', agree'))
    BY <1>3, <1>4 DEF Found
  <1> HIDE DEF problems
  <1>7. Weighed(rig, agree)' /\ rig'.pc # "off"
    BY <1>2, <1>3, <1>5, <1>6 DEF Weighed
  <1>8. QED
    BY <1>7, StillWeighed

\* A kill says nothing, and the rest is not the run's.
LEMMA AroundAVerdict ==
    ASSUME VerdictInv, Kill \/ Up \/ Down \/ Sweep \/ UNCHANGED checkVars
    PROVE  VerdictInv'
  <1>1. CASE Kill
    <2>1. rig'.pc = "off" /\ rig'.exit = "killed" /\ rig'.door = Shipped
      BY <1>1 DEF Kill, NoRig
    <2>2. QED
      BY <2>1, ShippedIsADoor DEF VerdictInv, Weighed, VerdictHolds
  <1>2. CASE Up \/ Down \/ Sweep \/ UNCHANGED checkVars
    <2>1. rig' = rig /\ agree' = agree
      BY <1>2 DEF Up, Down, Sweep, checkVars
    <2>2. Weighed(rig, agree)' /\ VerdictHolds'
      BY <2>1 DEF VerdictInv, VerdictHolds, Set, At
    <2>3. QED
      BY <2>2 DEF VerdictInv
  <1>3. QED
    BY <1>1, <1>2

LEMMA VerdictStarts == AllInit => VerdictInv
  <1> SUFFICES ASSUME AllInit PROVE VerdictInv
    OBVIOUS
  <1>1. rig.pc = "off" /\ rig.exit = "none" /\ rig.door = Shipped
    BY DEF AllInit, CheckInit, NoRig
  <1>2. QED
    BY <1>1, ShippedIsADoor DEF VerdictInv, Weighed, VerdictHolds

LEMMA VerdictSteps == RigInv /\ VerdictInv /\ [AllNext]_allVars => VerdictInv'
  <1> SUFFICES ASSUME RigInv, VerdictInv, [AllNext]_allVars PROVE VerdictInv'
    OBVIOUS
  <1>1. CASE CheckNext
    <2>1. CASE Make
      BY <2>1, MakeWeighs
    <2>2. CASE JudgeDoor \/ Silence \/ Record
      BY <2>2, JudgeWeighs
    <2>3. CASE JudgeBroken
      BY <2>3, JudgeBrokenWeighs
    <2>4. CASE Interrupt \/ Teardown
      BY <2>4, InterruptWeighs
    <2>5. CASE Verdict
      BY <2>5, VerdictWeighs
    <2>6. CASE Kill \/ Up \/ Down \/ Sweep
      BY <2>6, AroundAVerdict
    <2>7. ASSUME NEW mode \in {"check", "self-test", "record"}, Begin(mode) PROVE VerdictInv'
      BY <2>7, BeginWeighs
    <2>8. QED
      BY <1>1, <2>1, <2>2, <2>3, <2>4, <2>5, <2>6, <2>7 DEF CheckNext
  <1>2. CASE UNCHANGED checkVars
    BY <1>2, AroundAVerdict
  <1>3. QED
    BY <1>1, <1>2 DEF AllNext, allVars

\* The cases of check_door.py suffice for all but @unkeyed: of all the doors that lack
\* any handles and have any parts of themselves wrong, one that comes out of every case
\* as it should decides every other request rightly, unless it is one that names an item
\* in a shape @unkeyed is there to refuse, which no case has.
THEOREM TheCasesSuffice ==
    \A d \in DoorSpace, placed \in BOOLEAN :
        Problems(d, placed) = {} => \A q \in Requests : Handle(Shipped, q) = "unkeyed" \/ Right(d, q)
  BY PassingIsRight

\* A check of the door that exits 0 was of a door that decides rightly every request that
\* is not @unkeyed's, on a rig set as it should be, with recordings that agree; and one
\* that exits 1, with nothing having failed on the way, found a door that does not decide
\* rightly, or a rig or a recording that is not so, whichever doors are shipped, and
\* wherever runs are interrupted or killed.
THEOREM TheVerdictHolds == Spec => []VerdictHolds
  <1>1. VerdictInv => VerdictHolds
    BY DEF VerdictInv
  <1>2. QED
    BY <1>1, RigHolds, VerdictStarts, VerdictSteps, PTL DEF Spec
=============================================================================
