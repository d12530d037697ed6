---------------------------- MODULE MCPinReview -----------------------------
(***************************************************************************)
(* Few tags, each there for one of the rules: a release, its fixed build,  *)
(* a later release and its build, another major and another spelling.      *)
(***************************************************************************)
EXTENDS PinReview

CONSTANTS sonarr, decline, lscr, elsewhere

Plain(numbers) == [v |-> FALSE, word |-> "", numbers |-> numbers, build |-> <<>>]
Fixed(numbers, build) == [Plain(numbers) EXCEPT !.build = <<build>>]

MCTag == {Plain(<<4, 0>>), Fixed(<<4, 0, 1>>, 2), Fixed(<<4, 1, 0>>, 1)}
MCTagOrder == {Fixed(<<4, 0, 9>>, 2), Fixed(<<4, 0, 9>>, 3), Fixed(<<4, 1, 0>>, 1), Fixed(<<5, 0, 0>>, 4),
               Plain(<<4, 2, 0>>), Plain(<<>>)}

\* Three publishes of three tags of one image on one day; or two of two for
\* both platforms, of either image and on either day.
Pinned == UNION {Range(m.pins) : m \in {main, pr.head}}
Used == {log[i].image : i \in DOMAIN log} \union {pin.image : pin \in Pinned}
Tagged == {log[i].tag : i \in DOMAIN log} \union {pin.tag : pin \in Pinned}
Scope ==
    \/ today = 0 /\ Used = {lscr}
    \/ lacking = {} /\ Len(log) <= 2 /\ Tagged \subseteq {Plain(<<4, 0>>), Fixed(<<4, 0, 1>>, 2)}

\* Whatever is listed, in any order and more than once, newest_in_major returns
\* the newest: TLC evaluates this before every run.
Listing == UNION {[1..n -> MCTagOrder] : n \in 0..4}
ASSUME NewestIsNewest ==
    \A current \in MCTagOrder, listing \in Listing :
        IsNewest(NewestInMajor(current, listing), current, Range(listing))
=============================================================================
