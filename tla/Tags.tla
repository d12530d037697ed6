-------------------------------- MODULE Tags --------------------------------
(***************************************************************************)
(* How the scripts read a tag, which of two is the newer, and what a       *)
(* change to the manifest's pins amounts to: pins.py and                   *)
(* check_manifest_change.py, the parts of them that keep no state.         *)
(***************************************************************************)
EXTENDS Integers, Sequences, SequencesExt, Functions

\* A tag as it is read: whether a `v' leads it, its other words (a prefix, a
\* suffix such as -rc7), the numbers of its version, and those of its fixed
\* build, none for a tag that is not of one.
TagRead(Word, Number) ==
    [v: BOOLEAN, word: Word, numbers: Seq(Number), build: Seq(Number)]

IsBuild(tag) == tag.build # <<>>

\* Two tags can be compared where everything but their numbers is the same.
Spelling(tag) == <<tag.v, tag.word, Len(tag.numbers), Len(tag.build)>>
Key(tag) == tag.numbers \o tag.build
Major(tag) == Head(tag.numbers)

\* One tuple of numbers after another of its length, as Python orders them.
After(key, other) ==
    \E i \in DOMAIN key : /\ key[i] > other[i]
                          /\ \A j \in 1..(i - 1) : key[j] = other[j]

\* newest_in_major: the list is walked once, keeping the best tag so far.
Follows(current, tag) ==
    /\ tag.numbers # <<>>
    /\ Spelling(tag) = Spelling(current)
    /\ Major(tag) = Major(current)

NewestInMajor(current, tags) ==
    LET better(kept, tag) == IF Follows(current, tag) /\ After(Key(tag), Key(kept)) THEN tag ELSE kept
        best[i \in 0..Len(tags)] == IF i = 0 THEN current ELSE better(best[i - 1], tags[i])
    IN  IF current.numbers = <<>> THEN current ELSE best[Len(tags)]

\* The reference: of a set of tags, the ones spelled alike in the same major, and
\* whether a tag is the newest of them and of the one that is pinned.
Alike(current, tags) ==
    IF current.numbers = <<>> THEN {}
    ELSE {t \in tags : /\ t.numbers # <<>> /\ Spelling(t) = Spelling(current)
                       /\ Head(t.numbers) = Head(current.numbers)}
IsNewest(tag, current, tags) ==
    LET candidates == {current} \union Alike(current, tags)
    IN  tag \in candidates /\ \A t \in candidates : ~After(Key(t), Key(tag))
-----------------------------------------------------------------------------
\* A pin is [image, tag, digest, date]: digest 0 is none.  What changed from one
\* manifest's pins to another's, each a function of the services it has.
Both(before, after) == DOMAIN before \intersect DOMAIN after

\* From a release's tag to the fixed build of that release, of the same build.
SlipFromAnyTag(was, now) ==
    /\ now.image = was.image /\ now.digest = was.digest /\ was.digest # 0
    /\ was.tag # now.tag /\ IsBuild(now.tag)
Respelling(was, now) ==
    /\ now.image = was.image /\ now.digest = was.digest /\ was.digest # 0
    /\ ~IsBuild(was.tag) /\ IsBuild(now.tag)
    /\ was.tag.word = now.tag.word
    /\ IsPrefix(was.tag.numbers, now.tag.numbers)

Bumped(before, after) ==
    {s \in Both(before, after) :
        /\ <<after[s].image, after[s].tag>> # <<before[s].image, before[s].tag>>
        /\ ~Respelling(before[s], after[s])}

Repinned(before, after) ==
    {s \in Both(before, after) :
        <<after[s].image, after[s].tag, after[s].digest>>
            # <<before[s].image, before[s].tag, before[s].digest>>}

\* Every fault of a change, with its service.
Judge(before, after, removed, reaffirmed) ==
    LET stale == {s \in Bumped(before, after) : before[s].digest # 0 /\ after[s].digest = before[s].digest}
        unreviewed == {s \in Bumped(before, after) \ reaffirmed : after[s].date = before[s].date}
        unexplained == (DOMAIN before \ DOMAIN after) \ removed
    IN  ({"digest"} \X stale) \union ({"date"} \X unreviewed) \union ({"gone"} \X unexplained)
=============================================================================
