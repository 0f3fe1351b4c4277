------------------------------ MODULE Keyring ------------------------------
(***************************************************************************)
(* keydb_keyring.c: a file of keys as a read-only database.  When it is    *)
(* opened the file is walked once to note where each key begins and ends,  *)
(* with a reading of the packet headers of its own; a lookup gives the     *)
(* octets of a key to read_openpgp_stream and parse_keys (KeyStream).      *)
(***************************************************************************)
EXTENDS KeyStream

VARIABLES
    ring,       \* [state, file, keys]: the database; a key has its start and length
    walk,       \* pos, start, totlen, len of keyring_parse_keys
    lookup,     \* what is looked for: [what, fp]
    todo,       \* the keys that are still to be fetched
    found       \* the keys before the one that is read

ringvars == <<ring, walk, lookup, todo, found>>

NoWalk == [pos |-> 0, start |-> 0, totlen |-> 0, len |-> 0]
NoLookup == [what |-> "none", fp |-> <<>>]

RingInit == /\ Init
            /\ ring = [state |-> "none", file |-> <<>>, keys |-> <<>>]
            /\ walk = NoWalk
            /\ lookup = NoLookup
            /\ todo = <<>>
            /\ found = <<>>

\* keydb_keyring_init, up to the walk.  An empty file cannot be mapped.
Opens ==
    /\ parsed = -1 /\ pos = 0 /\ rc = OK /\ via = "text" /\ ~case.armored
    /\ ring' = [ring EXCEPT !.state = IF stream.octets = <<>> THEN "closed" ELSE "walk",
                            !.file = stream.octets]
    /\ parsed' = -3
    /\ UNCHANGED <<case, via, text, whole, more, stream, pos, packets, rc, keys, count>>
    /\ UNCHANGED <<walk, lookup, todo, found>>

File(o) == ring.file[o + 1]
FileNumber(o, k) == Number(Slice(ring.file, o, k))

\* The tag of the packet at o, and the octets of its header.
IsNewAt(o) == File(o) % 128 >= 64
RingTag(o) == IF IsNewAt(o) THEN File(o) % 64 ELSE (File(o) % 64) \div 4
RingHeader(o) ==
    IF IsNewAt(o) THEN CASE File(o + 1) \in 192 .. 223 -> 3 [] File(o + 1) = 255 -> 6 [] OTHER -> 2
    ELSE CASE File(o) % 4 = 0 -> 2 [] File(o) % 4 = 1 -> 3 [] OTHER -> 5

\* Mutant of RingLength: the second octet of a length is not counted.
RingLengthShort(o) ==
    CASE IsNewAt(o) /\ RingHeader(o) = 3 -> ((File(o + 1) - 192) * 256) + File(o + 2) + 192 + 2
      [] ~IsNewAt(o) /\ RingHeader(o) = 3 -> FileNumber(o + 1, 2) + 3
      [] RingHeader(o) = 5 -> FileNumber(o + 1, 4) + 5
      [] RingHeader(o) = 6 -> FileNumber(o + 2, 4) + 6
      [] OTHER -> File(o + 1) + 2

\* The length of the packet with its header.  Lengths that are not supported: of
\* the new format the octet counts, of the old one the length before.
RingLength(o) ==
    CASE ~IsNewAt(o) /\ File(o) % 4 = 3 -> walk.len
      [] IsNewAt(o) /\ RingHeader(o) = 3 -> ((File(o + 1) - 192) * 256) + File(o + 2) + 192 + 3
      [] ~IsNewAt(o) /\ File(o) % 4 = 1 -> FileNumber(o + 1, 2) + 3
      [] ~IsNewAt(o) /\ File(o) % 4 = 2 -> FileNumber(o + 1, 4) + 5
      [] RingHeader(o) = 6 -> FileNumber(o + 2, 4) + 6
      [] OTHER -> File(o + 1) + 2

\* The loop ends less than six octets before the end of the file and where no
\* packet begins.
AtPacket == /\ walk.pos + 5 < Len(ring.file)
            /\ File(walk.pos) >= 128
Beyond == walk.pos > Len(ring.file)

\* What is noted begins with a key that read_openpgp_stream accepts.
HasKey == /\ RingTag(walk.start) = PublicKey
          /\ SaneVersion(PublicKey, File(walk.start + RingHeader(walk.start)))

Walking == ring.state = "walk"
Stays == UNCHANGED vars /\ UNCHANGED <<lookup, todo, found>>

WalksPacket ==
    /\ Walking /\ AtPacket
    /\ RingTag(walk.pos) # PublicKey
    /\ LET len == RingLength(walk.pos)
       IN walk' = [walk EXCEPT !.pos = @ + len, !.totlen = @ + len, !.len = len]
    /\ UNCHANGED ring
    /\ Stays

\* A key: what was before it is noted, and read for its fingerprint.  When
\* there is no key in it the program uses a null pointer.  The first time the
\* pointer to the key is not initialized.
Noted == \/ walk.totlen = 0 /\ UNCHANGED ring
         \/ /\ walk.totlen > 0 /\ HasKey
            /\ ring' = [ring EXCEPT !.keys = Append(@, [start |-> walk.start, len |-> walk.totlen])]
         \/ /\ walk.totlen > 0 /\ (~HasKey \/ ring.keys = <<>>)
            /\ ring' = [ring EXCEPT !.state = "undefined"]

WalksKey ==
    /\ Walking /\ AtPacket
    /\ RingTag(walk.pos) = PublicKey
    /\ LET len == RingLength(walk.pos)
       IN walk' = [pos |-> walk.pos + len, start |-> walk.pos, totlen |-> len, len |-> len]
    /\ Noted
    /\ Stays

\* What follows the last key that was noted is not noted itself.
WalkEnds ==
    /\ Walking /\ ~AtPacket
    /\ ring' = [ring EXCEPT !.state = IF ring.keys = <<>> THEN "closed" ELSE "open"]
    /\ UNCHANGED walk
    /\ Stays

\* The difference of two unsigned numbers: behind the end the loop goes on.
WalksBeyond ==
    /\ Walking /\ Beyond
    /\ ring' = [ring EXCEPT !.state = "undefined"]
    /\ UNCHANGED walk
    /\ Stays

-----------------------------------------------------------------------------
(* Lookups *)

OctetsOf(i) == Slice(ring.file, ring.keys[i].start, ring.keys[i].len)

\* The fingerprint: the data of the key packet stands for its hash.
Fingerprint(i) ==
    LET o == ring.keys[i].start IN Slice(ring.file, o + RingHeader(o), RingLength(o) - RingHeader(o))
FirstOf(l) == IF l = <<>> THEN <<>> ELSE <<Head(l)>>
With(fp) == SelectSeq([i \in DOMAIN ring.keys |-> i], LAMBDA i : Fingerprint(i) = fp)

Starts(what, fp, list) ==
    /\ ring.state = "open" /\ lookup = NoLookup
    /\ lookup' = [what |-> what, fp |-> fp]
    /\ todo' = list
    /\ UNCHANGED vars /\ UNCHANGED <<ring, walk, found>>

\* Mutant of FetchKey: the last one with the fingerprint.
FetchKeyLast(fp) ==
    Starts("fp", fp, IF With(fp) = <<>> THEN <<>> ELSE <<With(fp)[Len(With(fp))]>>)

\* keyring_fetch_key: the first one; keyring_fetch_key_id: all of them;
\* keyring_iterate_keys: all there are.
FetchKey(fp) == Starts("fp", fp, FirstOf(With(fp)))
FetchKeyId(fp) == Starts("id", fp, With(fp))
IterateKeys == Starts("all", <<>>, [i \in DOMAIN ring.keys |-> i])

\* keyring_fetch_key_idx: read_openpgp_stream and parse_keys get the octets.
Idle == parsed = -3 \/ count # -1
FetchKeyIdx ==
    /\ todo # <<>> /\ Idle
    /\ stream' = [octets |-> OctetsOf(Head(todo)), endless |-> FALSE]
    /\ via' = "ring"
    /\ pos' = 0 /\ packets' = <<>> /\ rc' = OK /\ parsed' = -1
    /\ keys' = <<>> /\ count' = -1
    /\ found' = found \o keys
    /\ todo' = Tail(todo)
    /\ UNCHANGED <<case, text, whole, more, ring, walk, lookup>>

RingNext == \/ Next /\ UNCHANGED ringvars
            \/ Opens \/ WalksPacket \/ WalksKey \/ WalkEnds \/ WalksBeyond
            \/ \E fp \in {case.packets[i].data : i \in DOMAIN case.packets} :
                   FetchKey(fp) \/ FetchKeyId(fp)
            \/ IterateKeys \/ FetchKeyIdx

RingSpec == RingInit /\ [][RingNext]_<<vars, ringvars>>

-----------------------------------------------------------------------------
\* The keys of the file, each with the packets that follow it.
KeyAt == SelectSeq([i \in DOMAIN case.packets |-> i], LAMBDA i : case.packets[i].tag = PublicKey)
Group(n) == SubSeq(case.packets, KeyAt[n],
                   IF n < Len(KeyAt) THEN KeyAt[n + 1] - 1 ELSE Len(case.packets))

\* What parse_keys takes of it: up to a user ID after a subkey.
Taken(g) == LET late == {i \in DOMAIN g : /\ g[i].tag \in {Uid, Uat}
                                          /\ \E j \in 1 .. i : g[j].tag = Subkey}
            IN IF late = {} THEN g
               ELSE SubSeq(g, 1, (CHOOSE i \in late : \A j \in late : i <= j) - 1)

LookedUp == lookup # NoLookup /\ todo = <<>> /\ Idle
Result == found \o keys

\* What a lookup gives: for a fingerprint the first key, for a key id all, for an
\* iteration those that were noted, with all their packets.
LookupTrue ==
    LookedUp /\ AllSane =>
        LET noted == [n \in DOMAIN ring.keys |-> Taken(Group(n))]
            same == SelectSeq(noted, LAMBDA g : g[1].data = lookup.fp)
            hits == CASE lookup.what = "fp" -> FirstOf(same)
                      [] lookup.what = "id" -> same
                      [] OTHER -> noted
        IN Flatten(Result) = SelectSeq(FlattenSeq(hits), LAMBDA p : ~Ignored(p))

\* keyring_parse_keys finds its way through a whole file at every boundary of
\* the length encodings: each key but the last one is noted.
AllButLast ==
    ring.state \in {"open", "closed"} /\ whole /\ more = <<>> =>
        Len(ring.keys) = IF KeyAt = <<>> THEN 0 ELSE Len(KeyAt) - 1

\* A keyring has the keys that reading the whole file gives, but for the last
\* one: keyring_parse_keys notes them and lookups return them, also in a file
\* that is cut short.
RingTrue == LookupTrue /\ AllButLast

\* "Calls iterfunc once for each key in the database." (keydb_keyring.c): an
\* iteration over a whole keyring gives as many keys as there are in it.
IteratesAll ==
    LookedUp /\ AllSane /\ lookup.what = "all" /\ whole /\ more = <<>> =>
        Len(Result) = Len(KeyAt)

=============================================================================
