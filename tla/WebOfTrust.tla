----------------------------- MODULE WebOfTrust -----------------------------
(***************************************************************************)
(* The searches in the graph of signatures: stats.c with the hash of keys  *)
(* (hash.c) that cached_getkeysigs fills, and its programs:                *)
(*                                                                         *)
(*   gpgwww      up to MaxPaths paths from one key to another, printed     *)
(*               ("gpgwww") or as an answer with their keys ("getkeys");   *)
(*   maxpath     the two keys that are furthest apart, and their path;     *)
(*   sixdegrees  how many keys are within 1, 2, ... signatures of a key;   *)
(*   wotsap      the signatures of all keys that lead to a key, by number. *)
(*                                                                         *)
(* The searches are breadth first.  Their lists of keys are sets here: the *)
(* keys of one degree may be taken in any order.                           *)
(***************************************************************************)
EXTENDS Naturals, FiniteSets, Sequences, SequencesExt

CONSTANTS
    Node,           \* key ids, 1 .. n
    NoNode,         \* key id 0
    Programs,       \* the programs that run, named as above and "getkeys"
    Signers,        \* the graphs: per key the issuers of its signatures
    Pairs,          \* the pairs of keys a user asks for
    Unsigned,       \* keys that are stored even when they have no signature
    RevokedSets,    \* the sets of keys that are revoked in the database
    MaxPaths,       \* gpgwww: how many paths
    MaxLength,      \* maxpath: a path of this length is enough
    Degrees         \* sixdegrees: how many degrees

VARIABLES
    prog, signers, bad,     \* the program and the database: they stay
    have, want,             \* the two ends of a path
    cache,                  \* the hash: keys in it, with gotsigs, revoked, signs
    colour, parent,         \* the marks of the last search
    disabled,               \* keys that were in an earlier path
    bfs,                    \* the search that is under way
    at,                     \* where the program is
    path, paths,            \* the path that is printed, the ones printed before
    stats,                  \* the results of maxpath and sixdegrees
    out,                    \* what getkeys and wotsap put out: keys, lists of signatures
    cleanup,                \* a signal has come
    barred                  \* history: what the search started without

database == <<prog, signers, bad>>
marks == <<colour, parent, disabled>>
vars == <<prog, signers, bad, have, want, cache, colour, parent, disabled, bfs, at,
          path, paths, stats, out, cleanup, barred>>

NoSearch == [mode |-> "none", keys |-> {}, next |-> {}, degree |-> 1, limit |-> 0,
             count |-> 0, max |-> NoNode]
NoStats == [seen |-> {}, late |-> {}, distance |-> 0, from |-> NoNode, to |-> NoNode,
            loop |-> 0]

Init == /\ prog \in Programs
        /\ signers \in Signers
        /\ bad \in RevokedSets
        /\ \E p \in Pairs : have = p[1] /\ want = p[2]
        /\ prog \in {"maxpath", "sixdegrees", "wotsap"} => want = have
        /\ cache = [hash |-> {}, got |-> {}, rev |-> {}, signs |-> [n \in Node |-> {}]]
        /\ colour = [n \in Node |-> 0]
        /\ parent = [n \in Node |-> NoNode]
        /\ disabled = {}
        /\ bfs = NoSearch
        /\ at = "start"
        /\ path = <<>>
        /\ paths = <<>>
        /\ stats = NoStats
        /\ out = [keys |-> <<>>, sigs |-> <<>>]
        /\ cleanup = FALSE
        /\ barred = {}

-----------------------------------------------------------------------------
(* The hash and the searches *)

\* The keys that fetch_key_id finds, with a user ID.
Stored(n) == signers[n] # {} \/ n \in Unsigned

\* cached_getkeysigs: a key's signatures are fetched once.  The signers come
\* into the hash with nothing known of them.  A key without signatures stays
\* unknown.
Loaded(h, n) ==
    IF n \in h.got \/ signers[n] = {} THEN h
    ELSE [hash  |-> h.hash \cup {n} \cup signers[n],
          got   |-> h.got \cup {n},
          rev   |-> h.rev \cup ({n} \cap bad),
          signs |-> [s \in Node |-> h.signs[s] \cup IF s \in signers[n] THEN {n} ELSE {}]]

\* A search in the given mode: "path" for findpath, "furthest" for furthestkey,
\* "sigs" and "signs" for countdegree.
Search(mode, n, limit) ==
    [NoSearch EXCEPT !.mode = mode, !.keys = {n}, !.limit = limit, !.max = n]

\* initcolour, then the search begins.
Begins(mode, n, limit) ==
    /\ bfs' = Search(mode, n, limit)
    /\ colour' = [m \in Node |-> 0]
    /\ parent' = IF mode = "path" THEN [m \in Node |-> NoNode] ELSE parent
    /\ barred' = disabled \cup cache'.rev
    /\ at' = "search"

\* Mutant of GoesOn: countdegree stops one degree early.
GoesOnEarly ==
    CASE bfs.mode = "path" -> bfs.keys # {} /\ colour[have] = 0 /\ ~cleanup
      [] bfs.mode = "furthest" -> bfs.keys # {}
      [] OTHER -> bfs.keys # {} /\ bfs.degree < bfs.limit

\* The condition of the search's loop.
GoesOn ==
    CASE bfs.mode = "path" -> bfs.keys # {} /\ colour[have] = 0 /\ ~cleanup
      [] bfs.mode = "furthest" -> bfs.keys # {}
      [] OTHER -> bfs.keys # {} /\ bfs.degree <= bfs.limit

\* The keys next to k that the search has not seen.  Only findpath leaves out
\* those that are disabled or known to be revoked.
Unseen(k, h) ==
    {s \in IF bfs.mode = "signs" THEN h.signs[k]
           ELSE IF k \in h.got THEN signers[k] ELSE {} :
        /\ colour[s] = 0
        /\ bfs.mode = "path" => s \notin disabled \cup h.rev}

\* findpath stops in the middle of a list when it has marked the key it looks
\* for.
Marked(new) == IF bfs.mode = "path" /\ have \in new
               THEN {before \cup {have} : before \in SUBSET (new \ {have})}
               ELSE {new}

\* One key of the list: its unseen neighbours are marked and noted for the next
\* degree.  maxpath notes which keys come into the hash while it walks along it.
Expands(k) ==
    /\ at = "search"
    /\ GoesOn
    /\ k \in bfs.keys
    /\ cache' = IF bfs.mode = "signs" THEN cache ELSE Loaded(cache, k)
    /\ \E new \in Marked(Unseen(k, cache')) :
         LET rest == bfs.keys \ {k}
             next == bfs.next \cup new
         IN /\ colour' = [n \in Node |-> IF n \in new THEN bfs.degree ELSE colour[n]]
            /\ parent' = [n \in Node |-> IF n \in new THEN k ELSE parent[n]]
            /\ \E m \in IF new = {} THEN {bfs.max} ELSE new :
                 bfs' = [bfs EXCEPT !.keys = IF rest = {} THEN next ELSE rest,
                                    !.next = IF rest = {} THEN {} ELSE next,
                                    !.degree = IF rest = {} THEN @ + 1 ELSE @,
                                    !.count = @ + Cardinality(new),
                                    !.max = m]
    /\ stats' = [stats EXCEPT !.late = @ \cup (cache'.hash \ cache.hash)]
    /\ UNCHANGED <<database, have, want, disabled, at, path, paths, out, cleanup, barred>>

\* The loops of findpath, furthestkey and countdegree.
FindPath(k) == bfs.mode = "path" /\ Expands(k)
FurthestKey(k) == bfs.mode = "furthest" /\ Expands(k)
CountDegree(k) == bfs.mode \in {"sigs", "signs"} /\ Expands(k)

Searched == at = "search" /\ ~GoesOn

-----------------------------------------------------------------------------
(* gpgwww: dofindpath, and getkeyspath, which collects instead of printing *)

Limit == IF prog \in {"gpgwww", "getkeys"} THEN MaxPaths ELSE 1

\* Where the loop for more paths leads.
Over == IF prog = "getkeys" THEN "answer" ELSE "done"

\* Both keys must be known.  maxpath has just searched from them.
LooksUp ==
    /\ at = "start"
    /\ prog \in {"gpgwww", "getkeys"}
    /\ cache' = Loaded(Loaded(cache, have), want)
    /\ at' = IF {have, want} \subseteq cache'.hash THEN "path" ELSE "done"
    /\ UNCHANGED <<database, have, want, marks, bfs, path, paths, stats, out, cleanup, barred>>

\* Mutant of NextPath: without initcolour.
NextPathStained ==
    /\ at = "path"
    /\ cache' = cache
    /\ IF ~cleanup /\ Len(paths) < Limit
       THEN bfs' = Search("path", want, 0) /\ barred' = disabled \cup cache.rev /\ at' = "search"
       ELSE at' = Over /\ UNCHANGED <<bfs, barred>>
    /\ UNCHANGED <<database, have, want, marks, path, paths, stats, out, cleanup>>

\* The loop for one more path.
NextPath ==
    /\ at = "path"
    /\ cache' = cache
    /\ \/ /\ ~cleanup /\ Len(paths) < Limit
          /\ Begins("path", want, 0)
       \/ /\ cleanup \/ Len(paths) >= Limit
          /\ at' = Over
          /\ UNCHANGED <<bfs, colour, parent, barred>>
    /\ UNCHANGED <<database, have, want, disabled, path, paths, stats, out, cleanup>>

\* Mutant of Found: the start of the chain of parents stays as it is.
FoundKeepsParent ==
    /\ Searched
    /\ bfs.mode = "path"
    /\ path' = IF colour[have] = 0 THEN <<>> ELSE <<have>>
    /\ at' = IF colour[have] = 0 THEN Over ELSE "walk"
    /\ UNCHANGED <<database, have, want, cache, marks, bfs, paths, stats, out, cleanup, barred>>

\* findpath has returned.
Found ==
    /\ Searched
    /\ bfs.mode = "path"
    /\ parent' = [parent EXCEPT ![want] = NoNode]
    /\ path' = IF colour[have] = 0 THEN <<>> ELSE <<have>>
    /\ at' = IF colour[have] = 0 THEN Over ELSE "walk"
    /\ UNCHANGED <<database, have, want, cache, colour, disabled, bfs, paths, stats, out, cleanup,
                   barred>>

\* Bound: a walk that is longer than any path keeps its last key only.
Longer(p, n) == IF Len(p) > Cardinality(Node) THEN [p EXCEPT ![Len(p)] = n] ELSE Append(p, n)

\* Mutant of Walks: the keys on the path are not disabled.
WalksFreely ==
    LET n == path[Len(path)]
        p == parent[n] IN
    /\ at = "walk"
    /\ path' = IF p = NoNode THEN <<>> ELSE Longer(path, p)
    /\ paths' = IF p = NoNode THEN Append(paths, path) ELSE paths
    /\ at' = IF p # NoNode THEN "walk" ELSE IF colour[have] = 1 THEN Over ELSE "path"
    /\ UNCHANGED <<database, have, want, cache, marks, bfs, stats, cleanup, barred>>

\* The path is printed along the parents, or its keys are put in the answer but
\* for the ends.  The keys between its ends are disabled.  After a path of one
\* step there is no other.
Walks ==
    LET n == path[Len(path)]
        p == parent[n] IN
    /\ at = "walk"
    /\ disabled' = disabled \cup ({n} \ {have, want})
    /\ path' = IF p = NoNode THEN <<>> ELSE Longer(path, p)
    /\ paths' = IF p = NoNode THEN Append(paths, path) ELSE paths
    /\ at' = IF p # NoNode THEN "walk" ELSE IF colour[have] = 1 THEN Over ELSE "path"
    /\ UNCHANGED <<database, have, want, cache, colour, parent, bfs, stats, cleanup,
                   barred>>

\* dofindpath prints, getkeyspath collects.
DoFindPath == prog # "getkeys" /\ Walks /\ UNCHANGED out

GetKeysPath ==
    /\ prog = "getkeys"
    /\ Walks
    /\ out' = IF path[Len(path)] \in {have, want} THEN out
              ELSE [out EXCEPT !.keys = Append(@, path[Len(path)])]

\* Mutant of SendsKeys: the key at the end is left out.
SendsKeysBetween ==
    /\ at = "answer"
    /\ at' = "done"
    /\ UNCHANGED <<database, have, want, cache, marks, bfs, path, paths, stats, out, cleanup,
                   barred>>

\* The key the paths lead to is the last of the answer.
SendsKeys ==
    /\ at = "answer"
    /\ at' = "done"
    /\ out' = IF Stored(want) THEN [out EXCEPT !.keys = Append(@, want)] ELSE out
    /\ UNCHANGED <<database, have, want, cache, marks, bfs, path, paths, stats, cleanup,
                   barred>>

\* A signal: findpath and dofindpath look at the flag in their loops.
Signal == /\ at \in {"path", "search", "walk"}
          /\ prog \in {"gpgwww", "getkeys"}
          /\ ~cleanup
          /\ cleanup' = TRUE
          /\ UNCHANGED <<database, have, want, cache, marks, bfs, at, path, paths, stats, out, barred>>

-----------------------------------------------------------------------------
(* maxpath: findmaxpath *)

\* The starting key: have stands for the one in the source.
Seeds ==
    /\ at = "start"
    /\ prog = "maxpath"
    /\ cache' = Loaded(cache, have)
    /\ at' = IF have \in cache'.got THEN "loop" ELSE "done"
    /\ UNCHANGED <<database, have, want, marks, bfs, path, paths, stats, out, cleanup, barred>>

\* The next key of the hash.
Visits(n) ==
    /\ at = "loop"
    /\ stats.distance < MaxLength
    /\ n \in cache.hash \ stats.seen
    /\ cache' = Loaded(cache, n)
    /\ Begins("furthest", n, 0)
    /\ stats' = [stats EXCEPT !.seen = @ \cup {n}, !.late = @ \cup (cache'.hash \ cache.hash),
                              !.loop = n]
    /\ UNCHANGED <<database, have, want, disabled, path, paths, out, cleanup>>

\* Mutant of Furthest: the first key stays the start of the path.
FurthestFromFirst ==
    LET d == colour[bfs.max] IN
    /\ Searched
    /\ bfs.mode = "furthest"
    /\ stats' = IF d > stats.distance
                THEN [stats EXCEPT !.distance = d, !.to = bfs.max,
                                   !.from = IF @ = NoNode THEN stats.loop ELSE @]
                ELSE stats
    /\ at' = "loop"
    /\ UNCHANGED <<database, have, want, cache, marks, bfs, path, paths, out, cleanup, barred>>

\* furthestkey has returned.
Furthest ==
    LET d == colour[bfs.max] IN
    /\ Searched
    /\ bfs.mode = "furthest"
    /\ stats' = IF d > stats.distance
                THEN [stats EXCEPT !.distance = d, !.from = stats.loop, !.to = bfs.max]
                ELSE stats
    /\ at' = "loop"
    /\ UNCHANGED <<database, have, want, cache, marks, bfs, path, paths, out, cleanup, barred>>

\* The end of the hash: keys that were added behind the loop are not visited.
\* Then the path from the one end to the other is looked for.
MaxEnds ==
    /\ at = "loop"
    /\ stats.distance >= MaxLength \/ cache.hash \ stats.seen \subseteq stats.late
    /\ have' = stats.to
    /\ want' = stats.from
    /\ at' = IF stats.from = NoNode THEN "done" ELSE "path"
    /\ UNCHANGED <<database, cache, marks, bfs, path, paths, stats, out, cleanup, barred>>

-----------------------------------------------------------------------------
(* sixdegrees *)

\* Fills the hash: signs is only known of keys whose signees were fetched.
Fills ==
    /\ at = "start"
    /\ prog = "sixdegrees"
    /\ cache' = Loaded(cache, have)
    /\ IF have \in cache'.hash
       THEN Begins("sigs", have, Degrees + 1)
       ELSE at' = "done" /\ UNCHANGED <<bfs, colour, parent, barred>>
    /\ UNCHANGED <<database, have, want, disabled, path, paths, stats, out, cleanup>>

\* countdegree has returned: "sigs", then "signs", for each degree.
Counted ==
    /\ Searched
    /\ bfs.mode \in {"sigs", "signs"}
    /\ cache' = cache
    /\ LET more == bfs.mode = "signs" \/ stats.loop = 0
       IN /\ stats' = [stats EXCEPT !.loop = IF more THEN @ + 1 ELSE @]
          /\ IF stats'.loop > Degrees
             THEN at' = "done" /\ UNCHANGED <<bfs, colour, parent, barred>>
             ELSE Begins(IF more THEN "sigs" ELSE "signs", have, stats'.loop)
    /\ UNCHANGED <<database, have, want, disabled, path, paths, out, cleanup>>

-----------------------------------------------------------------------------
(* wotsap *)

\* A key that is not in the hash after it was looked up: the program uses the
\* null pointer.
WotStarts ==
    /\ at = "start"
    /\ prog = "wotsap"
    /\ cache' = Loaded(cache, have)
    /\ IF have \in cache'.hash
       THEN at' = "wot" /\ out' = [out EXCEPT !.keys = <<have>>]
       ELSE at' = "undefined" /\ out' = out
    /\ UNCHANGED <<database, have, want, marks, bfs, path, paths, stats, cleanup, barred>>

\* sortkeyll: each signer once, by key id.
SortKeys(S) == SelectSeq([i \in 1 .. Cardinality(Node) |-> i], LAMBDA n : n \in S)

\* Mutant of Numbers: a key that turns out to be revoked gets its number.
NumbersRevoked(w, s) ==
    IF s \in ToSet(w.keys) \/ s \in w.cache.rev \/ ~Stored(s) THEN w
    ELSE [cache |-> Loaded(w.cache, s), keys |-> Append(w.keys, s)]

\* A signer that has no number yet gets the next one, unless it is not stored or
\* revoked, which is known when it has been loaded.
Numbers(w, s) ==
    LET h == Loaded(w.cache, s)
    IN IF s \in ToSet(w.keys) \/ s \in w.cache.rev \/ ~Stored(s) THEN w
       ELSE [cache |-> h, keys |-> IF s \in h.rev THEN w.keys ELSE Append(w.keys, s)]

\* The next key: its signers are numbered, then those with a number written.
WotSap ==
    LET k == out.keys[Len(out.sigs) + 1]
        h == Loaded(cache, k)
        list == SortKeys(IF k \in h.got THEN signers[k] ELSE {})
        w == FoldLeft(Numbers, [cache |-> h, keys |-> out.keys], list)
        listed == SelectSeq(list, LAMBDA s : s \in ToSet(w.keys))
    IN /\ at = "wot"
       /\ Len(out.sigs) < Len(out.keys)
       /\ cache' = w.cache
       /\ out' = [keys |-> w.keys,
                  sigs |-> Append(out.sigs, [i \in DOMAIN listed |->
                                                CHOOSE j \in DOMAIN w.keys : w.keys[j] = listed[i]])]
       /\ at' = IF Len(out'.sigs) = Len(out'.keys) THEN "done" ELSE "wot"
       /\ UNCHANGED <<database, have, want, marks, bfs, path, paths, stats, cleanup, barred>>

-----------------------------------------------------------------------------
Step == \/ \E n \in Node : FindPath(n) \/ FurthestKey(n) \/ CountDegree(n) \/ Visits(n)
        \/ LooksUp \/ NextPath \/ Found \/ DoFindPath \/ GetKeysPath \/ SendsKeys
        \/ Seeds \/ Furthest \/ MaxEnds \/ Fills \/ Counted \/ WotStarts \/ WotSap

Next == Step \/ Signal

\* The programs run on.
Spec == Init /\ [][Next]_vars /\ WF_vars(Step)

-----------------------------------------------------------------------------
\* The keys that are i signatures or fewer from n when those in without are not
\* used, along edge(k), the keys next to k.
Ball(n, edge(_), without) ==
    LET b[i \in 0 .. Cardinality(Node)] ==
            IF i = 0 THEN {n}
            ELSE b[i - 1] \cup UNION {edge(k) \ without : k \in b[i - 1]}
    IN b

\* The keys that one to i signatures lead to: n itself only when some circle is
\* short enough.
Sphere(n, edge(_), without, i) ==
    UNION {edge(k) \ without : k \in Ball(n, edge, without)[i - 1]}

SignersOf(k) == signers[k]
SignsOf(k) == {n \in cache.got : k \in signers[n]}

\* findpath finds a shortest path among the keys that were neither disabled nor
\* known to be revoked when it started, and finds none only when there is none
\* or a signal stopped it.
PathShortest ==
    Searched /\ bfs.mode = "path" =>
        LET Within(i) == have \in Sphere(want, SignersOf, barred, i)
            d == colour[have]
        IN IF d = 0 THEN cleanup \/ \A i \in 1 .. Cardinality(Node) : ~Within(i)
           ELSE Within(d) /\ (d > 1 => ~Within(d - 1))

\* What is printed is a chain of signatures from have to want with as many
\* steps as findpath said, and no key but the two ends is in two of them.
PathsPrinted ==
    \A i \in DOMAIN paths :
        LET p == paths[i]
            Between(q) == {q[j] : j \in DOMAIN q} \ {have, want}
        IN /\ p[1] = have /\ p[Len(p)] = want
           /\ \A j \in 1 .. Len(p) - 1 : p[j] \in signers[p[j + 1]]
           /\ \A j \in DOMAIN paths : j # i => Between(p) \cap Between(paths[j]) = {}

\* The answer of getkeyspath has every key of every path but the one the user
\* has, the last one included when it is stored, and no other.
KeysSent ==
    at = "done" /\ prog = "getkeys" /\ {have, want} \subseteq cache.hash =>
        LET on == {n \in Node : \E i \in DOMAIN paths : \E j \in DOMAIN paths[i] :
                                  paths[i][j] = n}
        IN ToSet(out.keys) = (on \ {have}) \cup ({want} \cap {n \in Node : Stored(n)})

\* maxpath's answer is the distance of the two keys it names, and no key it
\* visited has another further away.
MaxTrue ==
    at = "path" /\ prog = "maxpath" =>
        /\ stats.to \in Sphere(stats.from, SignersOf, {}, stats.distance)
        /\ stats.distance > 1 => stats.to \notin Sphere(stats.from, SignersOf, {}, stats.distance - 1)
        /\ stats.distance < MaxLength => \A n \in stats.seen :
              Sphere(n, SignersOf, {}, Cardinality(Node))
                  \subseteq Sphere(n, SignersOf, {}, stats.distance)

\* sixdegrees counts the keys within each degree; in the other direction those
\* among the signatures it has fetched.
DegreesTrue ==
    Searched /\ bfs.mode \in {"sigs", "signs"} =>
        bfs.count = Cardinality(
            IF bfs.mode = "sigs" THEN Sphere(have, SignersOf, {}, bfs.limit)
            ELSE Sphere(have, SignsOf, {}, bfs.limit))

\* wotsap's files fit together: the keys are those that signatures lead to from
\* the first one without passing by one that is not stored or revoked, each
\* once, and the signatures of each are all those of keys in the file, under
\* their numbers and in the order of the key ids.
WotsapTrue ==
    at = "done" /\ prog = "wotsap" =>
        LET Usable(k) == {s \in signers[k] : Stored(s) /\ ~(s \in bad /\ signers[s] # {})}
            all == Ball(have, Usable, {})[Cardinality(Node)]
        IN /\ ToSet(out.keys) = all /\ Len(out.keys) = Cardinality(all)
           /\ \A i \in DOMAIN out.keys :
                 [j \in DOMAIN out.sigs[i] |-> out.keys[out.sigs[i][j]]] =
                     SortKeys(signers[out.keys[i]] \cap all)

\* What the programs put out is true: the paths of gpgwww, the keys that go with
\* them, maxpath's distance, the counts of sixdegrees and wotsap's files.
AnswersTrue == PathsPrinted /\ KeysSent /\ MaxTrue /\ DegreesTrue /\ WotsapTrue

\* Every program ends: the chain of parents that is printed has no circle.
Ends == <>(at \in {"done", "undefined"})
=============================================================================
