------------------------------- MODULE FsStore -------------------------------
(***************************************************************************)
(* The file system backend (keydb/keydb_fs.c): a file per key, hard links  *)
(* to it under the words of its user ids, the ids of its subkeys and its   *)
(* SKS hash, and a lock file.                                              *)
(*                                                                         *)
(* Several processes use one store.  starttrans tries to lock twenty-one   *)
(* times and then goes on without the lock.  A process may die between any *)
(* two system calls; the system then drops its lock.                       *)
(*                                                                         *)
(* A file is an inode of data; links maps the paths to inodes.  Writing    *)
(* into a file that is not empty (a new key is opened without O_TRUNC)     *)
(* leaves the rest of what was there when that was longer.                 *)
(***************************************************************************)
EXTENDS KeyData

CONSTANTS
    Proc, Inode,
    NoFile,         \* a path that does not exist
    NoProc,         \* nobody holds the lock
    Empty,          \* a file without contents
    Submitted,      \* bound: the keys that are submitted
    MaxOps,         \* bound: operations
    MaxFaults       \* bound: locks given up, processes killed

VARIABLES
    links,      \* per path: its inode, or NoFile
    data,       \* per inode: the key written to it last, or Empty
    torn,       \* the inodes that hold pieces of such keys
    lock,       \* who holds the lock
    proc,       \* per process: its operation and what it has in hand
    expect,     \* history: what each key should be
    unlocked,   \* history: some operation went on without the lock
    damaged,    \* history: keys whose file a killed process left in the middle
    unindexed,  \* history: keys whose links a killed process left incomplete
    deleted,    \* history: keys that were deleted before
    ops, faults

vars == <<links, data, torn, lock, proc, expect, unlocked, damaged, unindexed, deleted,
          ops, faults>>
files == <<links, data, torn>>
history == <<expect, unlocked, damaged, unindexed, deleted>>
counts == <<ops, faults>>

KeyPath(f) == <<"key", f>>
WordPath(w, f) == <<"words", w, f>>
SubkeyPath(f) == <<"subkeys", f>>
SksPath(h) == <<"skshash", h>>

Path == {KeyPath(f) : f \in Fp} \cup {WordPath(w, f) : w \in Word, f \in Fp}
        \cup {SubkeyPath(f) : f \in Fp} \cup {SksPath(h) : h \in Hash}

\* A process: the key submitted, the key to store, its id.
Idle == [at |-> "idle", sub |-> NoKey, key |-> NoKey, fp |-> NoFp,
         update |-> FALSE, ino |-> NoFile]

Init == /\ links = [x \in Path |-> NoFile]
        /\ data = [n \in Inode |-> Empty]
        /\ torn = {}
        /\ lock = NoProc
        /\ proc = [p \in Proc |-> Idle]
        /\ expect = [f \in Fp |-> NoKey]
        /\ unlocked = FALSE
        /\ damaged = {}
        /\ unindexed = {}
        /\ deleted = {}
        /\ ops = 0
        /\ faults = 0

-----------------------------------------------------------------------------
(* Lookups *)

\* onak_read_openpgp_file and parse_keys: what a path can be read as.  Pieces
\* may parse as no key or as something of the key.
ReadFile(x) ==
    CASE links[x] = NoFile -> {NoKey}
      [] data[links[x]] = Empty -> {NoKey}
      [] links[x] \in torn -> {NoKey} \cup {k \in Key : FpOf(k) = FpOf(data[links[x]])}
      [] OTHER -> {data[links[x]]}

\* fetch_key_id with a full id: the key's file, else the link of a subkey.  A
\* file that exists and cannot be read ends the search.
FetchId(f) ==
    IF links[KeyPath(f)] # NoFile THEN ReadFile(KeyPath(f)) ELSE ReadFile(SubkeyPath(f))

\* getfullkeyid: a short id stands for one of the keys in its directory, or for
\* one of the subkeys when there is none.
GetFullKeyId(id) ==
    LET keys == {f \in Fp : id \in Ids(f) /\ links[KeyPath(f)] # NoFile}
    IN  IF keys # {} THEN keys
        ELSE {f \in Fp : id \in Ids(f) /\ links[SubkeyPath(f)] # NoFile}

\* fetch_key_text: the keys listed under every word.
FetchText(words) ==
    {f \in Fp : \A w \in words : links[WordPath(w, f)] # NoFile}

FetchSksHash(h) == ReadFile(SksPath(h))

-----------------------------------------------------------------------------
(* Transactions *)

\* Mutant of StartTrans: the lock is not taken.
StartTransUnlocked(p) == UNCHANGED <<lock, unlocked, faults>>

\* fs_starttrans: the lock, or after twenty more tries none.
StartTrans(p) ==
    \/ /\ lock \in {NoProc, p}
       /\ lock' = p
       /\ UNCHANGED <<unlocked, faults>>
    \/ /\ lock \notin {NoProc, p}
       /\ faults < MaxFaults
       /\ faults' = faults + 1
       /\ unlocked' = TRUE
       /\ UNCHANGED lock

\* fs_endtrans: whatever lock the process holds.
EndTrans(p) == lock' = IF lock = p THEN NoProc ELSE lock

\* store_key tries again when its caller got no lock.
Relocks(p) == lock' = IF lock = NoProc THEN p ELSE lock

Goes(p, r) == proc' = [proc EXCEPT ![p] = r]

-----------------------------------------------------------------------------
(* update_keys with one key *)

Submits(p, k) ==
    /\ proc[p].at = "idle"
    /\ ops < MaxOps
    /\ ops' = ops + 1
    /\ StartTrans(p)
    /\ Goes(p, [Idle EXCEPT !.at = "fetch", !.sub = k, !.key = k, !.fp = FpOf(k)])
    /\ UNCHANGED <<files, expect, damaged, unindexed, deleted>>

\* merge_keys refuses keys with different fingerprints, and then all of the new
\* one is left over: the old one is stored again.
Merged(old, k) == IF FpOf(old) = FpOf(k) THEN Merge(old, k) ELSE old
Differs(old, k) == FpOf(old) # FpOf(k) \/ Changes(old, k)

\* What the submission of k should make of the keys.
Expected(k) ==
    [expect EXCEPT ![FpOf(k)] = IF @ = NoKey THEN k ELSE Merge(@, k)]

\* fetch_key_fp and, when there is a key, merge_keys.  Nothing is stored when
\* the merge leaves nothing over.
Fetches(p) ==
    LET k == proc[p].key IN
    /\ proc[p].at = "fetch"
    /\ \E old \in FetchId(proc[p].fp) :
          \/ /\ old = NoKey
             /\ Goes(p, [proc[p] EXCEPT !.at = "open"])
             /\ UNCHANGED <<lock, expect>>
          \/ /\ old # NoKey
             /\ Differs(old, k)
             /\ Goes(p, [proc[p] EXCEPT !.at = "open", !.key = Merged(old, k),
                                        !.fp = FpOf(old), !.update = TRUE])
             /\ UNCHANGED <<lock, expect>>
          \/ /\ old # NoKey
             /\ ~Differs(old, k)
             /\ EndTrans(p)
             /\ Goes(p, Idle)
             /\ expect' = Expected(k)
    /\ UNCHANGED <<files, unlocked, damaged, unindexed, deleted, counts>>

Unused(n) == /\ \A x \in Path : links[x] # n
             /\ \A p \in Proc : proc[p].ino # n

\* fs_store_key up to the write: an update opens a file that exists and empties
\* it, a new key opens one that need not exist and leaves it as it is.  When the
\* open fails nothing is stored.
Opens(p) ==
    LET x == KeyPath(proc[p].fp) IN
    /\ proc[p].at = "open"
    /\ \/ /\ links[x] # NoFile
          /\ data' = IF proc[p].update THEN [data EXCEPT ![links[x]] = Empty] ELSE data
          /\ torn' = IF proc[p].update THEN torn \ {links[x]} ELSE torn
          /\ Goes(p, [proc[p] EXCEPT !.at = "write", !.ino = links[x]])
          /\ Relocks(p)
          /\ UNCHANGED links
       \/ /\ links[x] = NoFile
          /\ ~proc[p].update
          /\ LET n == CHOOSE m \in Inode : Unused(m) IN
             /\ links' = [links EXCEPT ![x] = n]
             /\ data' = [data EXCEPT ![n] = Empty]
             /\ torn' = torn \ {n}
             /\ Goes(p, [proc[p] EXCEPT !.at = "write", !.ino = n])
          /\ Relocks(p)
       \/ /\ links[x] = NoFile
          /\ proc[p].update
          /\ EndTrans(p)
          /\ Goes(p, Idle)
          /\ UNCHANGED files
    /\ UNCHANGED <<history, counts>>

Writes(p) ==
    LET n == proc[p].ino
        k == proc[p].key IN
    /\ proc[p].at = "write"
    /\ data' = [data EXCEPT ![n] = k]
    /\ \/ torn' = torn \ {n}
       \/ data[n] # Empty /\ torn' = torn \cup {n}
    /\ expect' = IF FpOf(proc[p].sub) = FpOf(k) THEN Expected(proc[p].sub) ELSE expect
    /\ Goes(p, [proc[p] EXCEPT !.at = "index", !.ino = NoFile])
    /\ UNCHANGED <<links, lock, unlocked, damaged, unindexed, deleted, counts>>

\* link(): fails when the key's file is gone, and leaves a path that exists.
Linked(f, paths) ==
    [x \in Path |-> IF x \in paths /\ links[x] = NoFile
                    THEN links[KeyPath(f)] ELSE links[x]]

\* Mutant of Indexes: only new keys get links.
IndexesNew(p) ==
    LET k == proc[p].key IN
    /\ proc[p].at = "index"
    /\ links' = IF proc[p].update THEN links
                ELSE Linked(FpOf(k), {WordPath(w, FpOf(k)) : w \in Words(k)}
                                     \cup {SubkeyPath(f) : f \in SubkeyFps(k)})
    /\ Goes(p, [proc[p] EXCEPT !.at = "hash"])
    /\ UNCHANGED <<data, torn, lock, history, counts>>

\* Mutant of Indexes: subkeys get no links.
IndexesWords(p) ==
    LET k == proc[p].key IN
    /\ proc[p].at = "index"
    /\ links' = Linked(FpOf(k), {WordPath(w, FpOf(k)) : w \in Words(k)})
    /\ Goes(p, [proc[p] EXCEPT !.at = "hash"])
    /\ UNCHANGED <<data, torn, lock, history, counts>>

\* Links under the words and the subkeys of the key.
Indexes(p) ==
    LET k == proc[p].key IN
    /\ proc[p].at = "index"
    /\ links' = Linked(FpOf(k), {WordPath(w, FpOf(k)) : w \in Words(k)}
                                \cup {SubkeyPath(f) : f \in SubkeyFps(k)})
    /\ Goes(p, [proc[p] EXCEPT !.at = "hash"])
    /\ UNCHANGED <<data, torn, lock, history, counts>>

\* Mutant of Hashes: an update does not link the new hash.
HashesNew(p) ==
    LET k == proc[p].key IN
    /\ proc[p].at = "hash"
    /\ links' = IF proc[p].update THEN links ELSE Linked(FpOf(k), {SksPath(SksHash(k))})
    /\ unindexed' = unindexed \ {FpOf(k)}
    /\ EndTrans(p)
    /\ Goes(p, Idle)
    /\ UNCHANGED <<data, torn, expect, unlocked, damaged, deleted, counts>>

\* The link under the SKS hash, and the end of the transaction.
Hashes(p) ==
    LET k == proc[p].key IN
    /\ proc[p].at = "hash"
    /\ links' = Linked(FpOf(k), {SksPath(SksHash(k))})
    /\ unindexed' = unindexed \ {FpOf(k)}
    /\ EndTrans(p)
    /\ Goes(p, Idle)
    /\ UNCHANGED <<data, torn, expect, unlocked, damaged, deleted, counts>>

-----------------------------------------------------------------------------
(* delete_key *)

Deletes(p, f) ==
    /\ proc[p].at = "idle"
    /\ ops < MaxOps
    /\ ops' = ops + 1
    /\ StartTrans(p)
    /\ Goes(p, [Idle EXCEPT !.at = "unindex", !.fp = f])
    /\ UNCHANGED <<files, expect, damaged, unindexed, deleted>>

\* The links of what is read as the key, under the id it was asked for.
Unindexes(p) ==
    LET Named(k) == {WordPath(w, proc[p].fp) : w \in Words(k)}
                    \cup {SubkeyPath(f) : f \in SubkeyFps(k)}
                    \cup {SksPath(SksHash(k))} IN
    /\ proc[p].at = "unindex"
    /\ \E k \in FetchId(proc[p].fp) :
          links' = IF k = NoKey THEN links
                   ELSE [x \in Path |-> IF x \in Named(k) THEN NoFile ELSE links[x]]
    /\ Goes(p, [proc[p] EXCEPT !.at = "unlink"])
    /\ UNCHANGED <<data, torn, lock, history, counts>>

Unlinks(p) ==
    /\ proc[p].at = "unlink"
    /\ links' = [links EXCEPT ![KeyPath(proc[p].fp)] = NoFile]
    /\ expect' = [expect EXCEPT ![proc[p].fp] = NoKey]
    /\ deleted' = deleted \cup {proc[p].fp}
    /\ EndTrans(p)
    /\ Goes(p, Idle)
    /\ UNCHANGED <<data, torn, unlocked, damaged, unindexed, counts>>

-----------------------------------------------------------------------------
\* A process is killed; in the middle of a write it leaves part of the file.
Dies(p) ==
    LET r == proc[p] IN
    /\ r.at # "idle"
    /\ faults < MaxFaults
    /\ faults' = faults + 1
    /\ EndTrans(p)
    /\ \/ UNCHANGED <<data, torn>>
       \/ /\ r.at = "write"
          /\ data' = [data EXCEPT ![r.ino] = r.key]
          /\ torn' = torn \cup {r.ino}
    /\ damaged' = IF r.at \in {"write", "unindex", "unlink"}
                  THEN damaged \cup {r.fp} ELSE damaged
    /\ unindexed' = IF r.at \in {"index", "hash"} THEN unindexed \cup {r.fp} ELSE unindexed
    /\ Goes(p, Idle)
    /\ UNCHANGED <<links, expect, unlocked, deleted, ops>>

Next == \E p \in Proc :
          \/ \E k \in Submitted : Submits(p, k)
          \/ Fetches(p) \/ Opens(p) \/ Writes(p) \/ Indexes(p) \/ Hashes(p)
          \/ \E f \in {FpOf(k) : k \in Submitted} : Deletes(p, f)
          \/ Unindexes(p) \/ Unlinks(p)
          \/ Dies(p)

Spec == Init /\ [][Next]_vars

-----------------------------------------------------------------------------
\* Keys that nobody works on and no killed process left half written.
Settled == {f \in Fp \ damaged : \A p \in Proc : proc[p].fp # f}
Indexed == {f \in Settled \ unindexed : expect[f] # NoKey}

\* As long as no operation gave up waiting for the lock, every key is the merge
\* of all that was submitted since it was deleted last, whatever other
\* processes did meanwhile.  A killed process takes no key with it but the one
\* whose file it was writing or deleting.
NothingLost ==
    ~unlocked => \A f \in Settled : ReadFile(KeyPath(f)) = {expect[f]}

\* A text search lists the keys that have all the words, and no other.
TextFinds ==
    \A words \in SUBSET Word \ {{}} : \A f \in Settled \ unindexed :
        f \in FetchText(words) <=> expect[f] # NoKey /\ words \subseteq Words(expect[f])

\* A key is found by the ids of its subkeys, and a short id finds a key that has
\* it although links of other keys share its directory.
IdsFind ==
    \A f \in Indexed :
        /\ \A g \in SubkeyFps(expect[f]) : FetchId(g) = {expect[f]}
        /\ \A g \in FpsOf(expect[f]) : \A id \in Ids(g) :
              /\ GetFullKeyId(id) # {}
              /\ \A h \in GetFullKeyId(id) \cap Indexed :
                    \A k \in FetchId(h) : k # NoKey /\ id \in UNION {Ids(l) : l \in FpsOf(k)}

\* A key that was never deleted is found by its SKS hash after every update.
HashFinds ==
    \A f \in Indexed \ deleted : FetchSksHash(SksHash(expect[f])) = {expect[f]}

\* The lookups by text, id and SKS hash agree with the keys: links outlive
\* neither a delete nor an update, and an update after a killed one makes up
\* the links that are missing.
LookupsFind == ~unlocked => TextFinds /\ IdsFind /\ HashFinds
=============================================================================
