------------------------------ MODULE Db4Search ------------------------------
(***************************************************************************)
(* What processes that have opened one Berkeley DB store do at the same    *)
(* time: text searches of one transaction per word, lookups by SKS hash,   *)
(* walks over all keys, clean-aged, updates and deletes.                   *)
(*                                                                         *)
(* Berkeley DB is external.  A table is one lock (its keys share a page),  *)
(* taken for reading or writing and held by a transaction until it ends or *)
(* by a cursor outside a transaction until it is closed.  The deadlock     *)
(* detector looks at the lockers that wait; its victim cannot commit, and  *)
(* endtrans ends the process.  A key is the set of its tags: "key", the    *)
(* words of its user IDs, "aged" when it matches the aged predicate.  The  *)
(* indexes follow the keys (the invariants of Db4Store).                   *)
(***************************************************************************)
EXTENDS Db4Open, Sequences, SequencesExt, FiniteSetsExt

CONSTANTS
    Fp,             \* fingerprints, numbers in the order of fingerprint_cmp
    Ops,            \* the operations of this instance
    Stores,         \* what keydb may hold at first
    Texts,          \* the searches, as makewordlist splits them
    Submitted,      \* the tags of the keys given to update_keys
    NumDbs,         \* num_keydb
    MaxKeys,        \* config.maxkeys
    MaxOps          \* bound: operations started

\* A store has a place for every fingerprint; a key that is submitted has its
\* tag "key".
ASSUME StoreAssumption == /\ \A s \in Stores : DOMAIN s = Fp
                          /\ \A t \in Submitted : "key" \in t

\* Fingerprints are positive numbers, "hash" is no word, and there is a file.
ASSUME QueryAssumption == /\ IsFiniteSet(Fp)
                          /\ Fp \subseteq Nat \ {0}
                          /\ NumDbs \in Nat \ {0}
                          /\ MaxKeys \in Int
                          /\ \A ws \in Texts : ws \in Seq(ToSet(ws)) /\ "hash" \notin ToSet(ws)

VARIABLES
    keys,           \* keydb: fingerprint -> tags, {} when there is no key
    run,            \* what each process does
    hist,           \* history: what was true while an operation ran
    ops,
    removed,        \* history: keys that have gone
    counted         \* history: deletes that returned 0

vars == <<at, lock, env, files, place, faults, stale, keys, run, hist, ops, removed, counted>>

Keys == {f \in Fp : keys[f] # {}}

\* Locks on a table ("word", "keys" or "hash").
R(t) == [table |-> t, write |-> FALSE]
W(t) == [table |-> t, write |-> TRUE]

\* need: the locks to get before the step stage; txn, cursor: those held by the
\* transaction and by a cursor outside it; list: fingerprints found so far.
Idle == [op |-> "none", stage |-> "done", f |-> 0, tags |-> {}, words |-> <<>>,
         need |-> <<>>, txn |-> {}, cursor |-> {}, list |-> {}, pos |-> <<0, 0>>,
         first |-> TRUE, res |-> {}, cut |-> FALSE]

Init == /\ OpenInit
        /\ keys \in Stores
        /\ run = [p \in Proc |-> Idle]
        /\ hist = [p \in Proc |-> [steady |-> {}, ever |-> {}]]
        /\ ops = 0
        /\ removed = 0
        /\ counted = 0

Busy(p) == run[p].stage # "done"

\* Bound: nothing starts before the store is open everywhere, without faults.
Settled == faults = 0 /\ \A p \in Proc : at[p] \in {"running", "gone"}

-----------------------------------------------------------------------------
\* The locks.

Conflict(l, held) == \E h \in held : h.table = l.table /\ (h.write \/ l.write)

\* The processes whose transaction, and those whose cursor, p waits for.
TxnsBefore(p) == {q \in Proc \ {p} : Conflict(run[p].need[1], run[q].txn)}
CursorsBefore(p) == {q \in Proc \ {p} : Conflict(run[p].need[1], run[q].cursor)}

Waiting == {p \in Proc : run[p].need # <<>> /\ TxnsBefore(p) \union CursorsBefore(p) # {}}

\* A cycle of transactions that wait for each other; a cursor does not wait,
\* even when its process does.
InCycle(s) == s # {} /\ s \subseteq Waiting /\ \A p \in s : s \intersect TxnsBefore(p) # {}

Gets(p) ==
    /\ run[p].need # <<>>
    /\ p \notin Waiting
    /\ LET l == run[p].need[1]
           out == run[p].stage = "lookup"
       IN  run' = [run EXCEPT ![p].need = Tail(@),
                              ![p].txn = IF out THEN @ ELSE @ \union {l},
                              ![p].cursor = IF out THEN @ \union {l} ELSE @]
    /\ UNCHANGED <<openvars, keys, hist, ops, removed, counted>>

\* Mutant of Detects: set_lk_detect is not called.
DetectsNothing == FALSE /\ UNCHANGED vars

\* The detector chooses a victim: its transaction is undone, its process ends.
Detects ==
    /\ \E s \in SUBSET Proc : InCycle(s) /\ \E p \in s :
          /\ To(p, "gone")
          /\ run' = [run EXCEPT ![p] = Idle]
    /\ UNCHANGED <<lock, env, files, place, faults, stale, keys, hist, ops, removed, counted>>

-----------------------------------------------------------------------------
\* Steps.

\* What an operation asks of a key while it looks for keys.
Asks(r) == CASE r.op = "search" -> r.tags
             [] r.stage = "walk" -> {"aged"}
             [] r.op = "hash" -> {"hash"}
             [] OTHER -> {}

Has(r, f, t, k) == IF t = "hash" THEN f = r.f /\ k[f] = r.tags ELSE t \in k[f]

\* History: what an operation r asks, when the keys become k.
Seen(r, h, k) ==
    IF Asks(r) = {} THEN h
    ELSE [steady |-> {f \in h.steady : \A t \in Asks(r) : Has(r, f, t, k)},
          ever |-> h.ever \union {x \in Fp \X Asks(r) : Has(r, x[1], x[2], k)}]

\* The keys become k.
Becomes(k) ==
    /\ keys' = k
    /\ hist' = [p \in Proc |-> IF Busy(p) THEN Seen(run[p], hist[p], k) ELSE hist[p]]
    /\ removed' = removed + Cardinality({f \in Keys : k[f] = {}})

\* The process goes on as r.
Goes(p, r) == run' = [run EXCEPT ![p] = r] /\ UNCHANGED <<openvars, ops>>
Keeps == UNCHANGED <<keys, hist, removed, counted>>

\* The transaction ends and lets its locks go; a query keeps its answer.
Ended(r) == IF r.op \in {"update", "delete"} THEN Idle
            ELSE [r EXCEPT !.stage = "done", !.txn = {}, !.cursor = {}, !.first = TRUE,
                           !.f = 0, !.pos = <<0, 0>>]

At(p, stage) == run[p].stage = stage /\ run[p].need = <<>>

Starts(p, r) ==
    /\ r.op \in Ops
    /\ Settled
    /\ at[p] = "running"
    /\ ~Busy(p)
    /\ ops < MaxOps
    /\ ops' = ops + 1
    /\ run' = [run EXCEPT ![p] = r]
    /\ hist' = [hist EXCEPT ![p] = Seen(r, [steady |-> Keys, ever |-> {}], keys)]
    /\ UNCHANGED <<openvars, keys, removed, counted>>

-----------------------------------------------------------------------------
\* fetch_key_text.

\* The transaction for the next word, or the last one, which fetches the keys.
NextPass(r) ==
    IF r.words # <<>> THEN [r EXCEPT !.stage = "pass", !.txn = {}, !.need = <<R("word")>>]
                      ELSE [r EXCEPT !.stage = "fetch", !.txn = {}, !.need = <<R("keys")>>]

Searches(p) ==
    \E ws \in Texts :
        Starts(p, NextPass([Idle EXCEPT !.op = "search", !.words = ws, !.tags = ToSet(ws)]))

\* Mutant of Passes: a word that no key has leaves the list as it was.
PassesOver(p) ==
    /\ At(p, "pass")
    /\ LET r == run[p]
           found == {f \in Keys : Head(r.words) \in keys[f]}
           list == IF r.first \/ r.list \intersect found = {} THEN found
                   ELSE r.list \intersect found
       IN  Goes(p, NextPass([r EXCEPT !.words = Tail(@), !.first = FALSE, !.list = list]))
    /\ Keeps

\* One word: the keys that have it, among those that have the words before it.
Passes(p) ==
    /\ At(p, "pass")
    /\ LET r == run[p]
           found == {f \in Keys : Head(r.words) \in keys[f]}
           list == IF r.first THEN found ELSE r.list \intersect found
       IN  Goes(p, NextPass([r EXCEPT !.words = Tail(@), !.first = FALSE, !.list = list]))
    /\ Keeps

\* The n smallest.
Least(s, n) == {f \in s : Cardinality({g \in s : g < f}) < n}

\* The keys of the list, at most config.maxkeys, that are still there.
FetchesList(p) ==
    /\ At(p, "fetch")
    /\ Goes(p, Ended([run[p] EXCEPT !.res = Least(run[p].list, MaxKeys) \intersect Keys]))
    /\ Keeps

-----------------------------------------------------------------------------
\* fetch_key_skshash: the cursor outside a transaction stays open while the
\* key is fetched in one.

HashStarts(p) ==
    \E f \in Keys : Starts(p, [Idle EXCEPT !.op = "hash", !.stage = "lookup", !.f = f,
                                           !.tags = keys[f], !.need = <<R("hash")>>])

LooksUp(p) ==
    /\ At(p, "lookup")
    /\ LET r == run[p]
       IN  Goes(p, IF Has(r, r.f, "hash", keys)
                   THEN [r EXCEPT !.stage = "hashfetch", !.need = <<R("keys")>>]
                   ELSE Ended(r))
    /\ Keeps

FetchesHash(p) ==
    /\ At(p, "hashfetch")
    /\ Goes(p, Ended([run[p] EXCEPT !.res = {run[p].f} \intersect Keys]))
    /\ Keeps

-----------------------------------------------------------------------------
\* iterate_keys with the callbacks of the aged commands, and delete_key.

\* The next key to delete, or the end.
NextDelete(r) ==
    IF r.list = {} THEN Ended(r)
    ELSE [r EXCEPT !.stage = "find", !.txn = {}, !.need = <<R("keys")>>, !.f = Min(r.list),
                   !.list = @ \ {Min(@)}]

WalkStarts(p) ==
    \E op \in {"walk", "clean"} : Starts(p, [Idle EXCEPT !.op = op, !.stage = "walk"])

DeleteStarts(p) ==
    \E f \in Fp : Starts(p, NextDelete([Idle EXCEPT !.op = "delete", !.list = {f}]))

\* The place of a key: its file, then the order of the cursor.
Place(f) == <<f % NumDbs, f>>
After(pos) == {f \in Keys : \/ Place(f)[1] > pos[1]
                            \/ Place(f)[1] = pos[1] /\ f > pos[2]}
NextKey(pos) == CHOOSE f \in After(pos) : \A g \in After(pos) \ {f} : g \in After(Place(f))

\* Another transaction writes keys, and the cursor waits for it.
Written(p) == \E q \in Proc \ {p} : Conflict(R("keys"), run[q].txn)

WalkEnds(r) == IF r.op = "clean" THEN NextDelete([r EXCEPT !.list = r.res]) ELSE Ended(r)

\* What the callbacks list, dump or collect: the key if it is aged or expired.
Collects(f) == IF "aged" \in keys[f] THEN {f} ELSE {}

\* The next key is handed to the callback.
Visits(p) ==
    /\ At(p, "walk")
    /\ ~Written(p)
    /\ LET r == run[p]
           f == NextKey(r.pos)
       IN  Goes(p, IF After(r.pos) = {} THEN WalkEnds(r)
                   ELSE [r EXCEPT !.pos = Place(f), !.res = @ \union Collects(f)])
    /\ Keeps

\* The cursor loses a deadlock: the walk goes on with the next file.
VisitFails(p) ==
    /\ At(p, "walk")
    /\ Written(p)
    /\ run[p].pos[1] < NumDbs
    /\ Goes(p, [run[p] EXCEPT !.pos = <<@[1] + 1, 0>>, !.cut = TRUE])
    /\ Keeps

\* Mutant of Finds: a key that is not there counts as deleted.
FindsAnyhow(p) ==
    /\ At(p, "find")
    /\ Goes(p, [run[p] EXCEPT !.stage = "remove", !.need = <<W("word"), W("hash"), W("keys")>>])
    /\ Keeps

\* delete_key: the key is fetched; 1 when it is not there.
Finds(p) ==
    /\ At(p, "find")
    /\ Goes(p, IF run[p].f \in Keys
               THEN [run[p] EXCEPT !.stage = "remove", !.need = <<W("word"), W("hash"), W("keys")>>]
               ELSE NextDelete(run[p]))
    /\ Keeps

Removes(p) ==
    /\ At(p, "remove")
    /\ Becomes([keys EXCEPT ![run[p].f] = {}])
    /\ counted' = counted + 1
    /\ Goes(p, NextDelete(run[p]))

-----------------------------------------------------------------------------
\* update_keys with one key: fetched, merged and stored in a transaction.

UpdateStarts(p) ==
    \E f \in Fp, t \in Submitted :
        Starts(p, [Idle EXCEPT !.op = "update", !.stage = "read", !.f = f, !.tags = t,
                               !.need = <<R("keys")>>])

\* What the new packets add; a newer self signature moves the expiration.
Merged(old, t) ==
    IF old = {} THEN t
    ELSE (old \union t) \ (IF "aged" \in old \intersect t THEN {} ELSE {"aged"})

\* store_key of a new key writes the key first; of a known one it deletes first,
\* words, hash and key in this order.
Reads(p) ==
    /\ At(p, "read")
    /\ LET r == run[p]
           new == Merged(keys[r.f], r.tags)
       IN  Goes(p, IF new = keys[r.f] THEN Ended(r)
                   ELSE [r EXCEPT !.stage = "write", !.tags = new,
                                  !.need = IF r.f \in Keys
                                           THEN <<W("word"), W("hash"), W("keys")>>
                                           ELSE <<W("keys"), W("word"), W("hash")>>])
    /\ Keeps

Writes(p) ==
    /\ At(p, "write")
    /\ Becomes([keys EXCEPT ![run[p].f] = run[p].tags])
    /\ Goes(p, Ended(run[p]))
    /\ UNCHANGED counted

-----------------------------------------------------------------------------
OpStep(p) ==
    \/ Gets(p) \/ Passes(p) \/ FetchesList(p) \/ LooksUp(p) \/ FetchesHash(p)
    \/ Visits(p) \/ Finds(p) \/ Removes(p) \/ Reads(p) \/ Writes(p)

OpStarts(p) == Searches(p) \/ HashStarts(p) \/ WalkStarts(p) \/ DeleteStarts(p) \/ UpdateStarts(p)

Next == \/ \E p \in Proc : OpStep(p) \/ OpStarts(p) \/ VisitFails(p)
        \/ Detects
        \/ /\ ops = 0
           /\ OpenNext
           /\ UNCHANGED <<keys, run, hist, ops, removed, counted>>

Fairness == /\ \A p \in Proc : WF_vars(OpStep(p)) /\ WF_vars(OpenStep(p) /\ UNCHANGED <<keys, run, hist, ops, removed, counted>>)
            /\ WF_vars(Detects)

Spec == Init /\ [][Next]_vars /\ Fairness

-----------------------------------------------------------------------------
Sought(p) == run[p].op \in {"search", "hash"} /\ ~Busy(p)
Collected(p) == run[p].op \in {"walk", "clean"} /\ run[p].stage # "walk" /\ ~run[p].cut
AskedOf(p) == CASE run[p].op = "search" -> run[p].tags
                [] run[p].op = "hash" -> {"hash"}
                [] OTHER -> {"aged"}

\* fetch_key_text, fetch_key_skshash and iterate_keys, while other processes
\* change the store between their transactions: a key that has what is asked
\* for all the time is found (unless config.maxkeys cuts the list, or there is
\* no word), and one that is found had each thing at some time meanwhile.
QueryExact == \A p \in Proc : Sought(p) \/ Collected(p) =>
    /\ \/ hist[p].steady \subseteq run[p].res
       \/ Cardinality(run[p].list) > MaxKeys
       \/ AskedOf(p) = {}
    /\ \A f \in run[p].res, t \in AskedOf(p) : <<f, t>> \in hist[p].ever

\* onak_cmd_clean_aged and delete_key of several processes: the deletes that
\* return 0 are as many as the keys that went.
CountTrue == counted = removed

\* A lookup by hash waits for a transaction while its cursor is open.
HashWaits == \E p \in Waiting : run[p].stage = "hashfetch"

\* Every operation ends, by the deadlock detector if need be, unless a lookup by
\* hash holds its cursor.
OpsEnd == \A p \in Proc : Busy(p) ~> (~Busy(p) \/ HashWaits)
=============================================================================
