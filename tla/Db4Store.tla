------------------------------ MODULE Db4Store ------------------------------
(***************************************************************************)
(* The operations that run directly on the Berkeley DB backend:            *)
(* generic_update_keys (keydb/keydb.c), "onak delete" and "onak reindex"   *)
(* (onak.c).                                                               *)
(*                                                                         *)
(* Berkeley DB is external.  Its transactions are taken to be              *)
(* serializable, so a transaction is one step; a transaction that met a    *)
(* deadlock cannot commit, and endtrans then ends the process.             *)
(***************************************************************************)
EXTENDS Db4Tables

CONSTANTS
    Blacklist,      \* fingerprints update_keys ignores
    CleanFetches    \* keys for which cleankeys looks other keys up (needs the
                    \* policies that verify signatures or ask for others')

ASSUME ConfigAssumption == Blacklist \subseteq Fp /\ CleanFetches \subseteq Key

VARIABLES
    db,             \* the committed database
    reply           \* outcome of the last operation

vars == <<db, reply>>

-----------------------------------------------------------------------------
(* Operations.  Each is one transaction, committed by endtrans. *)

Reply(op, f, ret, listed) ==
    [op |-> op, fp |-> f, ret |-> ret, listed |-> listed]

Init == /\ db = EmptyDb
        /\ reply = Reply("none", NoFp, 0, FALSE)

\* generic_update_keys on one key of the list.  ret counts the entirely new
\* keys; listed says whether the key stays in the caller's list, which is what
\* is then sent to the keysync peers.
Updated(k, ret, listed) == reply' = Reply("update", FpOf(k), ret, listed)

UpdateIgnored(k) == /\ FpOf(k) \in Blacklist
                    /\ Updated(k, 0, FALSE)
                    /\ UNCHANGED db

UpdateSkipsNew(k) == /\ FpOf(k) \notin Blacklist
                     /\ FetchKeyFp(db, FpOf(k)) = NoKey
                     /\ Updated(k, 0, TRUE)
                     /\ UNCHANGED db

UpdateStoresNew(k) == /\ FpOf(k) \notin Blacklist
                      /\ FetchKeyFp(db, FpOf(k)) = NoKey
                      /\ db' = StoreKey(db, k, FALSE)
                      /\ Updated(k, 1, TRUE)

\* Mutant of UpdateMerges: the submitted key replaces the stored one.
UpdateReplaces(k) ==
    LET old == FetchKeyFp(db, FpOf(k)) IN
    /\ FpOf(k) \notin Blacklist
    /\ old # NoKey
    /\ FpOf(old) = FpOf(k)
    /\ Changes(old, k)
    /\ db' = StoreKey(db, k, TRUE)
    /\ Updated(k, 0, TRUE)

UpdateMerges(k) ==
    LET old == FetchKeyFp(db, FpOf(k)) IN
    /\ FpOf(k) \notin Blacklist
    /\ old # NoKey
    /\ FpOf(old) = FpOf(k)
    /\ Changes(old, k)
    /\ db' = StoreKey(db, Merge(old, k), TRUE)
    /\ Updated(k, 0, TRUE)

UpdateAddsNothing(k) ==
    LET old == FetchKeyFp(db, FpOf(k)) IN
    /\ FpOf(k) \notin Blacklist
    /\ old # NoKey
    /\ FpOf(old) = FpOf(k)
    /\ ~Changes(old, k)
    /\ Updated(k, 0, FALSE)
    /\ UNCHANGED db

\* The fingerprint is that of a subkey of another key: merge_keys refuses the
\* pair, and the other key is stored again as it was.
UpdateMeetsSubkey(k) ==
    LET old == FetchKeyFp(db, FpOf(k)) IN
    /\ FpOf(k) \notin Blacklist
    /\ old # NoKey
    /\ FpOf(old) # FpOf(k)
    /\ db' = StoreKey(db, old, TRUE)
    /\ Updated(k, 0, TRUE)

UpdateKey(k, updateonly) ==
    \/ UpdateIgnored(k)
    \/ updateonly /\ UpdateSkipsNew(k)
    \/ ~updateonly /\ UpdateStoresNew(k)
    \/ UpdateMerges(k)
    \/ UpdateAddsNothing(k)
    \/ UpdateMeetsSubkey(k)

\* "onak delete", clean-aged and keyd's KEYD_CMD_DELETE.
Delete(f) == /\ db' = DeleteKey(db, f)
             /\ reply' = Reply("delete", f, DeleteReturn(db, f), FALSE)

\* "onak reindex": the keys of an id are fetched, the first one is deleted,
\* the list is cleaned and what is then the first key is stored as a new one.
KeysOfId(i) == {FetchKeyFp(db, f) : f \in {g \in Fp : FetchKeyId(db, i)[g] > 0}}

ReindexStores(i) ==
    \E first, key \in KeysOfId(i) :
        /\ KeysOfId(i) \cap CleanFetches = {}
        /\ Clean(key) # NoKey
        /\ Clean(first) # NoKey => key = first
        /\ db' = StoreKey(DeleteKey(db, FpOf(first)), Clean(key), FALSE)
        /\ reply' = Reply("reindex", FpOf(key), 0, FALSE)

\* A lookup by cleankeys calls starttrans inside the transaction, whose
\* log_assert(txn == NULL) then ends the process.
ReindexAsserts(i) == /\ KeysOfId(i) \cap CleanFetches # {}
                     /\ reply' = Reply("assert", NoFp, 0, FALSE)
                     /\ UNCHANGED db

\* A deadlock or a crash before the commit, or an empty list given to
\* store_key: the process ends and the transaction leaves nothing behind.
Abort == /\ reply' = Reply("exit", NoFp, 0, FALSE)
         /\ UNCHANGED db

Next == \/ \E k \in Key, updateonly \in BOOLEAN : UpdateKey(k, updateonly)
        \/ \E f \in Fp : Delete(f)
        \/ \E i \in Id : ReindexStores(i) \/ ReindexAsserts(i)
        \/ Abort

Spec == Init /\ [][Next]_vars

-----------------------------------------------------------------------------
(* Properties *)

Replies == [op     : {"none", "update", "delete", "reindex", "assert", "exit"},
            fp     : Fp \cup {NoFp},
            ret    : {0, 1},
            listed : BOOLEAN]

\* The shape of the five tables and of the last reply.
TypeOK == db \in Tables /\ reply \in Replies

\* The clean policies in force never remove a stored key altogether.
CleanNeverDrops == \A k \in Key : Clean(k) # NoKey

\* No sequence of updates, deletes and reindexes (db4_store_key,
\* db4_delete_key) leaves a stale, missing or repeated index row, the hash of
\* a superseded version, or a subkey entry that dangles.
IndexInv == Indexed(db)

\* What the callers of the lookups see: an id finds exactly the stored keys
\* with that id on the primary key or on a subkey, a hash finds the key with
\* that hash if one is stored and nothing otherwise, and a fingerprint only
\* finds a key that has it.
LookupsExact ==
    /\ \A i \in Id, f \in Fp :
          FetchKeyId(db, i)[f] > 0 <=>
              Stored(db, f) /\ \E g \in FpsOf(db.keydb[f]) : i \in Ids(g)
    /\ \A h \in Hash :
          LET k == FetchKeySksHash(db, h) IN
          IF \E f \in Fp : Stored(db, f) /\ SksHash(db.keydb[f]) = h
          THEN k # NoKey /\ SksHash(k) = h
          ELSE k = NoKey
    /\ \A f \in Fp :
          FetchKeyFp(db, f) # NoKey => f \in FpsOf(FetchKeyFp(db, f))

KS == INSTANCE KeyStore WITH keys <- db.keydb

\* The backend implements the abstract store: whatever update_keys, delete and
\* reindex do to the key data is an addition, a merge, a removal or a tidying
\* of one key.
ImplementsKeyStore == KS!Spec

\* Only a delete can make a subkey that no other key has stop leading to its
\* key: the delete-then-put of an update and of a reindex leaves every such
\* subkey of the key's new contents resolvable.
SubkeysStayFound ==
    [][\A f, s \in Fp :
         /\ reply'.op # "delete"
         /\ \A k \in Key : s \in FpsOf(k) => FpOf(k) = f
         /\ Stored(db, f) /\ FetchKeyFp(db, s) = db.keydb[f]
         /\ db'.keydb[f] # NoKey /\ s \in FpsOf(db'.keydb[f])
         => FetchKeyFp(db', s) = db'.keydb[f]]_vars
=============================================================================
