----------------------------- MODULE Db4Tables -----------------------------
(***************************************************************************)
(* The tables of the Berkeley DB backend (keydb/keydb_db4.c): what its     *)
(* lookups read from them and what db4_store_key and db4_delete_key do to  *)
(* them inside a transaction.  The tables are a record:                    *)
(*   keydb      the partitioned key files, by primary fingerprint          *)
(*   worddb     rows (word, fingerprint): DB_DUP, so rows are counted      *)
(*   iddb       rows (key id, fingerprint) of id32db and id64db, also      *)
(*              DB_DUP; Id keeps the 32 and the 64 bit ids apart           *)
(*   skshashdb  SKS hash -> fingerprint, one row per hash                  *)
(*   subkeydb   subkey fingerprint -> primary fingerprint, one row each    *)
(***************************************************************************)
EXTENDS KeyData

Tables == [keydb     : [Fp -> Key \cup {NoKey}],
           worddb    : [Word -> [Fp -> Nat]],
           iddb      : [Id -> [Fp -> Nat]],
           skshashdb : [Hash -> Fp \cup {NoFp}],
           subkeydb  : [Fp -> Fp \cup {NoFp}]]

EmptyDb ==
    [keydb     |-> [f \in Fp |-> NoKey],
     worddb    |-> [w \in Word |-> [f \in Fp |-> 0]],
     iddb      |-> [i \in Id |-> [f \in Fp |-> 0]],
     skshashdb |-> [h \in Hash |-> NoFp],
     subkeydb  |-> [f \in Fp |-> NoFp]]

-----------------------------------------------------------------------------
(* Lookups *)

\* db4_fetch_key: primary fingerprints only.
FetchKey(d, f) == d.keydb[f]

\* db4_fetch_key_fp: a subkey fingerprint leads to its primary key.
FetchKeyFp(d, f) ==
    IF d.keydb[f] # NoKey \/ d.subkeydb[f] = NoFp
    THEN d.keydb[f]
    ELSE d.keydb[d.subkeydb[f]]

\* db4_fetch_key_id: how many copies of the key each fingerprint contributes;
\* every index row is followed, so a repeated row repeats the key.
FetchKeyId(d, i) ==
    [f \in Fp |-> IF FetchKeyFp(d, f) = NoKey THEN 0 ELSE d.iddb[i][f]]

\* db4_fetch_key_skshash
FetchKeySksHash(d, h) ==
    IF d.skshashdb[h] = NoFp THEN NoKey ELSE FetchKeyFp(d, d.skshashdb[h])

-----------------------------------------------------------------------------
(* Changes inside a transaction *)

\* The rows db4_store_key writes for a key: one per word, and for the primary
\* key and each subkey one per key id.
WordRows(k, w) == IF w \in Words(k) THEN 1 ELSE 0

\* Mutant of IdRows: the subkeys' ids are left out.
IdRowsPrimaryOnly(k, i) == IF i \in Ids(FpOf(k)) THEN 1 ELSE 0

IdRows(k, i) == (IF i \in Ids(FpOf(k)) THEN 1 ELSE 0)
                + Cardinality({s \in SubkeyFps(k) : i \in Ids(s)})

\* Deleting m rows where n exist; a row that is missing is skipped.
Less(n, m) == IF m <= n THEN n - m ELSE 0

\* Mutants of DeleteKey: one leaves the hash row behind, the other removes it
\* without looking where it points.
DeleteKeyKeepsHash(d, f) ==
    LET k == FetchKeyFp(d, f) IN
    IF k = NoKey THEN d
    ELSE [d EXCEPT
            !.keydb[f] = NoKey,
            !.worddb = [w \in Word |->
                [@[w] EXCEPT ![f] = Less(@, WordRows(k, w))]],
            !.iddb = [i \in Id |->
                [@[i] EXCEPT ![f] = Less(@, IdRows(k, i))]],
            !.subkeydb = [s \in Fp |->
                IF s \in SubkeyFps(k) THEN NoFp ELSE @[s]]]

DeleteKeyAnyHash(d, f) ==
    LET k == FetchKeyFp(d, f) IN
    IF k = NoKey THEN d
    ELSE [DeleteKeyKeepsHash(d, f) EXCEPT !.skshashdb[SksHash(k)] = NoFp]

\* db4_delete_key: the key fetch_key_fp finds for f loses its rows under f.
\* Its subkey entries go whatever they point at.
DeleteKey(d, f) ==
    LET k == FetchKeyFp(d, f) IN
    IF k = NoKey THEN d
    ELSE [keydb     |-> [d.keydb EXCEPT ![f] = NoKey],
          worddb    |-> [w \in Word |->
              [d.worddb[w] EXCEPT ![f] = Less(@, WordRows(k, w))]],
          iddb      |-> [i \in Id |->
              [d.iddb[i] EXCEPT ![f] = Less(@, IdRows(k, i))]],
          skshashdb |-> [h \in Hash |->
              IF h = SksHash(k) /\ d.skshashdb[h] = f THEN NoFp
              ELSE d.skshashdb[h]],
          subkeydb  |-> [s \in Fp |->
              IF s \in SubkeyFps(k) THEN NoFp ELSE d.subkeydb[s]]]

\* The value db4_delete_key returns: 0 only if the key has its skshashdb row.
DeleteReturn(d, f) ==
    LET k == FetchKeyFp(d, f) IN
    IF k # NoKey /\ d.skshashdb[SksHash(k)] = f THEN 0 ELSE 1

\* Mutant of StoreKey: an update does not write the subkey entries again.
StoreKeyForgetsSubkeys(d, k, update) ==
    LET f == FpOf(k)
        e == IF update THEN DeleteKey(d, f) ELSE d
    IN [keydb     |-> [e.keydb EXCEPT ![f] = k],
        worddb    |-> [w \in Word |->
            [e.worddb[w] EXCEPT ![f] = @ + WordRows(k, w)]],
        iddb      |-> [i \in Id |->
            [e.iddb[i] EXCEPT ![f] = @ + IdRows(k, i)]],
        skshashdb |-> [e.skshashdb EXCEPT ![SksHash(k)] = f],
        subkeydb  |-> [s \in Fp |->
            IF s \in SubkeyFps(k) /\ ~update THEN f ELSE e.subkeydb[s]]]

\* db4_store_key: an update deletes first, anything else trusts that the key
\* is not there.
StoreKey(d, k, update) ==
    LET f == FpOf(k)
        e == IF update THEN DeleteKey(d, f) ELSE d
    IN [keydb     |-> [e.keydb EXCEPT ![f] = k],
        worddb    |-> [w \in Word |->
            [e.worddb[w] EXCEPT ![f] = @ + WordRows(k, w)]],
        iddb      |-> [i \in Id |->
            [e.iddb[i] EXCEPT ![f] = @ + IdRows(k, i)]],
        skshashdb |-> [e.skshashdb EXCEPT ![SksHash(k)] = f],
        subkeydb  |-> [s \in Fp |->
            IF s \in SubkeyFps(k) THEN f ELSE e.subkeydb[s]]]

-----------------------------------------------------------------------------
(* What it means for tables to be right *)

Stored(d, f) == d.keydb[f] # NoKey

\* Key data is filed under the fingerprint of the key itself.
FiledByFp(d) == \A f \in Fp : Stored(d, f) => FpOf(d.keydb[f]) = f

\* worddb and iddb hold for every fingerprint exactly the rows of the key
\* stored under it, and none for an absent key.
RowsExact(d) ==
    \A f \in Fp :
        /\ \A w \in Word : d.worddb[w][f] =
               IF Stored(d, f) THEN WordRows(d.keydb[f], w) ELSE 0
        /\ \A i \in Id : d.iddb[i][f] =
               IF Stored(d, f) THEN IdRows(d.keydb[f], i) ELSE 0

\* skshashdb names a fingerprint for a hash exactly when the key stored there
\* has that hash.
HashExact(d) ==
    \A h \in Hash, f \in Fp :
        d.skshashdb[h] = f <=> Stored(d, f) /\ SksHash(d.keydb[f]) = h

\* An entry of subkeydb leads to a stored key with that subkey.
SubkeySound(d) ==
    \A s \in Fp : d.subkeydb[s] # NoFp =>
        LET f == d.subkeydb[s] IN
        Stored(d, f) /\ s \in SubkeyFps(d.keydb[f])

Indexed(d) == FiledByFp(d) /\ RowsExact(d) /\ HashExact(d) /\ SubkeySound(d)

\* Every stored key can be found by each of its words, ids and its hash.  This
\* asks less than Indexed: rows may also be repeated or stale.
Covered(d) ==
    \A f \in Fp : Stored(d, f) =>
        /\ FpOf(d.keydb[f]) = f
        /\ \A w \in Word : d.worddb[w][f] >= WordRows(d.keydb[f], w)
        /\ \A i \in Id : d.iddb[i][f] >= IdRows(d.keydb[f], i)
        /\ d.skshashdb[SksHash(d.keydb[f])] = f
=============================================================================
