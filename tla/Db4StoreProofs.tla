--------------------------- MODULE Db4StoreProofs ---------------------------
(***************************************************************************)
(* Db4Store keeps its types, its indexes exact, its subkeys found, and     *)
(* implements KeyStore, for every set of keys, fingerprints, words, ids    *)
(* and hashes.  Under the stacked backend, whatever its programs store on  *)
(* fallback, and whenever, the keys of the first backend stay found.       *)
(***************************************************************************)
EXTENDS StackedStore, Db4TablesProofs

-----------------------------------------------------------------------------
(* Type correctness *)

\* The keys that an id leads to are keys.
LEMMA KeysOfIdType ==
    ASSUME db \in Tables, NEW i \in Id
    PROVE  KeysOfId(i) \subseteq Key
<1>1. \A f \in Fp : FetchKeyFp(db, f) \in Key \cup {NoKey}
  BY FetchType
<1>2. \A f \in Fp : FetchKeyId(db, i)[f] > 0 => FetchKeyFp(db, f) # NoKey
  BY DEF FetchKeyId
<1>. QED BY <1>1, <1>2 DEF KeysOfId

\* Every operation of the backend keeps the shape of the tables.
THEOREM TypeCorrect == Spec => []TypeOK
<1>1. Init => TypeOK
  BY DEF Init, TypeOK, EmptyDb, Tables, Reply, Replies
<1>2. TypeOK /\ [Next]_vars => TypeOK'
  <2>. SUFFICES ASSUME TypeOK, [Next]_vars
                PROVE  TypeOK'
    OBVIOUS
  <2>1. db \in Tables /\ reply \in Replies
    BY DEF TypeOK
  <2>2. ASSUME NEW k \in Key, NEW u \in BOOLEAN, UpdateKey(k, u)
        PROVE  TypeOK'
    <3>1. FpOf(k) \in Fp /\ FetchKeyFp(db, FpOf(k)) \in Key \cup {NoKey}
      BY <2>1, KeyAssumption, FetchType
    <3>2. ASSUME NEW r \in {0, 1}, NEW l \in BOOLEAN, Updated(k, r, l)
          PROVE  reply' \in Replies
      BY <3>1, <3>2 DEF Updated, Reply, Replies
    <3>3. CASE UpdateIgnored(k) \/ UpdateSkipsNew(k) \/ UpdateAddsNothing(k)
      BY <2>1, <3>2, <3>3
      DEF TypeOK, UpdateIgnored, UpdateSkipsNew, UpdateAddsNothing
    <3>4. CASE UpdateStoresNew(k)
      BY <2>1, <3>2, <3>4, StoreType DEF TypeOK, UpdateStoresNew
    <3>5. CASE UpdateMerges(k)
      <4>1. Merge(FetchKeyFp(db, FpOf(k)), k) \in Key
        BY <3>1, <3>5, MergeAssumption DEF UpdateMerges
      <4>2. db' \in Tables
        BY <2>1, <3>5, <4>1, StoreType DEF UpdateMerges
      <4>. QED BY <3>2, <3>5, <4>2 DEF TypeOK, UpdateMerges
    <3>6. CASE UpdateMeetsSubkey(k)
      <4>1. db' \in Tables
        BY <2>1, <3>1, <3>6, StoreType DEF UpdateMeetsSubkey
      <4>. QED BY <3>2, <3>6, <4>1 DEF TypeOK, UpdateMeetsSubkey
    <3>. QED BY <2>2, <3>3, <3>4, <3>5, <3>6 DEF UpdateKey
  <2>3. ASSUME NEW f \in Fp, Delete(f)
        PROVE  TypeOK'
    <3>1. db' \in Tables
      BY <2>1, <2>3, DeleteType DEF Delete
    <3>. QED BY <2>3, <3>1 DEF TypeOK, Delete, DeleteReturn, Reply, Replies
  <2>4. ASSUME NEW i \in Id, ReindexStores(i)
        PROVE  TypeOK'
    <3>1. PICK first \in KeysOfId(i), key \in KeysOfId(i) :
             /\ Clean(key) # NoKey
             /\ db' = StoreKey(DeleteKey(db, FpOf(first)), Clean(key), FALSE)
             /\ reply' = Reply("reindex", FpOf(key), 0, FALSE)
      BY <2>4 DEF ReindexStores
    <3>2. first \in Key /\ key \in Key
      BY <2>1, KeysOfIdType
    <3>3. Clean(key) \in Key /\ FpOf(first) \in Fp /\ FpOf(key) \in Fp
      BY <3>1, <3>2, CleanAssumption, KeyAssumption
    <3>4. DeleteKey(db, FpOf(first)) \in Tables
      BY <2>1, <3>3, DeleteType
    <3>5. db' \in Tables
      BY <3>1, <3>3, <3>4, StoreType
    <3>. QED BY <3>1, <3>3, <3>5 DEF TypeOK, Reply, Replies
  <2>5. ASSUME NEW i \in Id, ReindexAsserts(i)
        PROVE  TypeOK'
    BY <2>1, <2>5 DEF TypeOK, ReindexAsserts, Reply, Replies
  <2>6. CASE Abort
    BY <2>1, <2>6 DEF TypeOK, Abort, Reply, Replies
  <2>7. CASE UNCHANGED vars
    BY <2>1, <2>7 DEF TypeOK, vars
  <2>. QED BY <2>2, <2>3, <2>4, <2>5, <2>6, <2>7 DEF Next
<1>. QED BY <1>1, <1>2, PTL DEF Spec

-----------------------------------------------------------------------------
(* The indexes stay exact *)

\* So the keys reindex works on are stored under their own fingerprints.
LEMMA KeysOfIdFiled ==
    ASSUME db \in Tables, Indexed(db), NEW i \in Id, NEW k \in KeysOfId(i)
    PROVE  k \in Key /\ db.keydb[FpOf(k)] = k
<1>1. PICK f \in Fp : k = FetchKeyFp(db, f) /\ FetchKeyId(db, i)[f] > 0
  BY DEF KeysOfId
<1>2. FetchKeyFp(db, f) # NoKey
  BY <1>1 DEF FetchKeyId
<1>. QED BY <1>1, <1>2, FoundIsFiled

\* As long as cleaning never removes a key altogether, no interleaving of
\* update_keys, deletes and reindexes leaves a stale, missing or repeated
\* index row (IndexInv).
THEOREM IndexSafe ==
    ASSUME CleanNeverDrops
    PROVE  Spec => []IndexInv
<1>1. Init => IndexInv
  BY NothingAssumption
  DEF Init, IndexInv, Indexed, FiledByFp, RowsExact, HashExact, SubkeySound,
      Stored, EmptyDb
<1>2. TypeOK /\ IndexInv /\ [Next]_vars => IndexInv'
  <2>. SUFFICES ASSUME TypeOK, IndexInv, [Next]_vars
                PROVE  Indexed(db')
    BY DEF IndexInv
  <2>1. db \in Tables /\ Indexed(db)
    BY DEF TypeOK, IndexInv
  <2>2. ASSUME NEW k \in Key, NEW u \in BOOLEAN, UpdateKey(k, u)
        PROVE  Indexed(db')
    <3>. DEFINE old == FetchKeyFp(db, FpOf(k))
    <3>1. FpOf(k) \in Fp /\ old \in Key \cup {NoKey}
      BY <2>1, KeyAssumption, FetchType
    <3>3. CASE UpdateIgnored(k) \/ UpdateSkipsNew(k) \/ UpdateAddsNothing(k)
      BY <2>1, <3>3 DEF UpdateIgnored, UpdateSkipsNew, UpdateAddsNothing
    <3>4. CASE UpdateStoresNew(k)
      <4>1. db.keydb[FpOf(k)] = NoKey
        BY <2>1, <3>1, <3>4, FetchNothing DEF UpdateStoresNew
      <4>. QED BY <2>1, <3>4, <4>1, StoreIndexed DEF UpdateStoresNew
    <3>5. CASE UpdateMerges(k)
      <4>1. Merge(old, k) \in Key
        BY <3>1, <3>5, MergeAssumption DEF UpdateMerges
      <4>. QED BY <2>1, <3>5, <4>1, StoreIndexed DEF UpdateMerges
    <3>6. CASE UpdateMeetsSubkey(k)
      BY <2>1, <3>1, <3>6, StoreIndexed DEF UpdateMeetsSubkey
    <3>. QED BY <2>2, <3>3, <3>4, <3>5, <3>6 DEF UpdateKey
  <2>3. ASSUME NEW f \in Fp, Delete(f)
        PROVE  Indexed(db')
    BY <2>1, <2>3, DeleteIndexed DEF Delete
  <2>4. ASSUME NEW i \in Id, ReindexStores(i)
        PROVE  Indexed(db')
    <3>1. PICK first \in KeysOfId(i) :
             db' = StoreKey(DeleteKey(db, FpOf(first)), Clean(first), FALSE)
      <4>1. KeysOfId(i) \subseteq Key
        BY <2>1, KeysOfIdType
      <4>. QED BY <2>4, <4>1 DEF ReindexStores, CleanNeverDrops
    <3>2. first \in Key
      BY <2>1, KeysOfIdType
    <3>3. /\ Clean(first) \in Key /\ FpOf(Clean(first)) = FpOf(first)
          /\ FpOf(first) \in Fp
      BY <3>2, CleanAssumption, KeyAssumption DEF CleanNeverDrops
    <3>. DEFINE e == DeleteKey(db, FpOf(first))
    <3>4. e \in Tables /\ Indexed(e)
      BY <2>1, <3>3, DeleteType, DeleteIndexed
    <3>5. e.keydb = [db.keydb EXCEPT ![FpOf(first)] = NoKey]
      BY <2>1, <3>3, DeleteKeydb
    <3>6. e.keydb[FpOf(Clean(first))] = NoKey
      BY <2>1, <3>3, <3>5 DEF Tables
    <3>. HIDE DEF e
    <3>7. Indexed(StoreKey(e, Clean(first), FALSE))
      BY <3>3, <3>4, <3>6, StoreIndexed
    <3>. QED BY <3>1, <3>7 DEF e
  <2>5. CASE UNCHANGED db
    BY <2>1, <2>5
  <2>. QED BY <2>2, <2>3, <2>4, <2>5 DEF Next, ReindexAsserts, Abort, vars
<1>. QED BY <1>1, <1>2, TypeCorrect, PTL DEF Spec

\* Hence every lookup answers as the stored key data says (LookupsExact).
THEOREM LookupsSafe ==
    ASSUME CleanNeverDrops
    PROVE  Spec => []LookupsExact
<1>1. TypeOK /\ IndexInv => LookupsExact
  <2>. SUFFICES ASSUME TypeOK, IndexInv
                PROVE  LookupsExact
    OBVIOUS
  <2>1. db \in Tables /\ Indexed(db)
    BY DEF TypeOK, IndexInv
  <2>2. ASSUME NEW i \in Id, NEW f \in Fp
        PROVE  FetchKeyId(db, i)[f] > 0 <=>
                   Stored(db, f) /\ \E g \in FpsOf(db.keydb[f]) : i \in Ids(g)
    <3>1. CASE ~Stored(db, f)
      BY <2>1, <3>1 DEF FetchKeyId, Indexed, RowsExact
    <3>2. CASE Stored(db, f)
      <4>. DEFINE k == db.keydb[f]
                  S == {s \in SubkeyFps(k) : i \in Ids(s)}
      <4>1. k \in Key /\ FpOf(k) = f /\ FetchKeyFp(db, f) = k /\ k # NoKey
        BY <2>1, <3>2 DEF Tables, Stored, Indexed, FiledByFp, FetchKeyFp
      <4>2. FetchKeyId(db, i)[f] = IdRows(k, i)
        BY <2>1, <3>2, <4>1 DEF FetchKeyId, Indexed, RowsExact
      <4>3. IsFiniteSet(S)
        BY <4>1, KeyAssumption, FS_Subset
      <4>4. Cardinality(S) \in Nat /\ (Cardinality(S) = 0 <=> S = {})
        BY <4>3, FS_CardinalityType, FS_EmptySet
      <4>5. IdRows(k, i) > 0 <=> i \in Ids(FpOf(k)) \/ S # {}
        BY <4>4 DEF IdRows
      <4>. QED BY <3>2, <4>2, <4>5 DEF FpsOf
    <3>. QED BY <3>1, <3>2
  <2>3. ASSUME NEW h \in Hash
        PROVE  LET k == FetchKeySksHash(db, h) IN
               IF \E f \in Fp : Stored(db, f) /\ SksHash(db.keydb[f]) = h
               THEN k # NoKey /\ SksHash(k) = h
               ELSE k = NoKey
    <3>1. db.skshashdb[h] \in Fp \cup {NoFp}
      BY <2>1 DEF Tables
    <3>2. \A f \in Fp : db.skshashdb[h] = f <=>
              Stored(db, f) /\ SksHash(db.keydb[f]) = h
      BY <2>1 DEF Indexed, HashExact
    <3>. QED BY <3>1, <3>2, NothingAssumption
             DEF FetchKeySksHash, FetchKeyFp, Stored
  <2>4. ASSUME NEW f \in Fp, FetchKeyFp(db, f) # NoKey
        PROVE  f \in FpsOf(FetchKeyFp(db, f))
    BY <2>1, <2>4
    DEF FetchKeyFp, FpsOf, Indexed, FiledByFp, SubkeySound, Stored
  <2>. QED BY <2>2, <2>3, <2>4 DEF LookupsExact
<1>. QED BY <1>1, TypeCorrect, IndexSafe, PTL

-----------------------------------------------------------------------------
(* The backend implements the abstract store *)

\* Every step of the backend is, on the key data, a step of KeyStore or none:
\* update_keys adds or merges, and neither a delete by a subkey's fingerprint
\* nor an update that meets a subkey touches key data (ImplementsKeyStore).
THEOREM RefinesKeyStore ==
    ASSUME CleanNeverDrops
    PROVE  Spec => ImplementsKeyStore
<1>1. Init => KS!Init
  BY DEF Init, KS!Init, EmptyDb
<1>2. TypeOK /\ IndexInv /\ [Next]_vars => [KS!Next]_(db.keydb)
  <2>. SUFFICES ASSUME TypeOK, IndexInv, [Next]_vars
                PROVE  KS!Next \/ db'.keydb = db.keydb
    OBVIOUS
  <2>1. db \in Tables /\ Indexed(db) /\ db.keydb \in [Fp -> Key \cup {NoKey}]
    BY DEF TypeOK, IndexInv, Tables
  <2>2. ASSUME NEW k \in Key, NEW u \in BOOLEAN, UpdateKey(k, u)
        PROVE  KS!Next \/ db'.keydb = db.keydb
    <3>. DEFINE old == FetchKeyFp(db, FpOf(k))
    <3>1. FpOf(k) \in Fp /\ old \in Key \cup {NoKey}
      BY <2>1, KeyAssumption, FetchType
    <3>2. old # NoKey => old \in Key /\ db.keydb[FpOf(old)] = old
      BY <2>1, <3>1, FoundIsFiled
    <3>3. CASE UpdateIgnored(k) \/ UpdateSkipsNew(k) \/ UpdateAddsNothing(k)
      BY <3>3 DEF UpdateIgnored, UpdateSkipsNew, UpdateAddsNothing
    <3>4. CASE UpdateStoresNew(k)
      <4>1. db.keydb[FpOf(k)] = NoKey
        BY <2>1, <3>1, <3>4, FetchNothing DEF UpdateStoresNew
      <4>2. db'.keydb = [db.keydb EXCEPT ![FpOf(k)] = k]
        BY <2>1, <3>4, StoreKeydb DEF UpdateStoresNew
      <4>3. KS!Add(k)
        BY <4>1, <4>2 DEF KS!Add
      <4>. QED BY <4>3 DEF KS!Next
    <3>5. CASE UpdateMerges(k)
      <4>1. /\ old # NoKey /\ FpOf(old) = FpOf(k) /\ old \in Key
            /\ db.keydb[FpOf(k)] = old
        BY <3>2, <3>5 DEF UpdateMerges
      <4>2. Merge(old, k) \in Key /\ FpOf(Merge(old, k)) = FpOf(k)
        BY <4>1, MergeAssumption
      <4>3. db'.keydb = [db.keydb EXCEPT ![FpOf(k)] = Merge(old, k)]
        BY <2>1, <3>5, <4>2, StoreKeydb DEF UpdateMerges
      <4>. HIDE DEF old
      <4>4. KS!Improve(k)
        BY <4>1, <4>3 DEF KS!Improve
      <4>. QED BY <4>4 DEF KS!Next
    <3>6. CASE UpdateMeetsSubkey(k)
      <4>1. old \in Key /\ FpOf(old) \in Fp /\ db.keydb[FpOf(old)] = old
        BY <3>2, <3>6, KeyAssumption DEF UpdateMeetsSubkey
      <4>2. db'.keydb = [db.keydb EXCEPT ![FpOf(old)] = old]
        BY <2>1, <3>6, <4>1, StoreKeydb DEF UpdateMeetsSubkey
      <4>. HIDE DEF old
      <4>. QED BY <2>1, <4>1, <4>2
    <3>. QED BY <2>2, <3>3, <3>4, <3>5, <3>6 DEF UpdateKey
  <2>3. ASSUME NEW f \in Fp, Delete(f)
        PROVE  KS!Next \/ db'.keydb = db.keydb
    <3>1. db'.keydb = [db.keydb EXCEPT ![f] = NoKey]
      BY <2>1, <2>3, DeleteKeydb DEF Delete
    <3>2. KS!Remove(f)
      BY <3>1 DEF KS!Remove
    <3>. QED BY <3>2 DEF KS!Next
  <2>4. ASSUME NEW i \in Id, ReindexStores(i)
        PROVE  KS!Next \/ db'.keydb = db.keydb
    <3>1. PICK first \in KeysOfId(i) :
             db' = StoreKey(DeleteKey(db, FpOf(first)), Clean(first), FALSE)
      <4>1. KeysOfId(i) \subseteq Key
        BY <2>1, KeysOfIdType
      <4>. QED BY <2>4, <4>1 DEF ReindexStores, CleanNeverDrops
    <3>2. first \in Key /\ first # NoKey /\ db.keydb[FpOf(first)] = first
      BY <2>1, KeysOfIdFiled, NothingAssumption
    <3>3. /\ Clean(first) \in Key /\ FpOf(Clean(first)) = FpOf(first)
          /\ FpOf(first) \in Fp
      BY <3>2, CleanAssumption, KeyAssumption DEF CleanNeverDrops
    <3>4. DeleteKey(db, FpOf(first)) \in Tables
      BY <2>1, <3>3, DeleteType
    <3>5. DeleteKey(db, FpOf(first)).keydb =
              [db.keydb EXCEPT ![FpOf(first)] = NoKey]
      BY <2>1, <3>3, DeleteKeydb
    <3>6. db'.keydb = [DeleteKey(db, FpOf(first)).keydb
                          EXCEPT ![FpOf(first)] = Clean(first)]
      BY <3>1, <3>3, <3>4, StoreKeydb
    <3>7. db'.keydb = [db.keydb EXCEPT ![FpOf(first)] = Clean(first)]
      BY <2>1, <3>3, <3>5, <3>6
    <3>8. KS!Tidy(FpOf(first))
      BY <3>2, <3>7 DEF KS!Tidy
    <3>. QED BY <3>3, <3>8 DEF KS!Next
  <2>5. CASE UNCHANGED db
    BY <2>5
  <2>. QED BY <2>2, <2>3, <2>4, <2>5 DEF Next, ReindexAsserts, Abort, vars
<1>. QED BY <1>1, <1>2, TypeCorrect, IndexSafe, PTL
         DEF Spec, ImplementsKeyStore, KS!Spec

-----------------------------------------------------------------------------
(* Subkeys stay found *)

\* No key but those of fingerprint f answers to s.
Only(f, s) == \A k \in Key : s \in FpsOf(k) => FpOf(k) = f

\* Such an s has no key data of its own, unless it is f.
LEMMA OnlyFiled ==
    ASSUME NEW d \in Tables, FiledByFp(d), NEW f \in Fp, NEW s \in Fp, Only(f, s), s # f
    PROVE  d.keydb[s] = NoKey
<1>. SUFFICES ASSUME d.keydb[s] # NoKey
              PROVE  FALSE
  OBVIOUS
<1>1. d.keydb[s] \in Key /\ FpOf(d.keydb[s]) = s
  BY DEF Tables, FiledByFp, Stored
<1>. QED BY <1>1 DEF Only, FpsOf

\* db4_delete_key leaves the subkeys of the other keys where they lead.
LEMMA DeleteLeads ==
    ASSUME NEW d \in Tables, FiledByFp(d), NEW f \in Fp, NEW s \in Fp, Only(f, s),
           Stored(d, f), FetchKeyFp(d, s) = d.keydb[f],
           NEW g \in Fp, g # f, Stored(d, g)
    PROVE  /\ DeleteKey(d, g).keydb[f] = d.keydb[f]
           /\ FetchKeyFp(DeleteKey(d, g), s) = d.keydb[f]
<1>. DEFINE e == DeleteKey(d, g)
            k == d.keydb[g]
<1>1. k \in Key /\ FpOf(k) = g /\ FetchKeyFp(d, g) = k /\ k # NoKey
  BY DEF Tables, FiledByFp, Stored, FetchKeyFp
<1>2. s \notin SubkeyFps(k)
  BY <1>1 DEF Only, FpsOf
<1>3. e.keydb = [d.keydb EXCEPT ![g] = NoKey]
  BY DeleteKeydb
<1>4. e.subkeydb[s] = d.subkeydb[s]
  BY <1>1, <1>2 DEF DeleteKey
<1>5. d.keydb \in [Fp -> Key \cup {NoKey}] /\ d.subkeydb[s] \in Fp \cup {NoFp}
  BY DEF Tables
<1>. HIDE DEF e, k
<1>6. e.keydb[f] = d.keydb[f] /\ d.keydb[f] # NoKey
  BY <1>3, <1>5 DEF Stored
<1>7. CASE s = f
  BY <1>6, <1>7 DEF FetchKeyFp, e
<1>8. CASE s # f
  <2>1. d.keydb[s] = NoKey
    BY <1>8, OnlyFiled
  <2>2. d.subkeydb[s] # NoFp /\ d.keydb[d.subkeydb[s]] = d.keydb[f]
    BY <1>6, <2>1 DEF FetchKeyFp
  <2>3. d.subkeydb[s] = f
    BY <1>5, <1>6, <2>2 DEF FiledByFp, Stored
  <2>4. e.keydb[s] = NoKey
    BY <1>3, <1>5, <2>1
  <2>5. FetchKeyFp(e, s) = e.keydb[f]
    BY <1>4, <2>2, <2>3, <2>4 DEF FetchKeyFp
  <2>. QED BY <1>6, <2>5 DEF e
<1>. QED BY <1>7, <1>8

\* The puts of db4_store_key make the subkeys of the key they write lead to it,
\* and leave those of the other keys where they lead.
LEMMA PutLeads ==
    ASSUME NEW d \in Tables, FiledByFp(d), NEW f \in Fp, NEW s \in Fp, Only(f, s),
           NEW k \in Key,
           FpOf(k) = f \/ (Stored(d, f) /\ FetchKeyFp(d, s) = d.keydb[f]),
           s \in FpsOf(Put(d, k).keydb[f])
    PROVE  FetchKeyFp(Put(d, k), s) = Put(d, k).keydb[f]
<1>. DEFINE e == Put(d, k)
<1>1. FpOf(k) \in Fp /\ k # NoKey
  BY KeyAssumption, NothingAssumption
<1>2. e.keydb = [d.keydb EXCEPT ![FpOf(k)] = k]
  BY DEF Put
<1>3. e.subkeydb[s] = IF s \in SubkeyFps(k) THEN FpOf(k) ELSE d.subkeydb[s]
  BY DEF Put
<1>4. d.keydb \in [Fp -> Key \cup {NoKey}] /\ d.subkeydb[s] \in Fp \cup {NoFp}
  BY DEF Tables
<1>5. s # f => d.keydb[s] = NoKey
  BY OnlyFiled
<1>6. s \in FpsOf(e.keydb[f])
  OBVIOUS
<1>. HIDE DEF e
<1>7. CASE FpOf(k) = f
  <2>1. e.keydb[f] = k
    BY <1>1, <1>2, <1>4, <1>7
  <2>2. s # f => s \in SubkeyFps(k) /\ e.keydb[s] = NoKey
    BY <1>2, <1>4, <1>5, <1>6, <1>7, <2>1 DEF FpsOf
  <2>3. FetchKeyFp(e, s) = k
    BY <1>1, <1>3, <1>7, <2>1, <2>2, NothingAssumption DEF FetchKeyFp
  <2>. QED BY <2>1, <2>3 DEF e
<1>8. CASE FpOf(k) # f
  <2>1. e.keydb[f] = d.keydb[f] /\ d.keydb[f] # NoKey
    BY <1>1, <1>2, <1>4, <1>8 DEF Stored
  <2>2. s \notin FpsOf(k)
    BY <1>8 DEF Only
  <2>3. s # FpOf(k) /\ e.subkeydb[s] = d.subkeydb[s]
    BY <1>3, <2>2 DEF FpsOf
  <2>4. e.keydb[s] = d.keydb[s]
    BY <1>2, <1>4, <2>3
  <2>5. CASE s = f
    BY <2>1, <2>5 DEF FetchKeyFp, e
  <2>6. CASE s # f
    <3>1. d.subkeydb[s] # NoFp /\ d.keydb[d.subkeydb[s]] = d.keydb[f]
      BY <1>5, <1>8, <2>1, <2>6 DEF FetchKeyFp
    <3>2. d.subkeydb[s] = f
      BY <1>4, <2>1, <3>1 DEF FiledByFp, Stored
    <3>3. FetchKeyFp(e, s) = e.keydb[f]
      BY <1>5, <2>3, <2>4, <2>6, <3>1, <3>2 DEF FetchKeyFp
    <3>. QED BY <3>3 DEF e
  <2>. QED BY <2>5, <2>6
<1>. QED BY <1>7, <1>8

\* The delete and the puts of one key, which an update and a reindex do.
LEMMA RewriteLeads ==
    ASSUME NEW d \in Tables, Indexed(d), NEW f \in Fp, NEW s \in Fp, Only(f, s),
           Stored(d, f), FetchKeyFp(d, s) = d.keydb[f],
           NEW k \in Key, Stored(d, FpOf(k)),
           s \in FpsOf(Put(DeleteKey(d, FpOf(k)), k).keydb[f])
    PROVE  FetchKeyFp(Put(DeleteKey(d, FpOf(k)), k), s)
               = Put(DeleteKey(d, FpOf(k)), k).keydb[f]
<1>. DEFINE e == DeleteKey(d, FpOf(k))
<1>1. FpOf(k) \in Fp
  BY KeyAssumption
<1>2. e \in Tables /\ FiledByFp(e)
  BY <1>1, DeleteType, DeleteIndexed DEF Indexed
<1>3. FpOf(k) = f \/ (Stored(e, f) /\ FetchKeyFp(e, s) = e.keydb[f])
  <2>. SUFFICES ASSUME FpOf(k) # f
                PROVE  Stored(e, f) /\ FetchKeyFp(e, s) = e.keydb[f]
    OBVIOUS
  <2>1. e.keydb[f] = d.keydb[f] /\ FetchKeyFp(e, s) = d.keydb[f]
    BY <1>1, DeleteLeads DEF Indexed
  <2>. QED BY <2>1 DEF Stored
<1>4. s \in FpsOf(Put(e, k).keydb[f])
  OBVIOUS
<1>. HIDE DEF e
<1>5. FetchKeyFp(Put(e, k), s) = Put(e, k).keydb[f]
  BY <1>2, <1>3, <1>4, PutLeads
<1>. QED BY <1>5 DEF e

\* As long as cleaning never removes a key altogether, no update and no
\* reindex makes a subkey that only one key has stop leading to that key
\* (SubkeysStayFound).
THEOREM SubkeysSafe ==
    ASSUME CleanNeverDrops
    PROVE  Spec => SubkeysStayFound
<1>. DEFINE Kept == \A f, s \in Fp :
         /\ reply'.op # "delete"
         /\ \A k \in Key : s \in FpsOf(k) => FpOf(k) = f
         /\ Stored(db, f) /\ FetchKeyFp(db, s) = db.keydb[f]
         /\ db'.keydb[f] # NoKey /\ s \in FpsOf(db'.keydb[f])
         => FetchKeyFp(db', s) = db'.keydb[f]
<1>1. TypeOK /\ IndexInv /\ [Next]_vars => [Kept]_vars
  <2>. SUFFICES ASSUME TypeOK, IndexInv, [Next]_vars,
                       NEW f \in Fp, NEW s \in Fp,
                       reply'.op # "delete", Only(f, s),
                       Stored(db, f), FetchKeyFp(db, s) = db.keydb[f],
                       db'.keydb[f] # NoKey, s \in FpsOf(db'.keydb[f])
                PROVE  FetchKeyFp(db', s) = db'.keydb[f]
    BY DEF Only
  <2>1. db \in Tables /\ Indexed(db) /\ FiledByFp(db)
    BY DEF TypeOK, IndexInv, Indexed
  <2>2. ASSUME NEW k \in Key, Stored(db, FpOf(k)),
               db' = Put(DeleteKey(db, FpOf(k)), k)
        PROVE  FetchKeyFp(db', s) = db'.keydb[f]
    BY <2>1, <2>2, RewriteLeads
  <2>3. ASSUME NEW k \in Key, NEW u \in BOOLEAN, UpdateKey(k, u)
        PROVE  FetchKeyFp(db', s) = db'.keydb[f]
    <3>. DEFINE old == FetchKeyFp(db, FpOf(k))
    <3>1. FpOf(k) \in Fp /\ old \in Key \cup {NoKey}
      BY <2>1, KeyAssumption, FetchType
    <3>2. old # NoKey => /\ old \in Key /\ db.keydb[FpOf(old)] = old
                         /\ FpOf(old) \in Fp
      BY <2>1, <3>1, FoundIsFiled, KeyAssumption
    <3>. HIDE DEF old
    <3>3. CASE UpdateIgnored(k) \/ UpdateSkipsNew(k) \/ UpdateAddsNothing(k)
      BY <3>3 DEF UpdateIgnored, UpdateSkipsNew, UpdateAddsNothing
    <3>4. CASE UpdateStoresNew(k)
      <4>1. db' = Put(db, k)
        BY <3>4, StoreIsPut DEF UpdateStoresNew
      <4>. QED BY <2>1, <4>1, PutLeads
    <3>5. CASE UpdateMerges(k)
      <4>. DEFINE m == Merge(old, k)
      <4>1. /\ old # NoKey /\ FpOf(old) = FpOf(k)
            /\ db' = StoreKey(db, m, TRUE)
        BY <3>5 DEF UpdateMerges, old
      <4>2. m \in Key /\ FpOf(m) = FpOf(k)
        BY <3>2, <4>1, MergeAssumption
      <4>. HIDE DEF m
      <4>3. Stored(db, FpOf(m))
        BY <3>2, <4>1, <4>2 DEF Stored
      <4>4. db' = Put(DeleteKey(db, FpOf(m)), m)
        BY <4>1, StoreIsPut
      <4>. QED BY <2>2, <4>2, <4>3, <4>4
    <3>6. CASE UpdateMeetsSubkey(k)
      <4>1. old # NoKey /\ db' = StoreKey(db, old, TRUE)
        BY <3>6 DEF UpdateMeetsSubkey, old
      <4>2. Stored(db, FpOf(old))
        BY <3>2, <4>1 DEF Stored
      <4>3. db' = Put(DeleteKey(db, FpOf(old)), old)
        BY <4>1, StoreIsPut
      <4>. QED BY <2>2, <3>2, <4>1, <4>2, <4>3
    <3>. QED BY <2>3, <3>3, <3>4, <3>5, <3>6 DEF UpdateKey
  <2>4. ASSUME NEW g \in Fp, Delete(g)
        PROVE  FALSE
    BY <2>4 DEF Delete, Reply
  <2>5. ASSUME NEW i \in Id, ReindexStores(i)
        PROVE  FetchKeyFp(db', s) = db'.keydb[f]
    <3>1. PICK first \in KeysOfId(i) :
             db' = StoreKey(DeleteKey(db, FpOf(first)), Clean(first), FALSE)
      <4>1. KeysOfId(i) \subseteq Key
        BY <2>1, KeysOfIdType
      <4>. QED BY <2>5, <4>1 DEF ReindexStores, CleanNeverDrops
    <3>2. first \in Key /\ db.keydb[FpOf(first)] = first
      BY <2>1, KeysOfIdFiled
    <3>3. Clean(first) \in Key /\ FpOf(Clean(first)) = FpOf(first)
      BY <3>2, CleanAssumption DEF CleanNeverDrops
    <3>4. Stored(db, FpOf(Clean(first)))
      BY <3>2, <3>3, NothingAssumption DEF Stored
    <3>5. db' = Put(DeleteKey(db, FpOf(Clean(first))), Clean(first))
      BY <3>1, <3>3, StoreIsPut
    <3>. QED BY <2>2, <3>3, <3>4, <3>5
  <2>6. CASE UNCHANGED db
    BY <2>6
  <2>. QED BY <2>3, <2>4, <2>5, <2>6 DEF Next, ReindexAsserts, Abort, vars
<1>. QED BY <1>1, TypeCorrect, IndexSafe, PTL DEF Spec, SubkeysStayFound

-----------------------------------------------------------------------------
(* The stacked backend *)

\* The tables have their shape and leave no key unfound; what is pending does
\* not matter, as every fallback store is one of some key.
StackedInv == db \in Tables /\ Covered(db)

\* update_keys stores a key, whichever way it goes.
LEMMA UpdateStores ==
    ASSUME StackedInv, NEW k \in Key, NEW u \in BOOLEAN, UpdateKey(k, u)
    PROVE  StackedInv'
<1>. DEFINE old == FetchKeyFp(db, FpOf(k))
<1>1. old \in Key \cup {NoKey}
  BY KeyAssumption, FetchType DEF StackedInv
<1>2. CASE UpdateIgnored(k) \/ UpdateSkipsNew(k) \/ UpdateAddsNothing(k)
  BY <1>2 DEF StackedInv, UpdateIgnored, UpdateSkipsNew, UpdateAddsNothing
<1>3. CASE UpdateStoresNew(k)
  BY <1>3, StoreCovered DEF StackedInv, UpdateStoresNew
<1>4. CASE UpdateMerges(k)
  <2>1. Merge(old, k) \in Key
    BY <1>1, <1>4, MergeAssumption DEF UpdateMerges
  <2>. QED BY <1>4, <2>1, StoreCovered DEF StackedInv, UpdateMerges
<1>5. CASE UpdateMeetsSubkey(k)
  BY <1>1, <1>5, StoreCovered DEF StackedInv, UpdateMeetsSubkey
<1>. QED BY <1>2, <1>3, <1>4, <1>5 DEF UpdateKey

\* Every step of the stacked backend, fallback stores included, keeps the tables
\* covered.
LEMMA StackedStep ==
    ASSUME StackedInv, [StackedNext]_stackedVars
    PROVE  StackedInv'
<1>1. CASE db' = db
  BY <1>1 DEF StackedInv
<1>2. ASSUME NEW c \in Client, NEW k \in Key, StoreOnFallback(c, k)
      PROVE  StackedInv'
  <2>1. CASE Clean(k) = NoKey
    BY <1>1, <1>2, <2>1 DEF StoreOnFallback
  <2>2. CASE Clean(k) # NoKey
    <3>1. Clean(k) \in Key /\ db' = StoreKey(db, Clean(k), FALSE)
      BY <1>2, <2>2, CleanAssumption DEF StoreOnFallback
    <3>. QED BY <3>1, StoreCovered DEF StackedInv
  <2>. QED BY <2>1, <2>2
<1>3. ASSUME NEW k \in Key, NEW u \in BOOLEAN, UpdateKey(k, u)
      PROVE  StackedInv'
  BY <1>3, UpdateStores
<1>4. ASSUME NEW f \in Fp, Delete(f)
      PROVE  StackedInv'
  BY <1>4, DeleteType, DeleteCovered DEF StackedInv, Delete
<1>. QED BY <1>1, <1>2, <1>3, <1>4
         DEF StackedNext, stackedVars, StackedFetchKey, StackedFetchKeyFp, StackedFetchKeyId,
             StackedFetchKeyText, StackedFetchKeySksHash, StackedFetch, ClientEnds

\* keydb_stacked.c: for any number of programs that look keys up, store what
\* other backends return, update and delete, each key of the first backend is
\* found by its words, its ids and its hash, although a fallback store takes
\* the key for a new one (update FALSE).
THEOREM StackedStoredIsFound == StackedSpec => []StoredIsFound
<1>1. StackedInit => StackedInv
  BY DEF StackedInit, Init, StackedInv, EmptyDb, Tables, Covered, Stored
<1>2. StackedInv /\ [StackedNext]_stackedVars => StackedInv'
  BY StackedStep
<1>3. StackedInv => StoredIsFound
  BY DEF StackedInv, StoredIsFound
<1>. QED BY <1>1, <1>2, <1>3, PTL DEF StackedSpec
=============================================================================
