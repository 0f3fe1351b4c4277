-------------------------- MODULE KeydUpdateProofs --------------------------
(***************************************************************************)
(* Whatever the clients of keyd do between each other's fetches and        *)
(* stores, the stored keys stay found.                                     *)
(***************************************************************************)
EXTENDS KeydUpdate, Db4TablesProofs

\* What a client sends keyd to store is a key: the submitted one, its merge
\* with the fetched one, or the fetched one.
LEMMA PayloadType ==
    ASSUME NEW r \in Clients, r.key \in Key
    PROVE  Payload(r) \in Key
<1>1. r.old \in Key \cup {NoKey}
  BY DEF Clients
<1>. QED BY <1>1, MergeAssumption DEF Payload

\* The states that clients and keyd can reach are well formed and leave every
\* stored key found; the two are preserved together.
LEMMA KeydStep ==
    ASSUME TypeOK, StoredIsFound, [Next]_vars
    PROVE  TypeOK' /\ StoredIsFound'
<1>1. /\ db \in Tables /\ Covered(db)
      /\ client \in [Client -> Clients]
      /\ \A c \in Client : client[c].pc # "idle" => client[c].key \in Key
  BY DEF TypeOK, StoredIsFound
<1>2. Idle \in Clients /\ Idle.pc = "idle"
  BY DEF Idle, Clients
<1>3. ASSUME NEW c \in Client, NEW k \in Key, ClientFetches(c, k)
      PROVE  TypeOK' /\ StoredIsFound'
  <2>. DEFINE r == [pc |-> "fetched", key |-> k, old |-> FetchKeyFp(db, FpOf(k))]
  <2>1. FetchKeyFp(db, FpOf(k)) \in Key \cup {NoKey}
    BY <1>1, KeyAssumption, FetchType
  <2>2. r \in Clients /\ r.key \in Key
    BY <2>1 DEF Clients
  <2>3. client' = [client EXCEPT ![c] = r] /\ db' = db
    BY <1>3 DEF ClientFetches
  <2>. HIDE DEF r
  <2>. QED BY <1>1, <2>2, <2>3 DEF TypeOK, StoredIsFound
<1>4. ASSUME NEW c \in Client, ClientSends(c)
      PROVE  TypeOK' /\ StoredIsFound'
  <2>. DEFINE r == [client[c] EXCEPT !.pc = "sent"]
  <2>1. client[c] \in Clients /\ client[c].key \in Key
    BY <1>1, <1>4 DEF ClientSends
  <2>2. r \in Clients /\ r.key \in Key
    BY <2>1 DEF Clients
  <2>3. client' = [client EXCEPT ![c] = r] /\ db' = db
    BY <1>1, <1>4 DEF ClientSends
  <2>. HIDE DEF r
  <2>. QED BY <1>1, <2>2, <2>3 DEF TypeOK, StoredIsFound
<1>5. ASSUME NEW c \in Client, ClientStops(c)
      PROVE  TypeOK' /\ StoredIsFound'
  BY <1>1, <1>2, <1>5 DEF ClientStops, TypeOK, StoredIsFound
<1>6. ASSUME NEW c \in Client, KeydStores(c)
      PROVE  TypeOK' /\ StoredIsFound'
  <2>1. client[c] \in Clients /\ client[c].key \in Key
    BY <1>1, <1>6 DEF KeydStores
  <2>2. Payload(client[c]) \in Key
    BY <2>1, PayloadType
  <2>3. db' = StoreKey(db, Payload(client[c]), client[c].old # NoKey)
    BY <1>6 DEF KeydStores
  <2>4. db' \in Tables /\ Covered(db')
    BY <1>1, <2>2, <2>3, StoreCovered
  <2>5. client' = [client EXCEPT ![c] = Idle]
    BY <1>6 DEF KeydStores
  <2>. QED BY <1>1, <1>2, <2>4, <2>5 DEF TypeOK, StoredIsFound
<1>7. ASSUME NEW f \in Fp, KeydDeletes(f)
      PROVE  TypeOK' /\ StoredIsFound'
  <2>1. db' \in Tables /\ Covered(db')
    BY <1>1, <1>7, DeleteType, DeleteCovered DEF KeydDeletes
  <2>2. client' = client
    BY <1>7 DEF KeydDeletes
  <2>. QED BY <1>1, <2>1, <2>2 DEF TypeOK, StoredIsFound
<1>8. CASE KeydRestarts
  BY <1>1, <1>2, <1>8 DEF KeydRestarts, TypeOK, StoredIsFound
<1>9. CASE UNCHANGED vars
  BY <1>1, <1>9 DEF vars, TypeOK, StoredIsFound
<1>. QED BY <1>3, <1>4, <1>5, <1>6, <1>7, <1>8, <1>9 DEF Next

\* For any number of clients, and any interleaving of their commands with
\* deletes and restarts of keyd, each stored key is found by its words, its
\* ids and its hash.
THEOREM KeydStoredIsFound == Spec => [](TypeOK /\ StoredIsFound)
<1>1. Init => TypeOK /\ StoredIsFound
  BY DEF Init, TypeOK, StoredIsFound, EmptyDb, Tables, Covered, Stored,
         Idle, Clients
<1>2. (TypeOK /\ StoredIsFound) /\ [Next]_vars => (TypeOK /\ StoredIsFound)'
  BY KeydStep
<1>. QED BY <1>1, <1>2, PTL DEF Spec

\* What db4_fetch_key_fp finds is stored under its own fingerprint, also where a
\* stale subkey entry led to it.
LEMMA FoundInPlace ==
    ASSUME NEW d \in Tables, NEW f \in Fp, Covered(d), FetchKeyFp(d, f) # NoKey
    PROVE  d.keydb[FpOf(FetchKeyFp(d, f))] = FetchKeyFp(d, f)
<1>. DEFINE g == IF d.keydb[f] # NoKey THEN f ELSE d.subkeydb[f]
<1>1. g \in Fp /\ FetchKeyFp(d, f) = d.keydb[g] /\ d.keydb[g] # NoKey
  BY DEF FetchKeyFp, Tables
<1>2. FpOf(d.keydb[g]) = g
  BY <1>1 DEF Covered, Stored
<1>. QED BY <1>1, <1>2

\* A store whose fetch is fresh adds the submitted key, merges it into the stored
\* one, or stores again what is stored.
LEMMA FreshStore ==
    ASSUME TypeOK, StoredIsFound, NEW c \in Client, KeydStores(c), ~Stale(c)
    PROVE  [KS!Next]_(db.keydb)
<1>. DEFINE r == client[c]
            k == client[c].key
            old == client[c].old
            p == Payload(client[c])
<1>1. /\ db \in Tables /\ Covered(db) /\ r \in Clients
      /\ k \in Key /\ FpOf(k) \in Fp
  BY KeyAssumption DEF TypeOK, StoredIsFound, KeydStores
<1>2. old = FetchKeyFp(db, FpOf(k)) /\ old \in Key \cup {NoKey}
  BY <1>1 DEF Stale, Clients
<1>3. p \in Key /\ FpOf(p) \in Fp
  BY <1>1, PayloadType, KeyAssumption
<1>4. db' = StoreKey(db, p, old # NoKey)
  BY DEF KeydStores
<1>5. db'.keydb = [db.keydb EXCEPT ![FpOf(p)] = p]
  BY <1>1, <1>3, <1>4, StoreKeydb
<1>6. db.keydb \in [Fp -> Key \cup {NoKey}]
  BY <1>1 DEF Tables
<1>7. CASE old = NoKey
  <2>1. p = k
    BY <1>7 DEF Payload
  <2>2. db.keydb[FpOf(k)] = NoKey
    BY <1>1, <1>2, <1>7 DEF FetchKeyFp, Covered, Stored
  <2>3. KS!Add(k)
    BY <1>5, <2>1, <2>2 DEF KS!Add
  <2>. QED BY <1>1, <2>3 DEF KS!Next
<1>8. CASE old # NoKey /\ FpOf(old) = FpOf(k)
  <2>1. p = Merge(old, k) /\ FpOf(p) = FpOf(k)
    BY <1>1, <1>2, <1>8, MergeAssumption DEF Payload
  <2>2. db.keydb[FpOf(k)] = old
    BY <1>1, <1>2, <1>8, FoundInPlace
  <2>3. KS!Improve(k)
    BY <1>5, <1>8, <2>1, <2>2 DEF KS!Improve
  <2>. QED BY <1>1, <2>3 DEF KS!Next
<1>9. CASE old # NoKey /\ FpOf(old) # FpOf(k)
  <2>1. p = old
    BY <1>9 DEF Payload
  <2>2. db.keydb[FpOf(old)] = old
    BY <1>1, <1>2, <1>9, FoundInPlace
  <2>3. db'.keydb = db.keydb
    BY <1>3, <1>5, <1>6, <2>1, <2>2
  <2>. QED BY <2>3
<1>. QED BY <1>7, <1>8, <1>9

\* For any number of clients and any interleaving, what keyd does to the key data
\* is what the abstract store allows, but for stores from a stale fetch: the
\* missing transactions of keydb_keyd.c lose updates in no other way.
THEOREM KeydImplementsWhenFresh == Spec => FreshImplements
<1>1. ASSUME TypeOK, StoredIsFound, [Next]_vars
      PROVE  \/ [KS!Next]_(db.keydb)
             \/ \E c \in Client : KeydStores(c) /\ Stale(c)
  <2>1. CASE db' = db
    BY <2>1
  <2>2. ASSUME NEW c \in Client, KeydStores(c)
        PROVE  [KS!Next]_(db.keydb) \/ (KeydStores(c) /\ Stale(c))
    BY <1>1, <2>2, FreshStore
  <2>3. ASSUME NEW f \in Fp, KeydDeletes(f)
        PROVE  [KS!Next]_(db.keydb)
    <3>1. db' = db \/ db'.keydb = [db.keydb EXCEPT ![f] = NoKey]
      BY <2>3 DEF KeydDeletes, DeleteKey
    <3>. QED BY <3>1 DEF KS!Next, KS!Remove
  <2>. QED BY <1>1, <2>1, <2>2, <2>3 DEF Next, vars, ClientFetches, ClientSends,
              ClientStops, KeydRestarts
<1>2. (TypeOK /\ StoredIsFound) /\ [Next]_vars =>
          [\/ [KS!Next]_(db.keydb)
           \/ \E c \in Client : KeydStores(c) /\ Stale(c)]_vars
  BY <1>1
<1>. QED BY <1>2, KeydStoredIsFound, PTL DEF Spec, FreshImplements
=============================================================================
