-------------------------- MODULE Db4TablesProofs --------------------------
(***************************************************************************)
(* Lemmas about the tables of the Berkeley DB backend: what the lookups    *)
(* return, and what storing and deleting preserve.                         *)
(***************************************************************************)
EXTENDS Db4Tables, FiniteSetTheorems, TLAPS

-----------------------------------------------------------------------------
(* What the helpers return *)

\* A key contributes a natural number of rows to each index (WordRows and
\* IdRows, the puts of db4_store_key).
LEMMA RowsType ==
    ASSUME NEW k \in Key
    PROVE  /\ \A w \in Word : WordRows(k, w) \in Nat
           /\ \A i \in Id : IdRows(k, i) \in Nat
<1>1. \A w \in Word : WordRows(k, w) \in Nat
  BY DEF WordRows
<1>2. ASSUME NEW i \in Id
      PROVE  IdRows(k, i) \in Nat
  <2>1. IsFiniteSet({s \in SubkeyFps(k) : i \in Ids(s)})
    BY KeyAssumption, FS_Subset
  <2>2. Cardinality({s \in SubkeyFps(k) : i \in Ids(s)}) \in Nat
    BY <2>1, FS_CardinalityType
  <2>. QED BY <2>2 DEF IdRows
<1>. QED BY <1>1, <1>2

\* db4_fetch_key_fp returns a key or nothing.
LEMMA FetchType ==
    ASSUME NEW d \in Tables, NEW f \in Fp
    PROVE  FetchKeyFp(d, f) \in Key \cup {NoKey}
BY DEF Tables, FetchKeyFp

\* A fingerprint under which nothing is found has no key data of its own.
LEMMA FetchNothing ==
    ASSUME NEW d \in Tables, NEW f \in Fp, FetchKeyFp(d, f) = NoKey
    PROVE  d.keydb[f] = NoKey
BY DEF FetchKeyFp

\* db4_delete_key leaves well-formed tables.
LEMMA DeleteType ==
    ASSUME NEW d \in Tables, NEW f \in Fp
    PROVE  DeleteKey(d, f) \in Tables
<1>. DEFINE k == FetchKeyFp(d, f)
<1>1. CASE k = NoKey
  BY <1>1 DEF DeleteKey
<1>2. CASE k # NoKey
  <2>1. k \in Key
    BY <1>2, FetchType
  <2>2. /\ \A w \in Word : WordRows(k, w) \in Nat
        /\ \A i \in Id : IdRows(k, i) \in Nat
    BY <2>1, RowsType
  <2>3. \A n, m \in Nat : Less(n, m) \in Nat
    BY DEF Less
  <2>. HIDE DEF k
  <2>4. [d.keydb EXCEPT ![f] = NoKey] \in [Fp -> Key \cup {NoKey}]
    BY DEF Tables
  <2>5. [w \in Word |-> [d.worddb[w] EXCEPT ![f] = Less(@, WordRows(k, w))]]
            \in [Word -> [Fp -> Nat]]
    BY <2>2, <2>3 DEF Tables
  <2>6. [i \in Id |-> [d.iddb[i] EXCEPT ![f] = Less(@, IdRows(k, i))]]
            \in [Id -> [Fp -> Nat]]
    BY <2>2, <2>3 DEF Tables
  <2>7. [h \in Hash |-> IF h = SksHash(k) /\ d.skshashdb[h] = f THEN NoFp
                        ELSE d.skshashdb[h]] \in [Hash -> Fp \cup {NoFp}]
    BY DEF Tables
  <2>8. [s \in Fp |-> IF s \in SubkeyFps(k) THEN NoFp ELSE d.subkeydb[s]]
            \in [Fp -> Fp \cup {NoFp}]
    BY DEF Tables
  <2>. USE DEF k
  <2>. QED BY <1>2, <2>4, <2>5, <2>6, <2>7, <2>8 DEF DeleteKey, Tables
<1>. QED BY <1>1, <1>2

\* The puts of db4_store_key, after the delete of an update.
Put(e, k) ==
    LET f == FpOf(k) IN
    [keydb     |-> [e.keydb EXCEPT ![f] = k],
     worddb    |-> [w \in Word |->
         [e.worddb[w] EXCEPT ![f] = @ + WordRows(k, w)]],
     iddb      |-> [i \in Id |->
         [e.iddb[i] EXCEPT ![f] = @ + IdRows(k, i)]],
     skshashdb |-> [e.skshashdb EXCEPT ![SksHash(k)] = f],
     subkeydb  |-> [s \in Fp |->
         IF s \in SubkeyFps(k) THEN f ELSE e.subkeydb[s]]]

\* db4_store_key is a put, preceded by a delete when it updates.
LEMMA StoreIsPut ==
    ASSUME NEW d, NEW k
    PROVE  /\ StoreKey(d, k, FALSE) = Put(d, k)
           /\ StoreKey(d, k, TRUE) = Put(DeleteKey(d, FpOf(k)), k)
BY DEF StoreKey, Put

\* The puts of db4_store_key leave well-formed tables.
LEMMA PutType ==
    ASSUME NEW d \in Tables, NEW k \in Key
    PROVE  Put(d, k) \in Tables
<1>. DEFINE f == FpOf(k)
<1>1. /\ f \in Fp /\ SksHash(k) \in Hash
  BY KeyAssumption
<1>2. /\ \A w \in Word : WordRows(k, w) \in Nat
      /\ \A i \in Id : IdRows(k, i) \in Nat
  BY RowsType
<1>. HIDE DEF f
<1>3. [d.keydb EXCEPT ![f] = k] \in [Fp -> Key \cup {NoKey}]
  BY DEF Tables
<1>4. [w \in Word |-> [d.worddb[w] EXCEPT ![f] = @ + WordRows(k, w)]]
          \in [Word -> [Fp -> Nat]]
  BY <1>1, <1>2 DEF Tables
<1>5. [i \in Id |-> [d.iddb[i] EXCEPT ![f] = @ + IdRows(k, i)]]
          \in [Id -> [Fp -> Nat]]
  BY <1>1, <1>2 DEF Tables
<1>6. [d.skshashdb EXCEPT ![SksHash(k)] = f] \in [Hash -> Fp \cup {NoFp}]
  BY <1>1 DEF Tables
<1>7. [s \in Fp |-> IF s \in SubkeyFps(k) THEN f ELSE d.subkeydb[s]]
          \in [Fp -> Fp \cup {NoFp}]
  BY <1>1 DEF Tables
<1>. USE DEF f
<1>. QED BY <1>3, <1>4, <1>5, <1>6, <1>7 DEF Put, Tables

\* db4_store_key leaves well-formed tables, updating or not.
LEMMA StoreType ==
    ASSUME NEW d \in Tables, NEW k \in Key
    PROVE  /\ StoreKey(d, k, FALSE) \in Tables
           /\ StoreKey(d, k, TRUE) \in Tables
<1>1. DeleteKey(d, FpOf(k)) \in Tables
  BY KeyAssumption, DeleteType
<1>2. Put(d, k) \in Tables /\ Put(DeleteKey(d, FpOf(k)), k) \in Tables
  BY <1>1, PutType
<1>3. /\ StoreKey(d, k, FALSE) = Put(d, k)
      /\ StoreKey(d, k, TRUE) = Put(DeleteKey(d, FpOf(k)), k)
  BY StoreIsPut
<1>. QED BY <1>2, <1>3

-----------------------------------------------------------------------------
(* What deleting and storing preserve *)

\* After db4_delete_key nothing is stored under the fingerprint, and no other
\* key data changed.
LEMMA DeleteKeydb ==
    ASSUME NEW d \in Tables, NEW f \in Fp
    PROVE  DeleteKey(d, f).keydb = [d.keydb EXCEPT ![f] = NoKey]
<1>1. CASE FetchKeyFp(d, f) = NoKey
  <2>1. d.keydb[f] = NoKey /\ DeleteKey(d, f) = d
    BY <1>1, FetchNothing DEF DeleteKey
  <2>. QED BY <2>1 DEF Tables
<1>2. CASE FetchKeyFp(d, f) # NoKey
  BY <1>2 DEF DeleteKey
<1>. QED BY <1>1, <1>2

\* Exact indexes stay exact under db4_delete_key, for the fingerprint of a
\* primary key, of a subkey, or of nothing.
LEMMA DeleteIndexed ==
    ASSUME NEW d \in Tables, NEW f \in Fp, Indexed(d)
    PROVE  Indexed(DeleteKey(d, f))
<1>. DEFINE k == FetchKeyFp(d, f)
            e == DeleteKey(d, f)
<1>1. CASE k = NoKey
  BY <1>1 DEF DeleteKey
<1>2. CASE k # NoKey
  <2>1. /\ k \in Key
        /\ \A w \in Word : WordRows(k, w) \in Nat
        /\ \A i \in Id : IdRows(k, i) \in Nat
    BY <1>2, FetchType, RowsType
  <2>2. e = [keydb |-> [d.keydb EXCEPT ![f] = NoKey],
             worddb |-> [w \in Word |->
                [d.worddb[w] EXCEPT ![f] = Less(@, WordRows(k, w))]],
             iddb |-> [i \in Id |->
                [d.iddb[i] EXCEPT ![f] = Less(@, IdRows(k, i))]],
             skshashdb |-> [h \in Hash |->
                IF h = SksHash(k) /\ d.skshashdb[h] = f THEN NoFp
                ELSE d.skshashdb[h]],
             subkeydb |-> [s \in Fp |->
                IF s \in SubkeyFps(k) THEN NoFp ELSE d.subkeydb[s]]]
    BY <1>2 DEF DeleteKey
  <2>3. d.keydb[f] # NoKey => k = d.keydb[f]
    BY DEF FetchKeyFp
  <2>. HIDE DEF k, e
  <2>4. FiledByFp(e)
    BY <2>2 DEF Indexed, FiledByFp, Stored, Tables
  <2>5. RowsExact(e)
    <3>. SUFFICES ASSUME NEW g \in Fp
                  PROVE  /\ \A w \in Word : e.worddb[w][g] =
                              IF Stored(e, g) THEN WordRows(e.keydb[g], w) ELSE 0
                         /\ \A i \in Id : e.iddb[i][g] =
                              IF Stored(e, g) THEN IdRows(e.keydb[g], i) ELSE 0
      BY DEF RowsExact
    <3>1. CASE g # f
      BY <3>1, <2>2 DEF Indexed, RowsExact, Stored, Tables
    <3>2. CASE g = f
      <4>1. ~Stored(e, f)
        BY <2>2 DEF Stored, Tables
      <4>2. ASSUME NEW w \in Word PROVE e.worddb[w][f] = 0
        <5>1. e.worddb[w][f] = Less(d.worddb[w][f], WordRows(k, w))
          BY <2>2 DEF Tables
        <5>2. d.worddb[w][f] = WordRows(k, w) \/ d.worddb[w][f] = 0
          BY <2>3 DEF Indexed, RowsExact, Stored
        <5>. QED BY <5>1, <5>2, <2>1 DEF Less
      <4>3. ASSUME NEW i \in Id PROVE e.iddb[i][f] = 0
        <5>1. e.iddb[i][f] = Less(d.iddb[i][f], IdRows(k, i))
          BY <2>2 DEF Tables
        <5>2. d.iddb[i][f] = IdRows(k, i) \/ d.iddb[i][f] = 0
          BY <2>3 DEF Indexed, RowsExact, Stored
        <5>. QED BY <5>1, <5>2, <2>1 DEF Less
      <4>. QED BY <3>2, <4>1, <4>2, <4>3
    <3>. QED BY <3>1, <3>2
  <2>6. HashExact(e)
    BY <2>2, <2>3, NothingAssumption
    DEF Indexed, HashExact, Stored, Tables
  <2>7. SubkeySound(e)
    <3>. SUFFICES ASSUME NEW s \in Fp, e.subkeydb[s] # NoFp
                  PROVE  /\ Stored(e, e.subkeydb[s])
                         /\ s \in SubkeyFps(e.keydb[e.subkeydb[s]])
      BY DEF SubkeySound
    <3>. DEFINE g == e.subkeydb[s]
    <3>1. s \notin SubkeyFps(k) /\ g = d.subkeydb[s] /\ g \in Fp
      BY <2>2 DEF Tables
    <3>2. Stored(d, g) /\ s \in SubkeyFps(d.keydb[g])
      BY <3>1 DEF Indexed, SubkeySound
    <3>3. g # f
      BY <3>1, <3>2, <2>3 DEF Stored
    <3>. QED BY <3>1, <3>2, <3>3, <2>2 DEF Stored, Tables
  <2>. QED BY <2>4, <2>5, <2>6, <2>7 DEF Indexed, e
<1>. QED BY <1>1, <1>2

\* Exact indexes stay exact under the puts of db4_store_key, provided nothing
\* was stored under the fingerprint.
LEMMA PutIndexed ==
    ASSUME NEW d \in Tables, NEW k \in Key, Indexed(d),
           d.keydb[FpOf(k)] = NoKey
    PROVE  Indexed(Put(d, k))
<1>. DEFINE f == FpOf(k)
            e == Put(d, k)
<1>1. /\ f \in Fp /\ SksHash(k) \in Hash /\ k # NoKey
      /\ \A w \in Word : WordRows(k, w) \in Nat
      /\ \A i \in Id : IdRows(k, i) \in Nat
  BY KeyAssumption, NothingAssumption, RowsType
<1>2. e = [keydb |-> [d.keydb EXCEPT ![f] = k],
           worddb |-> [w \in Word |->
              [d.worddb[w] EXCEPT ![f] = @ + WordRows(k, w)]],
           iddb |-> [i \in Id |->
              [d.iddb[i] EXCEPT ![f] = @ + IdRows(k, i)]],
           skshashdb |-> [d.skshashdb EXCEPT ![SksHash(k)] = f],
           subkeydb |-> [s \in Fp |->
              IF s \in SubkeyFps(k) THEN f ELSE d.subkeydb[s]]]
  BY DEF Put
<1>3. d.keydb[f] = NoKey /\ FpOf(k) = f
  OBVIOUS
<1>. HIDE DEF f, e
<1>4. FiledByFp(e)
  BY <1>1, <1>2, <1>3 DEF Indexed, FiledByFp, Stored, Tables
<1>5. RowsExact(e)
  <2>. SUFFICES ASSUME NEW g \in Fp
                PROVE  /\ \A w \in Word : e.worddb[w][g] =
                            IF Stored(e, g) THEN WordRows(e.keydb[g], w) ELSE 0
                       /\ \A i \in Id : e.iddb[i][g] =
                            IF Stored(e, g) THEN IdRows(e.keydb[g], i) ELSE 0
    BY DEF RowsExact
  <2>1. CASE g # f
    BY <2>1, <1>2 DEF Indexed, RowsExact, Stored, Tables
  <2>2. CASE g = f
    <3>1. Stored(e, f) /\ e.keydb[f] = k
      BY <1>1, <1>2 DEF Stored, Tables
    <3>2. /\ \A w \in Word : d.worddb[w][f] = 0
          /\ \A i \in Id : d.iddb[i][f] = 0
      BY <1>1, <1>3 DEF Indexed, RowsExact, Stored
    <3>3. /\ \A w \in Word : e.worddb[w][f] = WordRows(k, w)
          /\ \A i \in Id : e.iddb[i][f] = IdRows(k, i)
      BY <1>1, <1>2, <3>2 DEF Tables
    <3>. QED BY <2>2, <3>1, <3>3
  <2>. QED BY <2>1, <2>2
<1>6. HashExact(e)
  <2>. SUFFICES ASSUME NEW h \in Hash, NEW g \in Fp
                PROVE  e.skshashdb[h] = g <=>
                           Stored(e, g) /\ SksHash(e.keydb[g]) = h
    BY DEF HashExact
  <2>1. /\ e.skshashdb[h] = IF h = SksHash(k) THEN f ELSE d.skshashdb[h]
        /\ e.keydb[g] = IF g = f THEN k ELSE d.keydb[g]
    BY <1>1, <1>2 DEF Tables
  <2>2. d.skshashdb[h] = g <=> d.keydb[g] # NoKey /\ SksHash(d.keydb[g]) = h
    BY DEF Indexed, HashExact, Stored
  <2>3. CASE g = f
    BY <2>1, <2>2, <2>3, <1>1, <1>3 DEF Stored
  <2>4. CASE g # f
    <3>1. d.keydb[g] # NoKey => SksHash(d.keydb[g]) # SksHash(k)
      BY <2>4, <1>3, HashAssumption DEF Indexed, FiledByFp, Stored, Tables
    <3>. QED BY <2>1, <2>2, <2>4, <3>1 DEF Stored
  <2>. QED BY <2>3, <2>4
<1>7. SubkeySound(e)
  <2>. SUFFICES ASSUME NEW s \in Fp, e.subkeydb[s] # NoFp
                PROVE  /\ Stored(e, e.subkeydb[s])
                       /\ s \in SubkeyFps(e.keydb[e.subkeydb[s]])
    BY DEF SubkeySound
  <2>1. e.subkeydb[s] = IF s \in SubkeyFps(k) THEN f ELSE d.subkeydb[s]
    BY <1>2
  <2>2. CASE s \in SubkeyFps(k)
    BY <2>1, <2>2, <1>1, <1>2 DEF Stored, Tables
  <2>3. CASE s \notin SubkeyFps(k)
    <3>1. /\ d.subkeydb[s] \in Fp
          /\ Stored(d, d.subkeydb[s])
          /\ s \in SubkeyFps(d.keydb[d.subkeydb[s]])
      BY <2>1, <2>3 DEF Indexed, SubkeySound, Tables
    <3>2. d.subkeydb[s] # f
      BY <3>1, <1>3 DEF Stored
    <3>. QED BY <2>1, <2>3, <3>1, <3>2, <1>2 DEF Stored, Tables
  <2>. QED BY <2>2, <2>3
<1>. QED BY <1>4, <1>5, <1>6, <1>7 DEF Indexed, e

\* What db4_store_key does to exact indexes and to the key data: an update
\* always keeps the indexes exact, a new store when its trust is justified.
LEMMA StoreIndexed ==
    ASSUME NEW d \in Tables, NEW k \in Key, Indexed(d)
    PROVE  /\ Indexed(StoreKey(d, k, TRUE))
           /\ d.keydb[FpOf(k)] = NoKey => Indexed(StoreKey(d, k, FALSE))
<1>. DEFINE e == DeleteKey(d, FpOf(k))
<1>1. FpOf(k) \in Fp
  BY KeyAssumption
<1>2. e \in Tables /\ Indexed(e) /\ e.keydb[FpOf(k)] = NoKey
  <2>1. e \in Tables
    BY <1>1, DeleteType
  <2>2. Indexed(e)
    BY <1>1, DeleteIndexed
  <2>3. e.keydb = [d.keydb EXCEPT ![FpOf(k)] = NoKey]
    BY <1>1, DeleteKeydb
  <2>. QED BY <2>1, <2>2, <2>3, <1>1 DEF Tables
<1>3. Indexed(Put(e, k))
  BY <1>2, PutIndexed
<1>4. d.keydb[FpOf(k)] = NoKey => Indexed(Put(d, k))
  BY PutIndexed
<1>. QED BY <1>3, <1>4, StoreIsPut

\* db4_store_key changes the data of its own key only.
LEMMA StoreKeydb ==
    ASSUME NEW d \in Tables, NEW k \in Key, NEW u \in BOOLEAN
    PROVE  StoreKey(d, k, u).keydb = [d.keydb EXCEPT ![FpOf(k)] = k]
<1>1. FpOf(k) \in Fp
  BY KeyAssumption
<1>2. CASE u = FALSE
  BY <1>2 DEF StoreKey
<1>3. CASE u = TRUE
  <2>1. StoreKey(d, k, u).keydb =
            [DeleteKey(d, FpOf(k)).keydb EXCEPT ![FpOf(k)] = k]
    BY <1>3 DEF StoreKey
  <2>2. DeleteKey(d, FpOf(k)).keydb = [d.keydb EXCEPT ![FpOf(k)] = NoKey]
    BY <1>1, DeleteKeydb
  <2>. QED BY <2>1, <2>2, <1>1 DEF Tables
<1>. QED BY <1>2, <1>3

\* Whatever db4_fetch_key_fp finds in exactly indexed tables is the key stored
\* under its own fingerprint, also when a subkey led to it.
LEMMA FoundIsFiled ==
    ASSUME NEW d \in Tables, NEW f \in Fp, Indexed(d),
           FetchKeyFp(d, f) # NoKey
    PROVE  LET k == FetchKeyFp(d, f) IN k \in Key /\ d.keydb[FpOf(k)] = k
<1>. DEFINE g == IF d.keydb[f] # NoKey THEN f ELSE d.subkeydb[f]
<1>1. g \in Fp /\ FetchKeyFp(d, f) = d.keydb[g] /\ d.keydb[g] # NoKey
  BY DEF FetchKeyFp, Tables
<1>2. FpOf(d.keydb[g]) = g
  BY <1>1 DEF Indexed, FiledByFp, Stored
<1>3. d.keydb[g] \in Key
  BY <1>1 DEF Tables
<1>. QED BY <1>1, <1>2, <1>3

-----------------------------------------------------------------------------
(* Keys that stay found, whatever store_key was told *)

\* db4_delete_key takes no row from any other key.
LEMMA DeleteCovered ==
    ASSUME NEW d \in Tables, NEW f \in Fp, Covered(d)
    PROVE  Covered(DeleteKey(d, f))
<1>. DEFINE k == FetchKeyFp(d, f)
            e == DeleteKey(d, f)
<1>1. CASE k = NoKey
  BY <1>1 DEF DeleteKey
<1>2. CASE k # NoKey
  <2>. SUFFICES ASSUME NEW g \in Fp, Stored(e, g)
                PROVE  /\ FpOf(e.keydb[g]) = g
                       /\ \A w \in Word : e.worddb[w][g] >= WordRows(e.keydb[g], w)
                       /\ \A i \in Id : e.iddb[i][g] >= IdRows(e.keydb[g], i)
                       /\ e.skshashdb[SksHash(e.keydb[g])] = g
    BY DEF Covered
  <2>1. e.keydb = [d.keydb EXCEPT ![f] = NoKey]
    BY DeleteKeydb
  <2>2. g # f /\ e.keydb[g] = d.keydb[g] /\ Stored(d, g)
    BY <2>1 DEF Stored, Tables
  <2>3. /\ \A w \in Word : e.worddb[w][g] = d.worddb[w][g]
        /\ \A i \in Id : e.iddb[i][g] = d.iddb[i][g]
    BY <1>2, <2>2 DEF DeleteKey, Tables
  <2>4. SksHash(d.keydb[g]) \in Hash
    BY <2>2, KeyAssumption DEF Stored, Tables
  <2>5. d.skshashdb[SksHash(d.keydb[g])] = g
    BY <2>2 DEF Covered
  <2>6. e.skshashdb[SksHash(d.keydb[g])] = g
    BY <1>2, <2>2, <2>4, <2>5 DEF DeleteKey
  <2>. QED BY <2>2, <2>3, <2>6 DEF Covered
<1>. QED BY <1>1, <1>2

\* The puts of db4_store_key write every row of the key, and change the hash
\* row of no other key, even when an older version is still there.
LEMMA PutCovered ==
    ASSUME NEW d \in Tables, NEW k \in Key, Covered(d)
    PROVE  Covered(Put(d, k))
<1>. DEFINE f == FpOf(k)
            e == Put(d, k)
<1>1. /\ f \in Fp /\ SksHash(k) \in Hash /\ k # NoKey
      /\ \A w \in Word : WordRows(k, w) \in Nat
      /\ \A i \in Id : IdRows(k, i) \in Nat
  BY KeyAssumption, NothingAssumption, RowsType
<1>2. /\ e.keydb = [d.keydb EXCEPT ![f] = k]
      /\ e.worddb = [w \in Word |->
             [d.worddb[w] EXCEPT ![f] = @ + WordRows(k, w)]]
      /\ e.iddb = [i \in Id |-> [d.iddb[i] EXCEPT ![f] = @ + IdRows(k, i)]]
      /\ e.skshashdb = [d.skshashdb EXCEPT ![SksHash(k)] = f]
  BY DEF Put
<1>3. FpOf(k) = f
  OBVIOUS
<1>. HIDE DEF e, f
<1>. SUFFICES ASSUME NEW g \in Fp, Stored(e, g)
              PROVE  /\ FpOf(e.keydb[g]) = g
                     /\ \A w \in Word : e.worddb[w][g] >= WordRows(e.keydb[g], w)
                     /\ \A i \in Id : e.iddb[i][g] >= IdRows(e.keydb[g], i)
                     /\ e.skshashdb[SksHash(e.keydb[g])] = g
  BY DEF Covered, e
<1>4. CASE g = f
  <2>1. e.keydb[f] = k
    BY <1>1, <1>2 DEF Tables
  <2>2. ASSUME NEW w \in Word PROVE e.worddb[w][f] >= WordRows(k, w)
    <3>1. e.worddb[w][f] = d.worddb[w][f] + WordRows(k, w)
      BY <1>1, <1>2 DEF Tables
    <3>2. d.worddb[w][f] \in Nat /\ WordRows(k, w) \in Nat
      BY <1>1 DEF Tables
    <3>. QED BY <3>1, <3>2
  <2>3. ASSUME NEW i \in Id PROVE e.iddb[i][f] >= IdRows(k, i)
    <3>1. e.iddb[i][f] = d.iddb[i][f] + IdRows(k, i)
      BY <1>1, <1>2 DEF Tables
    <3>2. d.iddb[i][f] \in Nat /\ IdRows(k, i) \in Nat
      BY <1>1 DEF Tables
    <3>. QED BY <3>1, <3>2
  <2>4. e.skshashdb[SksHash(k)] = f
    BY <1>1, <1>2 DEF Tables
  <2>. QED BY <1>3, <1>4, <2>1, <2>2, <2>3, <2>4
<1>5. CASE g # f
  <2>1. e.keydb[g] = d.keydb[g] /\ Stored(d, g)
    BY <1>2, <1>5 DEF Stored, Tables
  <2>2. /\ \A w \in Word : e.worddb[w][g] = d.worddb[w][g]
        /\ \A i \in Id : e.iddb[i][g] = d.iddb[i][g]
    BY <1>2, <1>5 DEF Tables
  <2>3. d.keydb[g] \in Key /\ FpOf(d.keydb[g]) = g
    BY <2>1 DEF Covered, Stored, Tables
  <2>4. SksHash(d.keydb[g]) # SksHash(k) /\ SksHash(d.keydb[g]) \in Hash
    BY <1>3, <1>5, <2>3, HashAssumption, KeyAssumption
  <2>5. e.skshashdb[SksHash(d.keydb[g])] = d.skshashdb[SksHash(d.keydb[g])]
    BY <1>2, <2>4 DEF Tables
  <2>. QED BY <2>1, <2>2, <2>5 DEF Covered
<1>. QED BY <1>4, <1>5

\* db4_store_key keeps every stored key found, even when the key was already
\* there and it was told that it was new.
LEMMA StoreCovered ==
    ASSUME NEW d \in Tables, NEW k \in Key, NEW u \in BOOLEAN, Covered(d)
    PROVE  StoreKey(d, k, u) \in Tables /\ Covered(StoreKey(d, k, u))
<1>1. DeleteKey(d, FpOf(k)) \in Tables /\ Covered(DeleteKey(d, FpOf(k)))
  BY KeyAssumption, DeleteType, DeleteCovered
<1>2. Covered(Put(d, k)) /\ Covered(Put(DeleteKey(d, FpOf(k)), k))
  BY <1>1, PutCovered
<1>3. CASE u = TRUE
  BY <1>2, <1>3, StoreIsPut, StoreType
<1>4. CASE u = FALSE
  BY <1>2, <1>4, StoreIsPut, StoreType
<1>. QED BY <1>3, <1>4
=============================================================================
