---------------------------- MODULE StackedStore ----------------------------
(***************************************************************************)
(* The stacked backend (keydb/keydb_stacked.c) over a Berkeley DB store,   *)
(* with store_on_fallback set.  Lookups go down the stack until a backend  *)
(* has results; updates and deletes only concern the first one, and are    *)
(* those of Db4Store.  The lookup's results are then cleaned and stored in *)
(* the first backend, each in a transaction of its own.                    *)
(***************************************************************************)
EXTENDS Db4Store, FiniteSetsExt

CONSTANTS Client,
          Upstream,     \* keys the backends further down may return
          MaxRows       \* bound: rows a word may have for one fingerprint

ASSUME UpstreamAssumption == Upstream \subseteq Key

VARIABLE pending        \* per client: copies of keys it is about to store

stackedVars == <<db, reply, pending>>

Nothing == [k \in Key |-> 0]

StackedInit == Init /\ pending = [c \in Client |-> Nothing]

-----------------------------------------------------------------------------
(* What a lookup finds in the first backend: copies of keys. *)

One(found) == [k \in Key |-> IF k = found THEN 1 ELSE 0]

ByFp(f) == One(FetchKeyFp(db, f))

ByPrimaryFp(f) == One(FetchKey(db, f))

ById(i) == [k \in Key |->
    MapThenSumSet(LAMBDA f : FetchKeyId(db, i)[f],
                  {f \in Fp : FetchKeyFp(db, f) = k})]

BySksHash(h) == One(FetchKeySksHash(db, h))

ByWord(w) == [k \in Key |->
    Cardinality({f \in Fp : db.worddb[w][f] > 0 /\ FetchKeyFp(db, f) = k})]

\* The walk down the stack: the first backend's result if it has one, else
\* what the next ones return of the wanted keys, which may be nothing.  The
\* loop has moved past the first backend by the time "cur != backends" is
\* tested, so the results are stored wherever they came from.
StackedFetch(c, local, Wanted) ==
    /\ pending[c] = Nothing
    /\ \E answer \in SUBSET (Upstream \cap Wanted) :
         pending' = [pending EXCEPT ![c] =
             IF local # Nothing THEN local
             ELSE [k \in Key |-> IF k \in answer THEN 1 ELSE 0]]
    /\ UNCHANGED <<db, reply>>

StackedFetchKey(c, f) == StackedFetch(c, ByPrimaryFp(f), {k \in Key : FpOf(k) = f})

StackedFetchKeyFp(c, f) == StackedFetch(c, ByFp(f), {k \in Key : f \in FpsOf(k)})

StackedFetchKeyId(c, i) ==
    StackedFetch(c, ById(i), {k \in Key : \E f \in FpsOf(k) : i \in Ids(f)})

StackedFetchKeyText(c, w) ==
    StackedFetch(c, ByWord(w), {k \in Key : w \in Words(k)})

StackedFetchKeySksHash(c, h) ==
    StackedFetch(c, BySksHash(h), {k \in Key : SksHash(k) = h})

\* store_on_fallback, one key of the list: cleaned, then stored as a new key
\* unless cleaning removed it.
StoreOnFallback(c, k) ==
    /\ pending[c][k] > 0
    /\ pending' = [pending EXCEPT ![c][k] = @ - 1]
    /\ db' = IF Clean(k) = NoKey THEN db ELSE StoreKey(db, Clean(k), FALSE)
    /\ \A w \in Word : db'.worddb[w][FpOf(k)] <= MaxRows
    /\ UNCHANGED reply

\* The process ends before it has stored everything.
ClientEnds(c) == /\ pending' = [pending EXCEPT ![c] = Nothing]
                 /\ UNCHANGED <<db, reply>>

StackedNext ==
    \/ \E c \in Client :
          \/ \E f \in Fp : StackedFetchKey(c, f) \/ StackedFetchKeyFp(c, f)
          \/ \E i \in Id : StackedFetchKeyId(c, i)
          \/ \E w \in Word : StackedFetchKeyText(c, w)
          \/ \E h \in Hash : StackedFetchKeySksHash(c, h)
          \/ \E k \in Key : StoreOnFallback(c, k)
          \/ ClientEnds(c)
    \/ /\ \/ \E k \in Key, updateonly \in BOOLEAN : UpdateKey(k, updateonly)
          \/ \E f \in Fp : Delete(f)
       /\ \A w \in Word, f \in Fp : db'.worddb[w][f] <= MaxRows
       /\ UNCHANGED pending

StackedSpec == StackedInit /\ [][StackedNext]_stackedVars

-----------------------------------------------------------------------------
(* Properties *)

\* However fallback stores, which db4_store_key takes for new keys, interleave
\* with updates and deletes, a key in the first backend is found by all of its
\* words, its ids and its hash.
StoredIsFound == Covered(db)
=============================================================================
