---------------------------- MODULE KeydUpdate ----------------------------
(***************************************************************************)
(* generic_update_keys run by clients of keyd (keydb/keydb_keyd.c) against *)
(* the daemon (keydb/keyd.c) and its Berkeley DB backend.  starttrans and  *)
(* endtrans do nothing over the socket, so the fetch and the store of one  *)
(* update are two commands, and the daemon serves other clients between    *)
(* them.  Storing does not wait for the outcome either: the client is done *)
(* once the command is in the socket.                                      *)
(*                                                                         *)
(* The daemon handles one command at a time, each in its own transaction.  *)
(***************************************************************************)
EXTENDS Db4Tables

CONSTANTS Client,
          MaxRows      \* bound: rows a word may have for one fingerprint

ASSUME MaxRowsAssumption == MaxRows \in Nat

VARIABLES
    db,         \* keyd's database
    client      \* per client: where it is, the submitted key, the fetched one

vars == <<db, client>>

Idle == [pc |-> "idle", key |-> NoKey, old |-> NoKey]

Init == /\ db = EmptyDb
        /\ client = [c \in Client |-> Idle]

\* KEYD_CMD_GET_FP.  A blacklisted key does not get this far.
ClientFetches(c, k) ==
    /\ client[c].pc = "idle"
    /\ client' = [client EXCEPT
           ![c] = [pc |-> "fetched", key |-> k, old |-> FetchKeyFp(db, FpOf(k))]]
    /\ UNCHANGED db

\* Mutant of Payload: the fetched key is not merged in.
PayloadUnmerged(r) == r.key

\* What the client asks keyd to store, from what it fetched earlier.  A key
\* that merge_keys refuses leaves the fetched one as it was.
Payload(r) == IF r.old = NoKey THEN r.key
              ELSE IF FpOf(r.old) = FpOf(r.key) THEN Merge(r.old, r.key)
              ELSE r.old

AddsNothing(r) ==
    r.old # NoKey /\ FpOf(r.old) = FpOf(r.key) /\ ~Changes(r.old, r.key)

\* KEYD_CMD_STORE or KEYD_CMD_UPDATE written to the socket.
ClientSends(c) ==
    /\ client[c].pc = "fetched"
    /\ ~AddsNothing(client[c])
    /\ client' = [client EXCEPT ![c].pc = "sent"]
    /\ UNCHANGED db

\* Nothing to add, a new key with updateonly set, or the client ends early.
ClientStops(c) ==
    /\ client[c].pc = "fetched"
    /\ client' = [client EXCEPT ![c] = Idle]
    /\ UNCHANGED db

\* sock_do gets round to the command.  A client's next command is answered
\* after this one, so the client stays out of "idle" until then.
KeydStores(c) ==
    LET r == client[c]
        stored == StoreKey(db, Payload(r), r.old # NoKey)
    IN /\ r.pc = "sent"
       /\ \A w \in Word : stored.worddb[w][FpOf(Payload(r))] <= MaxRows
       /\ db' = stored
       /\ client' = [client EXCEPT ![c] = Idle]

\* KEYD_CMD_DELETE, from any client.
KeydDeletes(f) == /\ db' = DeleteKey(db, f)
                  /\ UNCHANGED client

\* keyd ends with commands unread; its clients fail or start again.
KeydRestarts ==
    /\ client' = [c \in Client |-> Idle]
    /\ UNCHANGED db

Next == \/ \E c \in Client : \/ \E k \in Key : ClientFetches(c, k)
                             \/ ClientSends(c)
                             \/ ClientStops(c)
                             \/ KeydStores(c)
        \/ \E f \in Fp : KeydDeletes(f)
        \/ KeydRestarts

Spec == Init /\ [][Next]_vars

-----------------------------------------------------------------------------
(* Properties *)

Clients == [pc  : {"idle", "fetched", "sent"},
            key : Key \cup {NoKey},
            old : Key \cup {NoKey}]

\* The shape of the state; a client at work has a key in hand.
TypeOK == /\ db \in Tables
          /\ client \in [Client -> Clients]
          /\ \A c \in Client : client[c].pc # "idle" => client[c].key \in Key

\* However stores by different clients interleave, a key in the database is
\* found by all of its words, its ids and its hash: db4_store_key and
\* db4_delete_key may repeat rows or leave stale ones, but never lose one
\* that the stored key needs.
StoredIsFound == Covered(db)

\* The key that client c is about to replace is no longer the one it fetched.
Stale(c) == client[c].old # FetchKeyFp(db, FpOf(client[c].key))

KS == INSTANCE KeyStore WITH keys <- db.keydb

\* keydb.c says update_keys adds keys to the database, "merging them with the
\* key in the database if it's already present there".  Without transactions
\* that is only so while nobody else has changed the key since the client
\* fetched it: every step of keyd but a store from a stale fetch is a step of
\* the abstract store.
FreshImplements ==
    [][\/ [KS!Next]_(db.keydb)
       \/ \E c \in Client : KeydStores(c) /\ Stale(c)]_vars
=============================================================================
