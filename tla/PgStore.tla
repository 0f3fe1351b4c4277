------------------------------- MODULE PgStore -------------------------------
(***************************************************************************)
(* The PostgreSQL backend (keydb/keydb_pg.c) with several connections.     *)
(*                                                                         *)
(* A key is a row of onak_keys that names a large object with its packets, *)
(* and rows of onak_uids and onak_sigs.  An update deletes all of them and *)
(* inserts new ones, in one transaction.                                   *)
(*                                                                         *)
(* The server is external.  Its transactions are READ COMMITTED: each      *)
(* statement sees what is committed when it starts and waits for rows and  *)
(* large objects that another transaction has changed.  A statement that   *)
(* fails aborts its transaction: the later ones fail too and COMMIT rolls  *)
(* back.  The code logs such errors and goes on.                           *)
(***************************************************************************)
EXTENDS KeyData

CONSTANTS
    Conn,           \* connections
    Oid,            \* identifiers of large objects
    NoOid,
    Submitted,      \* bound: the keys that are submitted
    MaxOps,         \* bound: operations
    MaxFaults       \* bound: statements that fail, connections lost

ASSUME PgAssumption == NoOid \notin Oid /\ Submitted \subseteq Key

VARIABLES
    rows,       \* onak_keys: per keyid the large object, or NoOid
    los,        \* the large objects: per object its key, or NoKey
    used,       \* the object identifiers the server has given out
    uids, sigs, \* onak_uids, onak_sigs: <<keyid, object they were read from>>
    tx,         \* per connection: its transaction
    expect,     \* history: what each key should be
    overlap,    \* history: keys that two transactions worked on at a time
    deleted,    \* history: keys that were ever deleted
    ops, faults

vars == <<rows, los, used, uids, sigs, tx, expect, overlap, deleted, ops, faults>>
tables == <<rows, los, used, uids, sigs>>
history == <<expect, overlap, deleted>>
counts == <<ops, faults>>

\* A transaction: where it is, the keyid, the submitted key and the one to
\* store, what SELECT returned, the objects and rows it deleted, the object it
\* created.
Idle == [at |-> "idle", fp |-> NoFp, sub |-> NoKey, key |-> NoKey, sel |-> NoOid,
         unlinked |-> {}, delsigs |-> {}, deluids |-> {}, delkeys |-> {},
         new |-> NoOid]

Init == /\ rows = [f \in Fp |-> NoOid]
        /\ los = [o \in Oid |-> NoKey]
        /\ used = {}
        /\ uids = {}
        /\ sigs = {}
        /\ tx = [c \in Conn |-> Idle]
        /\ expect = [f \in Fp |-> NoKey]
        /\ overlap = {}
        /\ deleted = {}
        /\ ops = 0
        /\ faults = 0

Goes(c, t) == tx' = [tx EXCEPT ![c] = t]
Others(c) == {d \in Conn \ {c} : tx[d].at # "idle"}

\* A transaction for keyid f.
Begin(c, f, t) ==
    /\ tx[c].at = "idle"
    /\ ops < MaxOps
    /\ ops' = ops + 1
    /\ Goes(c, t)
    /\ overlap' = IF \E d \in Others(c) : tx[d].fp = f THEN overlap \cup {f} ELSE overlap
    /\ UNCHANGED <<tables, expect, deleted, faults>>

\* Once a statement has failed the rest of the transaction has no effect.
Aborts(c) == Goes(c, [Idle EXCEPT !.at = "aborted", !.fp = tx[c].fp])

-----------------------------------------------------------------------------
(* update_keys with one key *)

Submits(c, k) ==
    Begin(c, FpOf(k), [Idle EXCEPT !.at = "select", !.fp = FpOf(k), !.sub = k, !.key = k])

\* fetch_key_id: the SELECT.
Selects(c) ==
    LET o == rows[tx[c].fp] IN
    /\ tx[c].at = "select"
    /\ Goes(c, [tx[c] EXCEPT !.at = IF o = NoOid THEN "insert" ELSE "read", !.sel = o])
    /\ UNCHANGED <<tables, history, counts>>

Expected(k) == [expect EXCEPT ![FpOf(k)] = IF @ = NoKey THEN k ELSE Merge(@, k)]

\* Mutant of Reads: what was stored is not merged.
ReadsOnly(c) ==
    LET old == los[tx[c].sel]
        k == tx[c].sub IN
    /\ tx[c].at = "read"
    /\ Goes(c, [tx[c] EXCEPT !.at = IF old = NoKey THEN "aborted" ELSE "find", !.sel = NoOid])
    /\ UNCHANGED <<tables, history, counts>>

\* Mutant of Reads: no endtrans when nothing changes.
ReadsLeavesOpen(c) ==
    LET old == los[tx[c].sel]
        k == tx[c].sub IN
    /\ tx[c].at = "read"
    /\ old # NoKey
    /\ IF Changes(old, k)
       THEN Goes(c, [tx[c] EXCEPT !.at = "find", !.key = Merge(old, k), !.sel = NoOid])
       ELSE Goes(c, [tx[c] EXCEPT !.at = "open"])
    /\ UNCHANGED <<tables, history, counts>>

\* fetch_key_id: lo_open and read; then merge_keys.  An object that is gone is
\* an error.  When the merge leaves nothing over there is nothing to store.
Reads(c) ==
    LET old == los[tx[c].sel]
        k == tx[c].sub IN
    /\ tx[c].at = "read"
    /\ \/ /\ old = NoKey
          /\ Aborts(c)
          /\ UNCHANGED expect
       \/ /\ old # NoKey
          /\ Changes(old, k)
          /\ Goes(c, [tx[c] EXCEPT !.at = "find", !.key = Merge(old, k), !.sel = NoOid])
          /\ UNCHANGED expect
       \/ /\ old # NoKey
          /\ ~Changes(old, k)
          /\ Goes(c, Idle)
          /\ expect' = Expected(k)
    /\ UNCHANGED <<tables, overlap, deleted, counts>>

\* lo_creat: the server counts the identifiers (its counter is taken not to wrap
\* around), so that one it has given out does not come again.
LoCreat == CHOOSE o \in Oid : o \notin used

\* store_key after the deletion: the large object, the row of onak_keys, and the
\* rows of onak_uids and onak_sigs.  keyid is the primary key of onak_keys:
\* INSERT waits for a transaction that inserted or deleted a row with this keyid
\* and fails when there is one.
Inserts(c) ==
    LET f == tx[c].fp IN
    /\ tx[c].at = "insert"
    /\ Oid \ used # {}
    /\ \A d \in Others(c) : tx[d].fp = f => tx[d].new = NoOid /\ tx[d].delkeys = {}
    /\ IF rows[f] \in tx[c].delkeys \cup {NoOid}
       THEN Goes(c, [tx[c] EXCEPT !.at = "commit", !.new = LoCreat])
       ELSE Aborts(c)
    /\ used' = used \cup {LoCreat}
    /\ UNCHANGED <<rows, los, uids, sigs, history, counts>>

-----------------------------------------------------------------------------
(* delete_key, as an operation and within store_key *)

Deletes(c, f) == Begin(c, f, [Idle EXCEPT !.at = "find", !.fp = f])

Finds(c) ==
    /\ tx[c].at = "find"
    /\ Goes(c, [tx[c] EXCEPT !.at = "unlink", !.sel = rows[tx[c].fp]])
    /\ UNCHANGED <<tables, history, counts>>

\* Mutant of Unlinks: the old object is kept.
UnlinksNothing(c) ==
    /\ tx[c].at = "unlink"
    /\ Goes(c, [tx[c] EXCEPT !.at = "delsigs"])
    /\ UNCHANGED <<tables, history, counts>>

\* Mutant of Unlinks: the object is gone at once, whatever becomes of the rest.
UnlinksAtOnce(c) ==
    LET o == tx[c].sel IN
    /\ tx[c].at = "unlink"
    /\ los' = [x \in Oid |-> IF x = o THEN NoKey ELSE los[x]]
    /\ Goes(c, [tx[c] EXCEPT !.at = "delsigs"])
    /\ UNCHANGED <<rows, used, uids, sigs, history, counts>>

\* lo_unlink of the object found: it waits for another that unlinks it, and
\* fails when it is gone.
Unlinks(c) ==
    LET o == tx[c].sel IN
    /\ tx[c].at = "unlink"
    /\ \A d \in Others(c) : o \notin tx[d].unlinked
    /\ \/ /\ o = NoOid
          /\ Goes(c, [tx[c] EXCEPT !.at = "delsigs"])
       \/ /\ o # NoOid
          /\ los[o] = NoKey
          /\ Aborts(c)
       \/ /\ o # NoOid
          /\ los[o] # NoKey
          /\ Goes(c, [tx[c] EXCEPT !.at = "delsigs", !.unlinked = {o}])
    /\ UNCHANGED <<tables, history, counts>>

RowsOf(table, f) == {r \in table : r[1] = f}

DeletesSigs(c) ==
    LET gone == RowsOf(sigs, tx[c].fp) IN
    /\ tx[c].at = "delsigs"
    /\ \A d \in Others(c) : tx[d].delsigs \cap gone = {}
    /\ Goes(c, [tx[c] EXCEPT !.at = "deluids", !.delsigs = gone])
    /\ UNCHANGED <<tables, history, counts>>

DeletesUids(c) ==
    LET gone == RowsOf(uids, tx[c].fp) IN
    /\ tx[c].at = "deluids"
    /\ \A d \in Others(c) : tx[d].deluids \cap gone = {}
    /\ Goes(c, [tx[c] EXCEPT !.at = "delkeys", !.deluids = gone])
    /\ UNCHANGED <<tables, history, counts>>

\* The row of onak_keys; an update then inserts the new rows.  Rows of onak_uids
\* and onak_sigs reference it (onak.sql): it cannot go before they do.
DeletesKeys(c) ==
    LET f == tx[c].fp
        left == (RowsOf(uids, f) \ tx[c].deluids) \cup (RowsOf(sigs, f) \ tx[c].delsigs) IN
    /\ tx[c].at = "delkeys"
    /\ \A d \in Others(c) : rows[f] \notin tx[d].delkeys
    /\ IF rows[f] # NoOid /\ left # {}
       THEN Aborts(c)
       ELSE Goes(c, [tx[c] EXCEPT !.at = IF tx[c].key = NoKey THEN "commit" ELSE "insert",
                                  !.delkeys = {rows[f]} \ {NoOid}])
    /\ UNCHANGED <<tables, history, counts>>

-----------------------------------------------------------------------------
(* The end of a transaction *)

\* COMMIT: the transaction's changes are there for all.
Commits(c) ==
    LET t == tx[c]
        f == t.fp
        own == IF t.new = NoOid THEN {} ELSE {<<f, t.new>>} IN
    /\ t.at = "commit"
    /\ rows' = [rows EXCEPT ![f] = IF t.new # NoOid THEN t.new
                                   ELSE IF @ \in t.delkeys THEN NoOid ELSE @]
    /\ los' = [o \in Oid |-> IF o = t.new THEN t.key
                             ELSE IF o \in t.unlinked THEN NoKey ELSE los[o]]
    /\ uids' = (uids \ t.deluids) \cup own
    /\ sigs' = (sigs \ t.delsigs) \cup own
    /\ expect' = IF t.new = NoOid THEN [expect EXCEPT ![f] = NoKey] ELSE Expected(t.sub)
    /\ deleted' = IF t.new = NoOid THEN deleted \cup {f} ELSE deleted
    /\ Goes(c, Idle)
    /\ UNCHANGED <<used, overlap, counts>>

\* COMMIT of a transaction that a failed statement aborted.
RollsBack(c) == /\ tx[c].at = "aborted"
                /\ Goes(c, Idle)
                /\ UNCHANGED <<tables, history, counts>>

\* A statement fails for a reason of its own (a user id that is no valid text,
\* a full disk), or the connection or its client is gone.
Fails(c) ==
    /\ tx[c].at \notin {"idle", "aborted"}
    /\ faults < MaxFaults
    /\ faults' = faults + 1
    /\ Aborts(c)
    /\ UNCHANGED <<tables, history, ops>>

Next == \E c \in Conn :
          \/ \E k \in Submitted : Submits(c, k)
          \/ \E f \in {FpOf(k) : k \in Submitted} : Deletes(c, f)
          \/ Selects(c) \/ Reads(c) \/ Inserts(c)
          \/ Finds(c) \/ Unlinks(c) \/ DeletesSigs(c) \/ DeletesUids(c) \/ DeletesKeys(c)
          \/ Commits(c) \/ RollsBack(c) \/ Fails(c)

Step(c) == Selects(c) \/ Reads(c) \/ Inserts(c) \/ Finds(c) \/ Unlinks(c) \/ DeletesSigs(c)
           \/ DeletesUids(c) \/ DeletesKeys(c) \/ Commits(c) \/ RollsBack(c)

\* The server and its clients go on with what they began.
Spec == Init /\ [][Next]_vars /\ \A c \in Conn : WF_vars(Step(c))

-----------------------------------------------------------------------------
Contents(f) == IF rows[f] = NoOid THEN NoKey ELSE los[rows[f]]

\* A row of onak_keys never names a large object that is gone or holds another
\* key, although every update unlinks the object and creates one, and two
\* updates may do so at a time.
NoDangling ==
    \A f \in Fp : rows[f] # NoOid => los[rows[f]] # NoKey /\ FpOf(los[rows[f]]) = f

\* A key that no two transactions worked on at a time is the merge of all that
\* was committed since it was deleted last; a transaction that failed or was
\* cut off at any statement has left no trace.
NothingLost == \A f \in Fp \ overlap : Contents(f) = expect[f]

\* The rows of a key in onak_uids and onak_sigs are those of its contents, also
\* when several update and delete it at a time.  As long as it was never
\* deleted, no large object is left without a row.
TablesAgree ==
    \A f \in Fp :
        /\ \A table \in {uids, sigs} :
              RowsOf(table, f) = IF rows[f] = NoOid THEN {} ELSE {<<f, rows[f]>>}
        /\ f \notin deleted => \A o \in Oid : los[o] # NoKey /\ FpOf(los[o]) = f => o = rows[f]

\* Updates of one key wait for each other, but not for ever.
AllEnd == \A c \in Conn : (tx[c].at # "idle") ~> (tx[c].at = "idle")
=============================================================================
