---------------------------- MODULE PgStoreProofs ----------------------------
(***************************************************************************)
(* Whatever several connections to the PostgreSQL store do at a time, a    *)
(* row never names a large object that is gone or holds another key, the   *)
(* tables agree, and a key that only one worked on at a time is what was   *)
(* committed to it.                                                        *)
(*                                                                         *)
(* The argument: what a transaction has unlinked, deleted or created is    *)
(* still as it found it when it commits, because the other transactions    *)
(* wait at these rows and objects.                                         *)
(***************************************************************************)
EXTENDS PgStore, TLAPS

Txs == [at : {"idle", "select", "read", "find", "unlink", "delsigs", "deluids", "delkeys",
              "insert", "commit", "aborted"},
        fp : Fp \cup {NoFp}, sub : Key \cup {NoKey}, key : Key \cup {NoKey},
        sel : Oid \cup {NoOid}, unlinked : SUBSET Oid,
        delsigs : SUBSET (Fp \X Oid), deluids : SUBSET (Fp \X Oid),
        delkeys : SUBSET Oid, new : Oid \cup {NoOid}]

\* What holds of one transaction t when s are the identifiers in use.
Own(t, s) ==
    /\ t.at # "idle" => t.fp \in Fp
    /\ t.key # NoKey => FpOf(t.key) = t.fp
    /\ t.at \in {"select", "read"} => t.sub \in Key /\ FpOf(t.sub) = t.fp
    /\ t.at \in {"select", "insert"} => t.key # NoKey
    /\ t.at \in {"idle", "select", "read", "find", "unlink", "aborted"} =>
           t.unlinked = {} /\ t.delkeys = {}
    /\ t.at = "read" => t.sel # NoOid
    /\ t.sel # NoOid => t.sel \in s /\ (los[t.sel] # NoKey => FpOf(los[t.sel]) = t.fp)
    /\ t.new # NoOid => /\ t.at = "commit" /\ t.key # NoKey
                        /\ t.new \in s /\ los[t.new] = NoKey
                        /\ rows[t.fp] \in t.delkeys \cup {NoOid}
    /\ \A o \in t.unlinked : los[o] # NoKey /\ FpOf(los[o]) = t.fp
    /\ t.delkeys # {} => t.delkeys = {rows[t.fp]}
    /\ t.at \in {"insert", "commit"} => rows[t.fp] \notin t.unlinked \/ rows[t.fp] \in t.delkeys

\* What two transactions have nothing of in common.
Apart(t, u) ==
    /\ t.new # NoOid => t.new # u.new /\ t.new # u.sel
    /\ t.unlinked \cap u.unlinked = {}
    /\ t.fp = u.fp /\ (t.new # NoOid \/ t.delkeys # {}) => u.new = NoOid /\ u.delkeys = {}

Types == /\ rows \in [Fp -> Oid \cup {NoOid}]
         /\ los \in [Oid -> Key \cup {NoKey}]
         /\ used \subseteq Oid
         /\ uids \subseteq Fp \X Oid
         /\ sigs \subseteq Fp \X Oid
         /\ tx \in [Conn -> Txs]

PgInv == /\ Types
         /\ \A o \in Oid : los[o] # NoKey => o \in used
         /\ \A c \in Conn : Own(tx[c], used)
         /\ \A c, d \in Conn : c # d => Apart(tx[c], tx[d])
         /\ NoDangling

\* A connection without a transaction.
LEMMA IdleType == /\ Idle \in Txs
                  /\ Idle.at = "idle" /\ Idle.key = NoKey /\ Idle.sel = NoOid
                  /\ Idle.unlinked = {} /\ Idle.delkeys = {} /\ Idle.new = NoOid
BY DEF Idle, Txs

\* A step of one transaction that others do not see.
LEMMA LocalStep ==
    ASSUME PgInv, NEW c \in Conn, NEW t \in Txs,
           tx' = [tx EXCEPT ![c] = t],
           UNCHANGED <<rows, los, uids, sigs>>,
           used \subseteq used', used' \subseteq Oid,
           Own(t, used'),
           \A d \in Conn \ {c} : Apart(t, tx[d]) /\ Apart(tx[d], t)
    PROVE  PgInv'
<1>1. Types'
  BY DEF PgInv, Types
<1>2. \A d \in Conn : tx'[d] = IF d = c THEN t ELSE tx[d]
  BY ZenonT(20) DEF PgInv, Types
<1>3. ASSUME NEW d \in Conn PROVE Own(tx[d], used)'
  BY <1>2 DEF PgInv, Own
<1>4. ASSUME NEW d \in Conn, NEW e \in Conn, d # e PROVE Apart(tx[d], tx[e])'
  BY <1>2, <1>4 DEF PgInv, Apart
<1>5. NoDangling'
  BY DEF PgInv, NoDangling
<1>6. \A o \in Oid : los'[o] # NoKey => o \in used'
  BY DEF PgInv
<1>. QED BY <1>1, <1>3, <1>4, <1>5, <1>6 DEF PgInv

\* A transaction that has nothing of its own is apart from all others.
LEMMA BareApart ==
    ASSUME NEW t, NEW u, t.new = NoOid, t.unlinked = {}, t.delkeys = {},
           u.new # NoOid => u.new # t.sel
    PROVE  Apart(t, u) /\ Apart(u, t)
BY DEF Apart

-----------------------------------------------------------------------------
(* The steps *)

\* The end of a transaction that changed nothing, and an aborted one.
LEMMA EndsBare ==
    ASSUME PgInv, NEW c \in Conn, NEW t \in Txs, tx' = [tx EXCEPT ![c] = t],
           UNCHANGED <<rows, los, uids, sigs>>, used \subseteq used', used' \subseteq Oid,
           t.at # "idle" => t.fp \in Fp, t.at \in {"idle", "aborted"},
           t.key = NoKey, t.sel = NoOid, t.unlinked = {}, t.delkeys = {}, t.new = NoOid
    PROVE  PgInv'
<1>1. Own(t, used')
  BY DEF Own
<1>2. \A d \in Conn \ {c} : tx[d].new # NoOid => tx[d].new # t.sel
  OBVIOUS
<1>3. \A d \in Conn \ {c} : Apart(t, tx[d]) /\ Apart(tx[d], t)
  BY <1>2, BareApart
<1>. QED BY ZenonT(20), <1>1, <1>3, LocalStep

\* A statement that fails.
LEMMA AbortsStep ==
    ASSUME PgInv, NEW c \in Conn, tx[c].at # "idle", Aborts(c),
           UNCHANGED <<rows, los, uids, sigs>>, used \subseteq used', used' \subseteq Oid
    PROVE  PgInv'
<1>. DEFINE t == [Idle EXCEPT !.at = "aborted", !.fp = tx[c].fp]
<1>1. tx[c].fp \in Fp
  BY DEF PgInv, Own
<1>2. /\ t \in Txs /\ t.at = "aborted" /\ t.fp = tx[c].fp /\ t.key = NoKey /\ t.sel = NoOid
      /\ t.unlinked = {} /\ t.delkeys = {} /\ t.new = NoOid
  BY ZenonT(20), <1>1 DEF Idle, Txs
<1>3. tx' = [tx EXCEPT ![c] = t]
  BY DEF Aborts, Goes
<1>. HIDE DEF t
<1>. QED BY ZenonT(20), <1>1, <1>2, <1>3, EndsBare

\* A rollback, or a transaction that ends without a change.
LEMMA IdleStep ==
    ASSUME PgInv, NEW c \in Conn, Goes(c, Idle), UNCHANGED tables
    PROVE  PgInv'
BY ZenonT(20), IdleType, EndsBare DEF Goes, tables, PgInv, Types

\* BEGIN of an update.
LEMMA SubmitsStep ==
    ASSUME PgInv, NEW c \in Conn, NEW k \in Key, Submits(c, k)
    PROVE  PgInv'
<1>. DEFINE t == [Idle EXCEPT !.at = "select", !.fp = FpOf(k), !.sub = k, !.key = k]
<1>1. FpOf(k) \in Fp /\ k # NoKey
  BY KeyAssumption, NothingAssumption
<1>2. /\ t \in Txs /\ t.at = "select" /\ t.fp = FpOf(k) /\ t.sub = k /\ t.key = k
      /\ t.sel = NoOid /\ t.unlinked = {} /\ t.delkeys = {} /\ t.new = NoOid
  BY ZenonT(20), <1>1 DEF Idle, Txs
<1>3. tx' = [tx EXCEPT ![c] = t] /\ UNCHANGED tables
  BY DEF Submits, Begin, Goes
<1>. HIDE DEF t
<1>4. Own(t, used')
  BY <1>1, <1>2 DEF Own
<1>5. \A d \in Conn \ {c} : Apart(t, tx[d]) /\ Apart(tx[d], t)
  BY <1>2, BareApart
<1>. QED BY ZenonT(20), <1>2, <1>3, <1>4, <1>5, LocalStep DEF tables, PgInv, Types

\* BEGIN of a delete.
LEMMA DeletesStep ==
    ASSUME PgInv, NEW c \in Conn, NEW f \in Fp, Deletes(c, f)
    PROVE  PgInv'
<1>. DEFINE t == [Idle EXCEPT !.at = "find", !.fp = f]
<1>1. /\ t \in Txs /\ t.at = "find" /\ t.fp = f /\ t.key = NoKey
      /\ t.sel = NoOid /\ t.unlinked = {} /\ t.delkeys = {} /\ t.new = NoOid
  BY ZenonT(20) DEF Idle, Txs
<1>2. tx' = [tx EXCEPT ![c] = t] /\ UNCHANGED tables
  BY DEF Deletes, Begin, Goes
<1>. HIDE DEF t
<1>3. Own(t, used')
  BY <1>1 DEF Own
<1>4. \A d \in Conn \ {c} : Apart(t, tx[d]) /\ Apart(tx[d], t)
  BY <1>1, BareApart
<1>. QED BY ZenonT(20), <1>1, <1>2, <1>3, <1>4, LocalStep DEF tables, PgInv, Types

\* The object a row names is in use, holds the row's key and is nobody's new one.
LEMMA RowInUse ==
    ASSUME PgInv, NEW f \in Fp, rows[f] # NoOid
    PROVE  /\ rows[f] \in used /\ los[rows[f]] # NoKey /\ FpOf(los[rows[f]]) = f
           /\ \A d \in Conn : tx[d].new # NoOid => tx[d].new # rows[f]
BY DEF PgInv, Types, NoDangling, Own

\* The SELECT of fetch_key_id.
LEMMA SelectsStep ==
    ASSUME PgInv, NEW c \in Conn, Selects(c)
    PROVE  PgInv'
<1>. DEFINE o == rows[tx[c].fp]
            t == [tx[c] EXCEPT !.at = IF o = NoOid THEN "insert" ELSE "read", !.sel = o]
<1>1. /\ tx[c] \in Txs /\ Own(tx[c], used) /\ tx[c].at = "select" /\ tx[c].fp \in Fp
      /\ o \in Oid \cup {NoOid}
  BY DEF PgInv, Types, Own, Selects
<1>2. /\ t \in Txs /\ t.at = (IF o = NoOid THEN "insert" ELSE "read") /\ t.sel = o
      /\ t.fp = tx[c].fp /\ t.sub = tx[c].sub /\ t.key = tx[c].key
      /\ t.unlinked = tx[c].unlinked /\ t.delkeys = tx[c].delkeys /\ t.new = tx[c].new
  BY <1>1, ZenonT(60) DEF Txs
<1>3. tx' = [tx EXCEPT ![c] = t] /\ UNCHANGED tables
  BY DEF Selects, Goes
<1>. HIDE DEF t
<1>4. tx[c].unlinked = {} /\ tx[c].delkeys = {} /\ tx[c].new = NoOid
  BY <1>1 DEF Own
<1>5. o # NoOid => /\ o \in used /\ FpOf(los[o]) = tx[c].fp
                   /\ \A d \in Conn : tx[d].new # NoOid => tx[d].new # o
  BY <1>1, RowInUse
<1>6. Own(t, used')
  BY <1>1, <1>2, <1>3, <1>4, <1>5 DEF Own, tables
<1>7. \A d \in Conn \ {c} : Apart(t, tx[d]) /\ Apart(tx[d], t)
  BY <1>2, <1>4, <1>5, BareApart
<1>. QED BY ZenonT(20), <1>2, <1>3, <1>6, <1>7, LocalStep DEF tables, PgInv, Types

\* The large object is read and merged.
LEMMA ReadsStep ==
    ASSUME PgInv, NEW c \in Conn, Reads(c)
    PROVE  PgInv'
<1>. DEFINE old == los[tx[c].sel]
            k == tx[c].sub
            t == [tx[c] EXCEPT !.at = "find", !.key = Merge(old, k), !.sel = NoOid]
<1>1. /\ tx[c] \in Txs /\ Own(tx[c], used) /\ tx[c].at = "read"
      /\ UNCHANGED tables /\ used \subseteq Oid
  BY DEF PgInv, Types, Reads
<1>2. CASE Aborts(c)
  BY <1>1, <1>2, AbortsStep DEF tables
<1>3. CASE Goes(c, Idle)
  BY <1>1, <1>3, IdleStep
<1>4. CASE old # NoKey /\ Goes(c, t)
  <2>1. tx[c].sel \in Oid /\ k \in Key /\ FpOf(k) = tx[c].fp
    BY <1>1 DEF Own, Txs
  <2>2. old \in Key /\ FpOf(old) = tx[c].fp
    BY <1>1, <1>4, <2>1, PgAssumption DEF PgInv, Types, Own
  <2>3. Merge(old, k) \in Key /\ FpOf(Merge(old, k)) = tx[c].fp
    BY <2>1, <2>2, MergeAssumption
  <2>4. /\ t \in Txs /\ t.at = "find" /\ t.sel = NoOid /\ FpOf(t.key) = t.fp
        /\ t.fp = tx[c].fp /\ t.unlinked = tx[c].unlinked /\ t.delkeys = tx[c].delkeys
        /\ t.new = tx[c].new
    BY ZenonT(20), <1>1, <2>3 DEF Txs
  <2>5. tx' = [tx EXCEPT ![c] = t]
    BY <1>4 DEF Goes
  <2>. HIDE DEF t
  <2>6. tx[c].unlinked = {} /\ tx[c].delkeys = {} /\ tx[c].new = NoOid /\ tx[c].fp \in Fp
    BY <1>1 DEF Own
  <2>7. Own(t, used')
    BY <1>1, <2>4, <2>6 DEF Own, tables
  <2>8. \A d \in Conn \ {c} : Apart(t, tx[d]) /\ Apart(tx[d], t)
    BY <2>4, <2>6, BareApart
  <2>. QED BY ZenonT(20), <1>1, <2>4, <2>5, <2>7, <2>8, LocalStep DEF tables
<1>. QED BY <1>2, <1>3, <1>4 DEF Reads

\* The SELECT of delete_key.
LEMMA FindsStep ==
    ASSUME PgInv, NEW c \in Conn, Finds(c)
    PROVE  PgInv'
<1>. DEFINE o == rows[tx[c].fp]
            t == [tx[c] EXCEPT !.at = "unlink", !.sel = o]
<1>1. /\ tx[c] \in Txs /\ Own(tx[c], used) /\ tx[c].at = "find" /\ tx[c].fp \in Fp
      /\ o \in Oid \cup {NoOid}
  BY DEF PgInv, Types, Own, Finds
<1>2. /\ t \in Txs /\ t.at = "unlink" /\ t.sel = o
      /\ t.fp = tx[c].fp /\ t.key = tx[c].key
      /\ t.unlinked = tx[c].unlinked /\ t.delkeys = tx[c].delkeys /\ t.new = tx[c].new
  BY ZenonT(20), <1>1 DEF Txs
<1>3. tx' = [tx EXCEPT ![c] = t] /\ UNCHANGED tables
  BY DEF Finds, Goes
<1>. HIDE DEF t
<1>4. tx[c].unlinked = {} /\ tx[c].delkeys = {} /\ tx[c].new = NoOid
  BY <1>1 DEF Own
<1>5. o # NoOid => /\ o \in used /\ FpOf(los[o]) = tx[c].fp
                   /\ \A d \in Conn : tx[d].new # NoOid => tx[d].new # o
  BY <1>1, RowInUse
<1>6. Own(t, used')
  BY <1>1, <1>2, <1>3, <1>4, <1>5 DEF Own, tables
<1>7. \A d \in Conn \ {c} : Apart(t, tx[d]) /\ Apart(tx[d], t)
  BY <1>2, <1>4, <1>5, BareApart
<1>. QED BY ZenonT(20), <1>2, <1>3, <1>6, <1>7, LocalStep DEF tables, PgInv, Types

\* lo_unlink of the objects found.
LEMMA UnlinksStep ==
    ASSUME PgInv, NEW c \in Conn, Unlinks(c)
    PROVE  PgInv'
<1>. DEFINE o == tx[c].sel
            t == [tx[c] EXCEPT !.at = "delsigs"]
            u == [tx[c] EXCEPT !.at = "delsigs", !.unlinked = {o}]
<1>1. /\ tx[c] \in Txs /\ Own(tx[c], used) /\ tx[c].at = "unlink"
      /\ UNCHANGED tables /\ used \subseteq Oid
  BY DEF PgInv, Types, Unlinks
<1>2. /\ tx[c].unlinked = {} /\ tx[c].delkeys = {} /\ tx[c].new = NoOid /\ tx[c].fp \in Fp
      /\ o \in Oid \cup {NoOid}
  BY <1>1 DEF Own, Txs
<1>3. \A d \in Conn \ {c} : tx[d].new # NoOid => tx[d].new # o
  BY DEF PgInv, Apart
<1>4. CASE Aborts(c)
  BY <1>1, <1>4, AbortsStep DEF tables
<1>5. CASE Goes(c, t)
  <2>1. /\ t \in Txs /\ t.at = "delsigs" /\ t.sel = o /\ t.fp = tx[c].fp /\ t.key = tx[c].key
        /\ t.unlinked = {} /\ t.delkeys = {} /\ t.new = NoOid
    BY <1>1, <1>2 DEF Txs
  <2>2. tx' = [tx EXCEPT ![c] = t]
    BY ZenonT(20), <1>5 DEF Goes
  <2>. HIDE DEF t
  <2>3. Own(t, used')
    BY <1>1, <1>2, <2>1 DEF Own, tables
  <2>4. \A d \in Conn \ {c} : Apart(t, tx[d]) /\ Apart(tx[d], t)
    BY <1>3, <2>1, BareApart
  <2>. QED BY ZenonT(20), <1>1, <2>1, <2>2, <2>3, <2>4, LocalStep DEF tables
<1>6. CASE o # NoOid /\ los[o] # NoKey /\ Goes(c, u)
  <2>1. /\ u \in Txs /\ u.at = "delsigs" /\ u.sel = o /\ u.fp = tx[c].fp /\ u.key = tx[c].key
        /\ u.unlinked = {o} /\ u.delkeys = {} /\ u.new = NoOid
    BY ZenonT(20), <1>1, <1>2, <1>6 DEF Txs
  <2>2. tx' = [tx EXCEPT ![c] = u]
    BY <1>6 DEF Goes
  <2>. HIDE DEF u
  <2>3. Own(u, used')
    BY <1>1, <1>2, <1>6, <2>1 DEF Own, tables
  <2>4. \A d \in Conn \ {c} : o \notin tx[d].unlinked
    BY DEF Unlinks, Others, PgInv, Own
  <2>5. \A d \in Conn \ {c} : Apart(u, tx[d]) /\ Apart(tx[d], u)
    BY <1>3, <2>1, <2>4 DEF Apart
  <2>. QED BY ZenonT(20), <1>1, <2>1, <2>2, <2>3, <2>5, LocalStep DEF tables
<1>. QED BY <1>4, <1>5, <1>6 DEF Unlinks

\* DELETE FROM onak_sigs.
LEMMA DeletesSigsStep ==
    ASSUME PgInv, NEW c \in Conn, DeletesSigs(c)
    PROVE  PgInv'
<1>. DEFINE t == [tx[c] EXCEPT !.at = "deluids", !.delsigs = RowsOf(sigs, tx[c].fp)]
<1>1. /\ tx[c] \in Txs /\ Own(tx[c], used) /\ tx[c].at = "delsigs"
      /\ RowsOf(sigs, tx[c].fp) \subseteq Fp \X Oid
  BY DEF PgInv, Types, DeletesSigs, RowsOf
<1>2. /\ t \in Txs /\ t.at = "deluids" /\ t.sel = tx[c].sel
      /\ t.fp = tx[c].fp /\ t.key = tx[c].key
      /\ t.unlinked = tx[c].unlinked /\ t.delkeys = tx[c].delkeys /\ t.new = tx[c].new
  BY ZenonT(20), <1>1 DEF Txs
<1>3. tx' = [tx EXCEPT ![c] = t] /\ UNCHANGED tables
  BY DEF DeletesSigs, Goes
<1>. HIDE DEF t
<1>4. Own(t, used')
  BY <1>1, <1>2, <1>3 DEF Own, tables
<1>5. ASSUME NEW d \in Conn \ {c} PROVE Apart(t, tx[d]) /\ Apart(tx[d], t)
  <2>1. Apart(tx[c], tx[d]) /\ Apart(tx[d], tx[c])
    BY DEF PgInv
  <2>. QED BY <1>2, <2>1 DEF Apart
<1>. QED BY ZenonT(20), <1>2, <1>3, <1>4, <1>5, LocalStep DEF tables, PgInv, Types

\* DELETE FROM onak_uids.
LEMMA DeletesUidsStep ==
    ASSUME PgInv, NEW c \in Conn, DeletesUids(c)
    PROVE  PgInv'
<1>. DEFINE t == [tx[c] EXCEPT !.at = "delkeys", !.deluids = RowsOf(uids, tx[c].fp)]
<1>1. /\ tx[c] \in Txs /\ Own(tx[c], used) /\ tx[c].at = "deluids"
      /\ RowsOf(uids, tx[c].fp) \subseteq Fp \X Oid
  BY DEF PgInv, Types, DeletesUids, RowsOf
<1>2. /\ t \in Txs /\ t.at = "delkeys" /\ t.sel = tx[c].sel
      /\ t.fp = tx[c].fp /\ t.key = tx[c].key
      /\ t.unlinked = tx[c].unlinked /\ t.delkeys = tx[c].delkeys /\ t.new = tx[c].new
  BY ZenonT(20), <1>1 DEF Txs
<1>3. tx' = [tx EXCEPT ![c] = t] /\ UNCHANGED tables
  BY DEF DeletesUids, Goes
<1>. HIDE DEF t
<1>4. Own(t, used')
  BY <1>1, <1>2, <1>3 DEF Own, tables
<1>5. ASSUME NEW d \in Conn \ {c} PROVE Apart(t, tx[d]) /\ Apart(tx[d], t)
  <2>1. Apart(tx[c], tx[d]) /\ Apart(tx[d], tx[c])
    BY DEF PgInv
  <2>. QED BY <1>2, <2>1 DEF Apart
<1>. QED BY ZenonT(20), <1>2, <1>3, <1>4, <1>5, LocalStep DEF tables, PgInv, Types

\* DELETE FROM onak_keys.
LEMMA DeletesKeysStep ==
    ASSUME PgInv, NEW c \in Conn, DeletesKeys(c)
    PROVE  PgInv'
<1>. DEFINE r == rows[tx[c].fp]
            t == [tx[c] EXCEPT !.at = IF tx[c].key = NoKey THEN "commit" ELSE "insert",
                               !.delkeys = {r} \ {NoOid}]
<1>1. /\ tx[c] \in Txs /\ Own(tx[c], used) /\ tx[c].at = "delkeys" /\ tx[c].fp \in Fp
      /\ r \in Oid \cup {NoOid} /\ UNCHANGED tables /\ used \subseteq Oid
  BY DEF PgInv, Types, Own, DeletesKeys
<1>2. CASE Aborts(c)
  BY <1>1, <1>2, AbortsStep DEF tables
<1>3. CASE Goes(c, t)
  <2>1. /\ t \in Txs /\ t.at = (IF tx[c].key = NoKey THEN "commit" ELSE "insert")
        /\ t.sel = tx[c].sel /\ t.fp = tx[c].fp /\ t.key = tx[c].key
        /\ t.unlinked = tx[c].unlinked /\ t.delkeys = {r} \ {NoOid} /\ t.new = tx[c].new
    BY <1>1, ZenonT(60) DEF Txs
  <2>2. tx' = [tx EXCEPT ![c] = t]
    BY <1>3 DEF Goes
  <2>. HIDE DEF t
  <2>3. tx[c].new = NoOid /\ tx[c].unlinked \subseteq Oid
    BY <1>1 DEF Own, Txs
  <2>4. r # NoOid => r \in t.delkeys /\ t.delkeys = {r}
    BY <2>1
  <2>5. r = NoOid => r \notin t.unlinked /\ t.delkeys = {}
    BY <2>1, <2>3, PgAssumption
  <2>6. Own(t, used')
    BY <1>1, <2>1, <2>3, <2>4, <2>5 DEF Own, tables
  <2>7. ASSUME NEW d \in Conn \ {c}
        PROVE  Apart(t, tx[d]) /\ Apart(tx[d], t)
    <3>1. Apart(tx[c], tx[d]) /\ Apart(tx[d], tx[c]) /\ Own(tx[d], used)
      BY ZenonT(20) DEF PgInv
    <3>2. r \notin tx[d].delkeys
      BY ZenonT(20), <1>1, <3>1 DEF DeletesKeys, Others, Own
    <3>3. tx[d].fp = tx[c].fp /\ r # NoOid => tx[d].new = NoOid /\ tx[d].delkeys = {}
      BY <3>1, <3>2 DEF Own
    <3>. QED BY <2>1, <2>3, <2>5, <3>1, <3>3 DEF Apart
  <2>. QED BY ZenonT(20), <1>1, <2>1, <2>2, <2>6, <2>7, LocalStep DEF tables
<1>. QED BY <1>2, <1>3 DEF DeletesKeys

\* The new large object and its row.
LEMMA InsertsStep ==
    ASSUME PgInv, NEW c \in Conn, Inserts(c)
    PROVE  PgInv'
<1>. DEFINE o == LoCreat
            t == [tx[c] EXCEPT !.at = "commit", !.new = o]
<1>1. /\ tx[c] \in Txs /\ Own(tx[c], used) /\ tx[c].at = "insert" /\ tx[c].fp \in Fp
      /\ UNCHANGED <<rows, los, uids, sigs>> /\ used \subseteq Oid
  BY DEF PgInv, Types, Own, Inserts
<1>2. o \in Oid /\ o \notin used
  BY DEF Inserts, LoCreat
<1>3. used' = used \cup {o}
  BY DEF Inserts
<1>. HIDE DEF o
<1>4. CASE Aborts(c)
  BY <1>1, <1>2, <1>3, <1>4, AbortsStep
<1>5. CASE rows[tx[c].fp] \in tx[c].delkeys \cup {NoOid} /\ Goes(c, t)
  <2>1. /\ t \in Txs /\ t.at = "commit" /\ t.sel = tx[c].sel /\ t.fp = tx[c].fp
        /\ t.key = tx[c].key /\ t.unlinked = tx[c].unlinked /\ t.delkeys = tx[c].delkeys
        /\ t.new = o
    BY ZenonT(20), <1>1, <1>2 DEF Txs
  <2>2. tx' = [tx EXCEPT ![c] = t]
    BY <1>5 DEF Goes
  <2>. HIDE DEF t
  <2>3. los[o] = NoKey /\ o # NoOid
    BY <1>2, PgAssumption DEF PgInv
  <2>4. Own(t, used')
    BY <1>1, <1>3, <1>5, <2>1, <2>3 DEF Own
  <2>5. ASSUME NEW d \in Conn \ {c}
        PROVE  Apart(t, tx[d]) /\ Apart(tx[d], t)
    <3>1. Apart(tx[c], tx[d]) /\ Apart(tx[d], tx[c]) /\ Own(tx[d], used)
      BY DEF PgInv
    <3>2. o # tx[d].new /\ o # tx[d].sel
      BY ZenonT(20), <1>2, <2>3, <3>1 DEF Own
    <3>3. tx[d].fp = tx[c].fp => tx[d].new = NoOid /\ tx[d].delkeys = {}
      BY <1>1, <3>1 DEF Inserts, Others, Own
    <3>. QED BY ZenonT(20), <2>1, <3>1, <3>2, <3>3 DEF Apart
  <2>. QED BY ZenonT(20), <1>1, <1>2, <1>3, <2>1, <2>2, <2>4, <2>5, LocalStep
<1>. QED BY ZenonT(20), <1>4, <1>5 DEF Inserts, o

\* COMMIT is the one step that changes what others see.
LEMMA CommitsStep ==
    ASSUME PgInv, NEW c \in Conn, Commits(c)
    PROVE  PgInv'
<1>. DEFINE t == tx[c]
            f == tx[c].fp
<1>1. /\ Types /\ t \in Txs /\ Own(t, used) /\ t.at = "commit" /\ f \in Fp
  BY ZenonT(20) DEF PgInv, Types, Own, Commits
<1>2. /\ t.key \in Key \cup {NoKey} /\ t.new \in Oid \cup {NoOid} /\ t.unlinked \subseteq Oid
      /\ t.delkeys \subseteq Oid
      /\ \A d \in Conn : /\ tx[d].unlinked \subseteq Oid
                          /\ tx[d].sel \in Oid \cup {NoOid}
                          /\ tx[d].new \in Oid \cup {NoOid}
  BY ZenonT(20), <1>1 DEF Types, Txs
<1>3. /\ \A g \in Fp : rows'[g] = IF g # f THEN rows[g] ELSE IF t.new # NoOid THEN t.new
                                  ELSE IF rows[f] \in t.delkeys THEN NoOid ELSE rows[f]
      /\ \A o \in Oid : los'[o] = IF o = t.new THEN t.key
                                  ELSE IF o \in t.unlinked THEN NoKey ELSE los[o]
      /\ \A d \in Conn : tx'[d] = IF d = c THEN Idle ELSE tx[d]
      /\ used' = used
  BY ZenonT(20), <1>1 DEF Commits, Types, Goes
<1>4. Types'
  <2>1. rows' \in [Fp -> Oid \cup {NoOid}] /\ los' \in [Oid -> Key \cup {NoKey}]
    BY <1>1, <1>2 DEF Commits, Types
  <2>2. uids' \subseteq Fp \X Oid /\ sigs' \subseteq Fp \X Oid
    <3>. DEFINE own == IF t.new = NoOid THEN {} ELSE {<<f, t.new>>}
    <3>1. own \subseteq Fp \X Oid
      BY <1>1, <1>2
    <3>2. uids' = (uids \ t.deluids) \cup own /\ sigs' = (sigs \ t.delsigs) \cup own
      BY ZenonT(20) DEF Commits
    <3>. HIDE DEF own
    <3>. QED BY <1>1, <3>1, <3>2 DEF Types
  <2>3. tx' \in [Conn -> Txs]
    BY ZenonT(20), <1>1, IdleType DEF Commits, Goes, Types
  <2>. QED BY ZenonT(20), <1>1, <1>3, <2>1, <2>2, <2>3 DEF Types
<1>5. t.new # NoOid => t.key # NoKey /\ FpOf(t.key) = f /\ t.new \in used /\ los[t.new] = NoKey
  BY <1>1 DEF Own
<1>6. \A o \in Oid : los'[o] # NoKey => o \in used'
  <2>. SUFFICES ASSUME NEW o \in Oid, los'[o] # NoKey PROVE o \in used
    BY ZenonT(20), <1>3
  <2>1. CASE o = t.new
    BY ZenonT(20), <1>5, <2>1, PgAssumption
  <2>2. CASE o # t.new
    BY <1>3, <2>2 DEF PgInv
  <2>. QED BY ZenonT(20), <2>1, <2>2
<1>7. NoDangling'
  <2>. SUFFICES ASSUME NEW g \in Fp, rows'[g] # NoOid
                PROVE  los'[rows'[g]] # NoKey /\ FpOf(los'[rows'[g]]) = g
    BY ZenonT(20) DEF NoDangling
  <2>1. CASE g = f /\ t.new # NoOid
    BY ZenonT(20), <1>2, <1>3, <1>5, <2>1
  <2>2. CASE g = f /\ t.new = NoOid
    <3>1. rows'[g] = rows[f] /\ rows[f] \notin t.delkeys
      BY ZenonT(20), <1>3, <2>2
    <3>2. rows[f] \notin t.unlinked /\ rows[f] \in Oid
      BY ZenonT(20), <1>1, <2>2, <3>1 DEF Own, Types
    <3>3. los'[rows[f]] = los[rows[f]]
      BY ZenonT(20), <1>3, <2>2, <3>1, <3>2
    <3>. QED BY ZenonT(20), <1>1, <2>2, <3>1, <3>3 DEF PgInv, NoDangling
  <2>3. CASE g # f
    <3>1. rows'[g] = rows[g] /\ rows[g] \in Oid /\ los[rows[g]] # NoKey /\ FpOf(los[rows[g]]) = g
      BY ZenonT(20), <1>1, <1>3, <2>3 DEF PgInv, NoDangling, Types
    <3>2. rows[g] # t.new /\ rows[g] \notin t.unlinked
      BY <1>1, <1>5, <2>3, <3>1, PgAssumption DEF Own
    <3>. QED BY ZenonT(20), <1>3, <3>1, <3>2
  <2>. QED BY <2>1, <2>2, <2>3
<1>8. ASSUME NEW d \in Conn PROVE Own(tx[d], used)'
  <2>1. CASE d = c
    <3>1. tx'[d] = Idle
      BY ZenonT(20), <1>3, <2>1
    <3>. QED BY ZenonT(20), <3>1, IdleType DEF Own
  <2>2. CASE d # c
    <3>. DEFINE u == tx[d]
    <3>1. Own(u, used) /\ Apart(t, u) /\ Apart(u, t) /\ tx'[d] = u
      BY <1>3, <2>2 DEF PgInv
    <3>2. ASSUME NEW o \in u.unlinked PROVE los'[o] = los[o]
      <4>1. o \in Oid /\ los[o] # NoKey
        BY <1>2, <3>1 DEF Own
      <4>2. o # t.new
        BY ZenonT(20), <1>5, <4>1, PgAssumption
      <4>3. o \notin t.unlinked
        BY ZenonT(20), <3>1 DEF Apart
      <4>. QED BY ZenonT(20), <1>3, <4>1, <4>2, <4>3
    <3>3. u.sel # NoOid => los'[u.sel] = NoKey \/ los'[u.sel] = los[u.sel]
      BY ZenonT(20), <1>2, <1>3, <3>1 DEF Apart
    <3>4. u.new # NoOid => los'[u.new] = NoKey
      BY ZenonT(20), <1>2, <1>3, <3>1 DEF Own, Apart
    <3>5. u.fp \in Fp /\ (u.new # NoOid \/ u.delkeys # {}) => rows'[u.fp] = rows[u.fp]
      BY ZenonT(20), <1>3, <3>1 DEF Apart
    <3>6. ASSUME u.fp \in Fp
          PROVE  rows'[u.fp] = rows[u.fp] \/ rows'[u.fp] = NoOid \/ (rows'[u.fp] = t.new /\ t.new # NoOid)
      <4>1. rows'[u.fp] = IF u.fp # f THEN rows[u.fp] ELSE IF t.new # NoOid THEN t.new
                          ELSE IF rows[f] \in t.delkeys THEN NoOid ELSE rows[f]
        BY ZenonT(20), <1>3, <3>6
      <4>. QED BY ZenonT(20), <4>1
    <3>7. u.fp \in Fp /\ rows[u.fp] \notin u.unlinked => rows'[u.fp] \notin u.unlinked
      BY ZenonT(20), <1>2, <1>5, <3>1, <3>6, PgAssumption DEF Own
    <3>8. u.at # "idle" => u.fp \in Fp
      BY ZenonT(20), <3>1 DEF Own
    <3>9. used' = used
      BY <1>3
    <3>. QED BY ZenonT(20), <3>1, <3>2, <3>3, <3>4, <3>5, <3>7, <3>8, <3>9 DEF Own
  <2>. QED BY ZenonT(20), <2>1, <2>2
<1>9. ASSUME NEW d \in Conn, NEW e \in Conn, d # e PROVE Apart(tx[d], tx[e])'
  <2>1. CASE d # c /\ e # c
    BY <1>3, <1>9, <2>1 DEF PgInv, Apart
  <2>2. CASE d = c
    <3>1. tx'[d] = Idle /\ tx'[e] = tx[e]
      BY <1>3, <1>9, <2>2
    <3>. QED BY ZenonT(20), <3>1, IdleType DEF Apart
  <2>3. CASE e = c
    <3>1. tx'[e] = Idle /\ tx'[d] = tx[d]
      BY <1>3, <1>9, <2>3
    <3>. QED BY <3>1, IdleType DEF Apart
  <2>. QED BY ZenonT(20), <2>1, <2>2, <2>3
<1>. QED BY <1>4, <1>6, <1>7, <1>8, <1>9 DEF PgInv

-----------------------------------------------------------------------------
\* All steps together.
LEMMA PgStep ==
    ASSUME PgInv, [Next]_vars
    PROVE  PgInv'
<1>1. CASE UNCHANGED vars
  <2>1. UNCHANGED <<rows, los, used, uids, sigs, tx>>
    BY <1>1 DEF vars
  <2>2. Types' /\ NoDangling' /\ (\A o \in Oid : los'[o] # NoKey => o \in used')
    BY ZenonT(20), <2>1 DEF PgInv, Types, NoDangling
  <2>3. ASSUME NEW c \in Conn PROVE Own(tx[c], used)'
    <3>1. Own(tx[c], used)
      BY DEF PgInv
    <3>. QED BY <2>1, <3>1 DEF Own
  <2>4. ASSUME NEW c \in Conn, NEW d \in Conn, c # d PROVE Apart(tx[c], tx[d])'
    <3>1. Apart(tx[c], tx[d])
      BY <2>4 DEF PgInv
    <3>. QED BY <2>1, <3>1 DEF Apart
  <2>. QED BY <2>2, <2>3, <2>4 DEF PgInv
<1>2. ASSUME NEW c \in Conn, NEW k \in Submitted, Submits(c, k) PROVE PgInv'
  BY <1>2, PgAssumption, SubmitsStep
<1>3. ASSUME NEW c \in Conn, NEW f \in {FpOf(k) : k \in Submitted}, Deletes(c, f) PROVE PgInv'
  BY ZenonT(20), <1>3, PgAssumption, KeyAssumption, DeletesStep
<1>4. ASSUME NEW c \in Conn, RollsBack(c) PROVE PgInv'
  BY ZenonT(20), <1>4, IdleStep DEF RollsBack
<1>5. ASSUME NEW c \in Conn, Fails(c) PROVE PgInv'
  BY ZenonT(20), <1>5, AbortsStep DEF Fails, tables, PgInv, Types
<1>. QED BY <1>1, <1>2, <1>3, <1>4, <1>5, SelectsStep, ReadsStep, InsertsStep, FindsStep,
            UnlinksStep, DeletesSigsStep, DeletesUidsStep, DeletesKeysStep, CommitsStep DEF Next

\* An empty database, and nobody at work.
LEMMA PgInit == Init => PgInv
BY IdleType DEF Init, PgInv, Types, Own, Apart, NoDangling

\* keydb_pg.c: for any number of connections and keys, and whichever statements
\* fail, each row of onak_keys names a large object that is there and holds the
\* row's key.
THEOREM PgNoDangling == Spec => []NoDangling
<1>1. Init => PgInv
  BY PgInit
<1>2. PgInv /\ [Next]_vars => PgInv'
  BY PgStep
<1>3. PgInv => NoDangling
  BY ZenonT(20) DEF PgInv
<1>. QED BY <1>1, <1>2, <1>3, PTL DEF Spec

-----------------------------------------------------------------------------
(* The rows of onak_uids and onak_sigs, and the large objects *)

\* What a transaction has deleted is still there until it commits, and when it
\* has deleted the row of onak_keys it has deleted all the rows that go with it.
Deleted(t) ==
    /\ t.delsigs \subseteq RowsOf(sigs, t.fp)
    /\ t.deluids \subseteq RowsOf(uids, t.fp)
    /\ t.at \notin {"deluids", "delkeys", "insert", "commit"} => t.delsigs = {}
    /\ t.at \notin {"delkeys", "insert", "commit"} => t.deluids = {}
    /\ t.delkeys # {} => t.delsigs = RowsOf(sigs, t.fp) /\ t.deluids = RowsOf(uids, t.fp)
    /\ t.at \in {"insert", "commit"} /\ t.delkeys = {} => t.delsigs = {} /\ t.deluids = {}

\* As long as nobody has deleted the key, an update unlinks the very object that
\* the row it replaces names.
Unlinked(t) ==
    t.fp \notin deleted =>
      /\ t.at = "read" \/ (t.at = "find" /\ t.key # NoKey) => rows[t.fp] # NoOid
      /\ t.at = "unlink" /\ t.key # NoKey => t.sel # NoOid
      /\ t.unlinked # {} => t.unlinked = {rows[t.fp]}
      /\ t.key # NoKey /\ (t.at \in {"delsigs", "deluids", "delkeys"} \/ t.delkeys # {}) =>
             t.unlinked # {}

\* Rows one transaction has deleted no other has.
RowsApart(t, u) == t.delsigs \cap u.delsigs = {} /\ t.deluids \cap u.deluids = {}

AgreeInv == /\ TablesAgree
            /\ \A c \in Conn : Deleted(tx[c]) /\ Unlinked(tx[c])
            /\ \A c, d \in Conn : c # d => RowsApart(tx[c], tx[d])

\* A step of one transaction that others do not see.
LEMMA LocalAgrees ==
    ASSUME PgInv, AgreeInv, NEW c \in Conn, NEW t \in Txs,
           tx' = [tx EXCEPT ![c] = t],
           UNCHANGED <<rows, los, uids, sigs, deleted>>,
           Deleted(t), Unlinked(t),
           \A d \in Conn \ {c} : RowsApart(t, tx[d])
    PROVE  AgreeInv'
<1>1. \A d \in Conn : tx'[d] = IF d = c THEN t ELSE tx[d]
  BY ZenonT(20) DEF PgInv, Types
<1>2. TablesAgree'
  BY ZenonT(20) DEF AgreeInv, TablesAgree, RowsOf
<1>3. ASSUME NEW d \in Conn PROVE Deleted(tx[d])' /\ Unlinked(tx[d])'
  <2>1. Deleted(tx'[d]) /\ Unlinked(tx'[d])
    BY ZenonT(20), <1>1 DEF AgreeInv
  <2>. QED BY ZenonT(20), <2>1 DEF Deleted, Unlinked, RowsOf
<1>4. ASSUME NEW d \in Conn, NEW e \in Conn, d # e PROVE RowsApart(tx[d], tx[e])'
  BY <1>1, <1>4 DEF AgreeInv, RowsApart
<1>. QED BY <1>2, <1>3, <1>4 DEF AgreeInv

\* A transaction that has deleted nothing yet.
LEMMA BareAgrees ==
    ASSUME PgInv, AgreeInv, NEW c \in Conn, NEW t \in Txs,
           tx' = [tx EXCEPT ![c] = t],
           UNCHANGED <<rows, los, uids, sigs, deleted>>,
           t.at \in {"idle", "select", "read", "find", "unlink", "aborted"} \/
               (t.at = "insert" /\ t.delkeys = {}),
           t.delsigs = {}, t.deluids = {}, t.delkeys = {}, t.unlinked = {},
           t.at = "read" \/ (t.at = "find" /\ t.key # NoKey) =>
               t.fp \in deleted \/ rows[t.fp] # NoOid,
           t.at = "unlink" /\ t.key # NoKey => t.fp \in deleted \/ t.sel # NoOid
    PROVE  AgreeInv'
<1>1. Deleted(t)
  BY ZenonT(20) DEF Deleted
<1>2. Unlinked(t)
  BY DEF Unlinked
<1>3. \A d \in Conn \ {c} : RowsApart(t, tx[d])
  BY DEF RowsApart
<1>. QED BY ZenonT(20), <1>1, <1>2, <1>3, LocalAgrees

\* A transaction as BEGIN, a failed statement or its end leaves it.
Blank(t) == /\ t \in Txs
            /\ t.at \in {"idle", "select", "find", "aborted"}
            /\ t.at = "find" => t.key = NoKey
            /\ t.at # "idle" => t.fp \in Fp
            /\ t.key # NoKey => t.at = "select" /\ t.sub = t.key /\ FpOf(t.key) = t.fp
            /\ t.at = "select" => t.sub = t.key
            /\ t.delsigs = {} /\ t.deluids = {} /\ t.delkeys = {} /\ t.unlinked = {}

\* BEGIN of an update, of a delete, an error, and the end.
LEMMA BlankForms ==
    /\ Blank(Idle)
    /\ \A f \in Fp : /\ Blank([Idle EXCEPT !.at = "find", !.fp = f])
                     /\ Blank([Idle EXCEPT !.at = "aborted", !.fp = f])
    /\ \A k \in Key :
         Blank([Idle EXCEPT !.at = "select", !.fp = FpOf(k), !.sub = k, !.key = k])
<1>1. Blank(Idle)
  BY ZenonT(20) DEF Blank, Idle, Txs
<1>2. ASSUME NEW f \in Fp PROVE Blank([Idle EXCEPT !.at = "find", !.fp = f])
  BY ZenonT(20) DEF Blank, Idle, Txs
<1>3. ASSUME NEW f \in Fp PROVE Blank([Idle EXCEPT !.at = "aborted", !.fp = f])
  BY ZenonT(20) DEF Blank, Idle, Txs
<1>4. ASSUME NEW k \in Key
      PROVE  Blank([Idle EXCEPT !.at = "select", !.fp = FpOf(k), !.sub = k, !.key = k])
  <2>1. FpOf(k) \in Fp
    BY KeyAssumption
  <2>. QED BY ZenonT(20), <2>1 DEF Blank, Idle, Txs
<1>. QED BY ZenonT(20), <1>1, <1>2, <1>3, <1>4

\* Such a step.
LEMMA BlankAgrees ==
    ASSUME PgInv, AgreeInv, NEW c \in Conn, NEW t, Blank(t), Goes(c, t),
           UNCHANGED <<rows, los, uids, sigs, deleted>>
    PROVE  AgreeInv'
BY ZenonT(20), BareAgrees DEF Blank, Goes

\* A statement that fails.
LEMMA AbortsAgrees ==
    ASSUME PgInv, AgreeInv, NEW c \in Conn, tx[c].at # "idle", Aborts(c),
           UNCHANGED <<rows, los, uids, sigs, deleted>>
    PROVE  AgreeInv'
<1>1. tx[c].fp \in Fp
  BY DEF PgInv, Own
<1>. QED BY ZenonT(20), <1>1, BlankForms, BlankAgrees DEF Aborts

\* The SELECT of fetch_key_id.
LEMMA SelectsAgrees ==
    ASSUME PgInv, AgreeInv, NEW c \in Conn, Selects(c)
    PROVE  AgreeInv'
<1>. DEFINE o == rows[tx[c].fp]
            t == [tx[c] EXCEPT !.at = IF o = NoOid THEN "insert" ELSE "read", !.sel = o]
<1>1. /\ tx[c] \in Txs /\ Own(tx[c], used) /\ tx[c].at = "select" /\ tx[c].fp \in Fp
      /\ o \in Oid \cup {NoOid} /\ Deleted(tx[c])
  BY DEF PgInv, AgreeInv, Types, Own, Selects
<1>2. /\ t \in Txs /\ t.at = (IF o = NoOid THEN "insert" ELSE "read")
      /\ t.fp = tx[c].fp /\ t.delsigs = tx[c].delsigs /\ t.deluids = tx[c].deluids
      /\ t.unlinked = tx[c].unlinked /\ t.delkeys = tx[c].delkeys
  BY <1>1, ZenonT(60) DEF Txs
<1>3. tx' = [tx EXCEPT ![c] = t] /\ UNCHANGED <<rows, los, uids, sigs, deleted>>
  BY DEF Selects, Goes, tables, history
<1>. HIDE DEF t
<1>4. t.unlinked = {} /\ t.delkeys = {} /\ t.delsigs = {} /\ t.deluids = {}
  BY ZenonT(20), <1>1, <1>2 DEF Own, Deleted
<1>. QED BY ZenonT(20), <1>2, <1>3, <1>4, BareAgrees

\* The large object is read and merged.
LEMMA ReadsAgrees ==
    ASSUME PgInv, AgreeInv, NEW c \in Conn, Reads(c)
    PROVE  AgreeInv'
<1>. DEFINE old == los[tx[c].sel]
            k == tx[c].sub
            t == [tx[c] EXCEPT !.at = "find", !.key = Merge(old, k), !.sel = NoOid]
<1>1. /\ tx[c] \in Txs /\ Own(tx[c], used) /\ tx[c].at = "read"
      /\ Deleted(tx[c]) /\ Unlinked(tx[c])
      /\ UNCHANGED <<rows, los, uids, sigs, deleted>>
  BY DEF PgInv, AgreeInv, Types, Reads, tables
<1>2. CASE Aborts(c)
  BY ZenonT(20), <1>1, <1>2, AbortsAgrees
<1>3. CASE Goes(c, Idle)
  BY ZenonT(20), <1>1, <1>3, BlankForms, BlankAgrees
<1>4. CASE old # NoKey /\ Goes(c, t)
  <2>1. tx[c].sel \in Oid /\ k \in Key /\ FpOf(k) = tx[c].fp
    BY ZenonT(20), <1>1 DEF Own, Txs
  <2>2. old \in Key /\ FpOf(old) = tx[c].fp
    BY ZenonT(20), <1>1, <1>4, <2>1, PgAssumption DEF PgInv, Types, Own
  <2>3. Merge(old, k) \in Key
    BY <2>1, <2>2, MergeAssumption
  <2>4. /\ t \in Txs /\ t.at = "find"
        /\ t.fp = tx[c].fp /\ t.delsigs = tx[c].delsigs /\ t.deluids = tx[c].deluids
        /\ t.unlinked = tx[c].unlinked /\ t.delkeys = tx[c].delkeys
    BY ZenonT(20), <1>1, <2>3 DEF Txs
  <2>5. tx' = [tx EXCEPT ![c] = t]
    BY <1>4 DEF Goes
  <2>. HIDE DEF t
  <2>6. t.unlinked = {} /\ t.delkeys = {} /\ t.delsigs = {} /\ t.deluids = {}
    BY ZenonT(20), <1>1, <2>4 DEF Own, Deleted
  <2>7. t.fp \in deleted \/ rows[t.fp] # NoOid
    BY <1>1, <2>4 DEF Unlinked
  <2>. QED BY ZenonT(20), <1>1, <2>4, <2>5, <2>6, <2>7, BareAgrees
<1>. QED BY <1>2, <1>3, <1>4 DEF Reads

\* The SELECT of delete_key.
LEMMA FindsAgrees ==
    ASSUME PgInv, AgreeInv, NEW c \in Conn, Finds(c)
    PROVE  AgreeInv'
<1>. DEFINE o == rows[tx[c].fp]
            t == [tx[c] EXCEPT !.at = "unlink", !.sel = o]
<1>1. /\ tx[c] \in Txs /\ Own(tx[c], used) /\ tx[c].at = "find" /\ tx[c].fp \in Fp
      /\ o \in Oid \cup {NoOid} /\ Deleted(tx[c]) /\ Unlinked(tx[c])
  BY DEF PgInv, AgreeInv, Types, Own, Finds
<1>2. /\ t \in Txs /\ t.at = "unlink" /\ t.sel = o /\ t.key = tx[c].key
      /\ t.fp = tx[c].fp /\ t.delsigs = tx[c].delsigs /\ t.deluids = tx[c].deluids
      /\ t.unlinked = tx[c].unlinked /\ t.delkeys = tx[c].delkeys
  BY ZenonT(20), <1>1 DEF Txs
<1>3. tx' = [tx EXCEPT ![c] = t] /\ UNCHANGED <<rows, los, uids, sigs, deleted>>
  BY DEF Finds, Goes, tables, history
<1>. HIDE DEF t
<1>4. t.unlinked = {} /\ t.delkeys = {} /\ t.delsigs = {} /\ t.deluids = {}
  BY ZenonT(20), <1>1, <1>2 DEF Own, Deleted
<1>5. t.key # NoKey => t.fp \in deleted \/ t.sel # NoOid
  BY <1>1, <1>2 DEF Unlinked
<1>. QED BY ZenonT(20), <1>2, <1>3, <1>4, <1>5, BareAgrees

\* lo_unlink: what is unlinked is what the row names, unless the key was deleted.
LEMMA UnlinksAgrees ==
    ASSUME PgInv, AgreeInv, NEW c \in Conn, Unlinks(c)
    PROVE  AgreeInv'
<1>. DEFINE o == tx[c].sel
            t == [tx[c] EXCEPT !.at = "delsigs"]
            u == [tx[c] EXCEPT !.at = "delsigs", !.unlinked = {o}]
<1>1. /\ tx[c] \in Txs /\ Own(tx[c], used) /\ tx[c].at = "unlink"
      /\ Deleted(tx[c]) /\ Unlinked(tx[c])
      /\ UNCHANGED <<rows, los, uids, sigs, deleted>>
  BY DEF PgInv, AgreeInv, Types, Unlinks, tables, history
<1>2. /\ tx[c].unlinked = {} /\ tx[c].delkeys = {} /\ tx[c].fp \in Fp
      /\ tx[c].delsigs = {} /\ tx[c].deluids = {} /\ o \in Oid \cup {NoOid}
  BY ZenonT(20), <1>1 DEF Own, Deleted, Txs
<1>3. CASE Aborts(c)
  BY ZenonT(20), <1>1, <1>3, AbortsAgrees
<1>4. CASE o = NoOid /\ Goes(c, t)
  <2>1. /\ t \in Txs /\ t.at = "delsigs" /\ t.fp = tx[c].fp /\ t.key = tx[c].key
        /\ t.unlinked = {} /\ t.delkeys = {} /\ t.delsigs = {} /\ t.deluids = {}
    BY <1>1, <1>2 DEF Txs
  <2>2. tx' = [tx EXCEPT ![c] = t]
    BY <1>4 DEF Goes
  <2>. HIDE DEF t
  <2>3. Deleted(t)
    BY ZenonT(20), <2>1 DEF Deleted
  <2>4. Unlinked(t)
    BY ZenonT(20), <1>1, <1>4, <2>1 DEF Unlinked
  <2>5. \A d \in Conn \ {c} : RowsApart(t, tx[d])
    BY <2>1 DEF RowsApart
  <2>. QED BY ZenonT(20), <1>1, <2>1, <2>2, <2>3, <2>4, <2>5, LocalAgrees
<1>5. CASE o # NoOid /\ los[o] # NoKey /\ Goes(c, u)
  <2>1. /\ u \in Txs /\ u.at = "delsigs" /\ u.fp = tx[c].fp /\ u.key = tx[c].key
        /\ u.unlinked = {o} /\ u.delkeys = {} /\ u.delsigs = {} /\ u.deluids = {}
    BY ZenonT(20), <1>1, <1>2, <1>5 DEF Txs
  <2>2. tx' = [tx EXCEPT ![c] = u]
    BY <1>5 DEF Goes
  <2>. HIDE DEF u
  <2>3. Deleted(u)
    BY <2>1 DEF Deleted
  <2>4. tx[c].fp \notin deleted => o = rows[tx[c].fp]
    BY ZenonT(20), <1>1, <1>2, <1>5 DEF AgreeInv, TablesAgree, Own
  <2>5. Unlinked(u)
    BY <2>1, <2>4 DEF Unlinked
  <2>6. \A d \in Conn \ {c} : RowsApart(u, tx[d])
    BY <2>1 DEF RowsApart
  <2>. QED BY ZenonT(20), <1>1, <2>1, <2>2, <2>3, <2>5, <2>6, LocalAgrees
<1>. QED BY <1>3, <1>4, <1>5 DEF Unlinks

\* DELETE FROM onak_sigs.
LEMMA DeletesSigsAgrees ==
    ASSUME PgInv, AgreeInv, NEW c \in Conn, DeletesSigs(c)
    PROVE  AgreeInv'
<1>. DEFINE gone == RowsOf(sigs, tx[c].fp)
            t == [tx[c] EXCEPT !.at = "deluids", !.delsigs = gone]
<1>1. /\ tx[c] \in Txs /\ Own(tx[c], used) /\ tx[c].at = "delsigs"
      /\ Deleted(tx[c]) /\ Unlinked(tx[c]) /\ gone \subseteq Fp \X Oid
  BY DEF PgInv, AgreeInv, Types, DeletesSigs, RowsOf
<1>2. /\ t \in Txs /\ t.at = "deluids" /\ t.fp = tx[c].fp /\ t.key = tx[c].key
      /\ t.sel = tx[c].sel /\ t.delsigs = gone /\ t.deluids = tx[c].deluids
      /\ t.unlinked = tx[c].unlinked /\ t.delkeys = tx[c].delkeys
  BY ZenonT(20), <1>1 DEF Txs
<1>3. tx' = [tx EXCEPT ![c] = t] /\ UNCHANGED <<rows, los, uids, sigs, deleted>>
  BY DEF DeletesSigs, Goes, tables, history
<1>. HIDE DEF t
<1>4. t.deluids = {}
  BY ZenonT(20), <1>1, <1>2 DEF Deleted
<1>5. Deleted(t)
  BY ZenonT(20), <1>1, <1>2, <1>4 DEF Deleted
<1>6. Unlinked(t)
  BY ZenonT(20), <1>1, <1>2 DEF Unlinked
<1>7. ASSUME NEW d \in Conn \ {c} PROVE RowsApart(t, tx[d])
  <2>1. tx[d].delsigs \cap gone = {}
    BY DEF DeletesSigs, Others, AgreeInv, Deleted
  <2>. QED BY <1>2, <1>4, <2>1 DEF RowsApart
<1>. QED BY ZenonT(20), <1>2, <1>3, <1>5, <1>6, <1>7, LocalAgrees

\* DELETE FROM onak_uids.
LEMMA DeletesUidsAgrees ==
    ASSUME PgInv, AgreeInv, NEW c \in Conn, DeletesUids(c)
    PROVE  AgreeInv'
<1>. DEFINE gone == RowsOf(uids, tx[c].fp)
            t == [tx[c] EXCEPT !.at = "delkeys", !.deluids = gone]
<1>1. /\ tx[c] \in Txs /\ Own(tx[c], used) /\ tx[c].at = "deluids"
      /\ Deleted(tx[c]) /\ Unlinked(tx[c]) /\ gone \subseteq Fp \X Oid
  BY DEF PgInv, AgreeInv, Types, DeletesUids, RowsOf
<1>2. /\ t \in Txs /\ t.at = "delkeys" /\ t.fp = tx[c].fp /\ t.key = tx[c].key
      /\ t.sel = tx[c].sel /\ t.delsigs = tx[c].delsigs /\ t.deluids = gone
      /\ t.unlinked = tx[c].unlinked /\ t.delkeys = tx[c].delkeys
  BY ZenonT(20), <1>1 DEF Txs
<1>3. tx' = [tx EXCEPT ![c] = t] /\ UNCHANGED <<rows, los, uids, sigs, deleted>>
  BY DEF DeletesUids, Goes, tables, history
<1>. HIDE DEF t
<1>4. Deleted(t)
  BY ZenonT(20), <1>1, <1>2 DEF Deleted
<1>5. Unlinked(t)
  BY ZenonT(20), <1>1, <1>2 DEF Unlinked
<1>6. ASSUME NEW d \in Conn \ {c} PROVE RowsApart(t, tx[d])
  <2>1. tx[d].deluids \cap gone = {}
    BY DEF DeletesUids, Others, AgreeInv, Deleted
  <2>2. tx[c].delsigs \cap tx[d].delsigs = {}
    BY DEF AgreeInv, RowsApart
  <2>. QED BY <1>2, <2>1, <2>2 DEF RowsApart
<1>. QED BY ZenonT(20), <1>2, <1>3, <1>4, <1>5, <1>6, LocalAgrees

\* DELETE FROM onak_keys: it goes through only when no row is left that refers to
\* the key.
LEMMA DeletesKeysAgrees ==
    ASSUME PgInv, AgreeInv, NEW c \in Conn, DeletesKeys(c)
    PROVE  AgreeInv'
<1>. DEFINE f == tx[c].fp
            left == (RowsOf(uids, f) \ tx[c].deluids) \cup (RowsOf(sigs, f) \ tx[c].delsigs)
            s == IF tx[c].key = NoKey THEN "commit" ELSE "insert"
            g == {rows[f]} \ {NoOid}
            t == [tx[c] EXCEPT !.at = s, !.delkeys = g]
<1>1. /\ tx[c] \in Txs /\ Own(tx[c], used) /\ tx[c].at = "delkeys" /\ f \in Fp
      /\ Deleted(tx[c]) /\ Unlinked(tx[c])
      /\ rows[f] \in Oid \cup {NoOid}
      /\ UNCHANGED <<rows, los, uids, sigs, deleted>>
  BY ZenonT(20) DEF PgInv, AgreeInv, Types, Own, DeletesKeys, tables, history
<1>2. CASE Aborts(c)
  BY <1>1, <1>2, AbortsAgrees
<1>3. CASE ~(rows[f] # NoOid /\ left # {}) /\ Goes(c, t)
  <2>1. s \in {"commit", "insert"} /\ g \subseteq Oid /\ (rows[f] = NoOid => g = {})
    BY <1>1
  <2>. HIDE DEF s, g
  <2>2. /\ t \in Txs /\ t.at \in {"commit", "insert"} /\ t.fp = f /\ t.key = tx[c].key
        /\ t.delsigs = tx[c].delsigs /\ t.deluids = tx[c].deluids
        /\ t.unlinked = tx[c].unlinked /\ t.delkeys = g
    BY ZenonT(20), <1>1, <2>1 DEF Txs
  <2>3. tx' = [tx EXCEPT ![c] = t]
    BY <1>3 DEF Goes, s, g
  <2>. HIDE DEF t
  <2>4. rows[f] = NoOid => RowsOf(uids, f) = {} /\ RowsOf(sigs, f) = {}
    BY <1>1 DEF AgreeInv, TablesAgree
  <2>5. tx[c].delsigs \subseteq RowsOf(sigs, f) /\ tx[c].deluids \subseteq RowsOf(uids, f)
    BY ZenonT(20), <1>1 DEF Deleted
  <2>6. tx[c].delsigs = RowsOf(sigs, f) /\ tx[c].deluids = RowsOf(uids, f)
    BY ZenonT(20), <1>3, <2>4, <2>5
  <2>7. g = {} => rows[f] = NoOid
    BY ZenonT(20) DEF g
  <2>8. Deleted(t)
    BY <2>2, <2>4, <2>6, <2>7 DEF Deleted
  <2>9. Unlinked(t)
    BY ZenonT(20), <1>1, <2>2 DEF Unlinked
  <2>10. ASSUME NEW d \in Conn \ {c} PROVE RowsApart(t, tx[d])
    BY ZenonT(20), <2>2 DEF AgreeInv, RowsApart
  <2>. QED BY ZenonT(20), <1>1, <2>2, <2>3, <2>8, <2>9, <2>10, LocalAgrees
<1>. QED BY ZenonT(20), <1>2, <1>3 DEF DeletesKeys

\* The INSERTs, at the end of which the transaction is ready to commit.
LEMMA InsertsAgrees ==
    ASSUME PgInv, AgreeInv, NEW c \in Conn, Inserts(c)
    PROVE  AgreeInv'
<1>. DEFINE t == [tx[c] EXCEPT !.at = "commit", !.new = LoCreat]
<1>1. /\ tx[c] \in Txs /\ Own(tx[c], used) /\ tx[c].at = "insert"
      /\ Deleted(tx[c]) /\ Unlinked(tx[c])
      /\ UNCHANGED <<rows, los, uids, sigs, deleted>>
  BY ZenonT(20) DEF PgInv, AgreeInv, Types, Inserts, history
<1>2. CASE Aborts(c)
  BY <1>1, <1>2, AbortsAgrees
<1>3. CASE Goes(c, t)
  <2>1. LoCreat \in Oid
    BY DEF Inserts, LoCreat
  <2>2. /\ t \in Txs /\ t.at = "commit" /\ t.fp = tx[c].fp /\ t.key = tx[c].key
        /\ t.delsigs = tx[c].delsigs /\ t.deluids = tx[c].deluids
        /\ t.unlinked = tx[c].unlinked /\ t.delkeys = tx[c].delkeys
    BY ZenonT(20), <1>1, <2>1 DEF Txs
  <2>3. tx' = [tx EXCEPT ![c] = t]
    BY <1>3 DEF Goes
  <2>. HIDE DEF t
  <2>4. Deleted(t)
    BY ZenonT(20), <1>1, <2>2 DEF Deleted
  <2>5. Unlinked(t)
    BY ZenonT(20), <1>1, <2>2 DEF Unlinked
  <2>6. ASSUME NEW d \in Conn \ {c} PROVE RowsApart(t, tx[d])
    BY ZenonT(20), <2>2 DEF AgreeInv, RowsApart
  <2>. QED BY ZenonT(20), <1>1, <2>2, <2>3, <2>4, <2>5, <2>6, LocalAgrees
<1>. QED BY <1>2, <1>3 DEF Inserts

\* COMMIT.
LEMMA CommitsAgrees ==
    ASSUME PgInv, AgreeInv, NEW c \in Conn, Commits(c)
    PROVE  AgreeInv'
<1>. DEFINE t == tx[c]
            f == t.fp
            own == IF t.new = NoOid THEN {} ELSE {<<f, t.new>>}
            now == IF t.new # NoOid THEN t.new
                   ELSE IF rows[f] \in t.delkeys THEN NoOid ELSE rows[f]
<1>1. /\ t \in Txs /\ Own(t, used) /\ t.at = "commit" /\ f \in Fp
      /\ Deleted(t) /\ Unlinked(t)
  BY ZenonT(20) DEF PgInv, AgreeInv, Types, Own, Commits
<1>2. /\ rows' = [rows EXCEPT ![f] = now]
      /\ \A o \in Oid : los'[o] = IF o = t.new THEN t.key
                                  ELSE IF o \in t.unlinked THEN NoKey ELSE los[o]
      /\ uids' = (uids \ t.deluids) \cup own
      /\ sigs' = (sigs \ t.delsigs) \cup own
      /\ deleted' = IF t.new = NoOid THEN deleted \cup {f} ELSE deleted
      /\ \A d \in Conn : tx'[d] = IF d = c THEN Idle ELSE tx[d]
  BY ZenonT(20) DEF Commits, Goes, PgInv, Types
<1>3. rows'[f] = now /\ \A g \in Fp : g # f => rows'[g] = rows[g]
  BY ZenonT(20), <1>1, <1>2 DEF PgInv, Types
<1>4. \A r \in own : r[1] = f
  OBVIOUS
<1>. HIDE DEF own
<1>5. /\ t.new # NoOid => /\ t.new \in Oid /\ t.key \in Key /\ FpOf(t.key) = f
                          /\ t.key # NoKey /\ rows[f] \in t.delkeys \cup {NoOid}
      /\ t.delkeys # {} => t.delkeys = {rows[f]}
      /\ \A o \in t.unlinked : o \in Oid /\ FpOf(los[o]) = f
  BY ZenonT(20), <1>1 DEF Own, Txs
<1>6. /\ \A g \in Fp : RowsOf(uids, g) = IF rows[g] = NoOid THEN {} ELSE {<<g, rows[g]>>}
      /\ \A g \in Fp : RowsOf(sigs, g) = IF rows[g] = NoOid THEN {} ELSE {<<g, rows[g]>>}
  BY DEF AgreeInv, TablesAgree
<1>7. /\ t.deluids \subseteq RowsOf(uids, f) /\ t.delsigs \subseteq RowsOf(sigs, f)
      /\ t.delkeys # {} => t.deluids = RowsOf(uids, f) /\ t.delsigs = RowsOf(sigs, f)
      /\ t.delkeys = {} => t.deluids = {} /\ t.delsigs = {}
  BY ZenonT(20), <1>1 DEF Deleted
<1>. HIDE DEF now
<1>8. ASSUME NEW g \in Fp
      PROVE  /\ RowsOf(uids', g) = IF rows'[g] = NoOid THEN {} ELSE {<<g, rows'[g]>>}
             /\ RowsOf(sigs', g) = IF rows'[g] = NoOid THEN {} ELSE {<<g, rows'[g]>>}
  <2>1. CASE g = f
    <3>1. /\ RowsOf(uids', f) = (RowsOf(uids, f) \ t.deluids) \cup own
          /\ RowsOf(sigs', f) = (RowsOf(sigs, f) \ t.delsigs) \cup own
      <4>1. RowsOf((uids \ t.deluids) \cup own, f) = (RowsOf(uids, f) \ t.deluids) \cup own
        BY ZenonT(20), <1>4, <1>7 DEF RowsOf
      <4>2. RowsOf((sigs \ t.delsigs) \cup own, f) = (RowsOf(sigs, f) \ t.delsigs) \cup own
        BY ZenonT(20), <1>4, <1>7 DEF RowsOf
      <4>. QED BY ZenonT(20), <1>2, <4>1, <4>2
    <3>2. RowsOf(uids, f) = IF rows[f] = NoOid THEN {} ELSE {<<f, rows[f]>>}
      BY ZenonT(20), <1>1, <1>6
    <3>3. RowsOf(sigs, f) = IF rows[f] = NoOid THEN {} ELSE {<<f, rows[f]>>}
      BY ZenonT(20), <1>1, <1>6
    <3>4. (RowsOf(uids, f) \ t.deluids) \cup own = IF now = NoOid THEN {} ELSE {<<f, now>>}
      <4>1. /\ t.delkeys # {} => t.delkeys = {rows[f]} /\ t.deluids = RowsOf(uids, f)
            /\ t.delkeys = {} => t.deluids = {}
            /\ t.new # NoOid => rows[f] \in t.delkeys \cup {NoOid}
            /\ t.deluids \subseteq RowsOf(uids, f)
        BY ZenonT(20), <1>5, <1>7
      <4>2. CASE t.new # NoOid
        <5>1. RowsOf(uids, f) \ t.deluids = {}
          BY ZenonT(20), <3>2, <4>1, <4>2
        <5>. QED BY ZenonT(20), <4>2, <5>1 DEF own, now
      <4>3. CASE t.new = NoOid /\ t.delkeys # {}
        BY ZenonT(20), <3>2, <4>1, <4>3 DEF own, now
      <4>4. CASE t.new = NoOid /\ t.delkeys = {}
        BY ZenonT(20), <3>2, <4>1, <4>4 DEF own, now
      <4>. QED BY ZenonT(20), <4>2, <4>3, <4>4
    <3>5. (RowsOf(sigs, f) \ t.delsigs) \cup own = IF now = NoOid THEN {} ELSE {<<f, now>>}
      <4>1. /\ t.delkeys # {} => t.delkeys = {rows[f]} /\ t.delsigs = RowsOf(sigs, f)
            /\ t.delkeys = {} => t.delsigs = {}
            /\ t.new # NoOid => rows[f] \in t.delkeys \cup {NoOid}
            /\ t.delsigs \subseteq RowsOf(sigs, f)
        BY ZenonT(20), <1>5, <1>7
      <4>2. CASE t.new # NoOid
        <5>1. RowsOf(sigs, f) \ t.delsigs = {}
          BY ZenonT(20), <3>3, <4>1, <4>2
        <5>. QED BY ZenonT(20), <4>2, <5>1 DEF own, now
      <4>3. CASE t.new = NoOid /\ t.delkeys # {}
        BY ZenonT(20), <3>3, <4>1, <4>3 DEF own, now
      <4>4. CASE t.new = NoOid /\ t.delkeys = {}
        BY ZenonT(20), <3>3, <4>1, <4>4 DEF own, now
      <4>. QED BY ZenonT(20), <4>2, <4>3, <4>4
    <3>. QED BY ZenonT(20), <1>3, <2>1, <3>1, <3>4, <3>5
  <2>2. CASE g # f
    <3>1. RowsOf(uids', g) = RowsOf(uids, g) /\ RowsOf(sigs', g) = RowsOf(sigs, g)
      BY ZenonT(20), <1>2, <1>4, <1>7, <2>2 DEF RowsOf
    <3>. QED BY ZenonT(20), <1>3, <1>6, <2>2, <3>1
  <2>. QED BY <2>1, <2>2
<1>9. f \notin deleted' => /\ t.new # NoOid /\ f \notin deleted /\ now = t.new
                           /\ rows[f] # NoOid => t.unlinked = {rows[f]}
  BY ZenonT(20), <1>1, <1>2, <1>5 DEF Unlinked, now
<1>10. ASSUME NEW g \in Fp, g \notin deleted', NEW o \in Oid, los'[o] # NoKey, FpOf(los'[o]) = g
       PROVE  o = rows'[g]
  <2>1. g \notin deleted /\ \A x \in Oid : los[x] # NoKey /\ FpOf(los[x]) = g => x = rows[g]
    BY ZenonT(20), <1>2, <1>10 DEF AgreeInv, TablesAgree
  <2>2. CASE g = f
    <3>1. SUFFICES ASSUME o # t.new PROVE FALSE
      BY <1>3, <1>9, <1>10, <2>2
    <3>2. los'[o] = los[o] /\ o \notin t.unlinked
      BY ZenonT(20), <1>2, <1>10, <3>1
    <3>3. o = rows[f] /\ rows[f] # NoOid
      BY <1>10, <2>1, <2>2, <3>2, PgAssumption
    <3>. QED BY <1>9, <1>10, <2>2, <3>2, <3>3
  <2>3. CASE g # f
    <3>1. o # t.new
      BY ZenonT(20), <1>2, <1>5, <1>10, <2>3, PgAssumption
    <3>2. los'[o] = los[o]
      BY ZenonT(20), <1>2, <1>10, <3>1
    <3>. QED BY ZenonT(20), <1>3, <1>10, <2>1, <2>3, <3>2
  <2>. QED BY <2>2, <2>3
<1>11. TablesAgree'
  BY ZenonT(20), <1>8, <1>10 DEF TablesAgree
<1>12. ASSUME NEW d \in Conn, d # c PROVE Deleted(tx[d])'
  <2>. DEFINE u == tx[d]
  <2>1. /\ tx'[d] = u /\ u \in Txs /\ Deleted(u) /\ RowsApart(t, u)
        /\ t.fp = u.fp /\ u.delkeys # {} => t.new = NoOid /\ t.delkeys = {}
    BY ZenonT(20), <1>2, <1>12 DEF PgInv, AgreeInv, Types, Apart
  <2>2. u.deluids \subseteq RowsOf(uids', u.fp) /\ u.delsigs \subseteq RowsOf(sigs', u.fp)
    BY ZenonT(20), <1>2, <2>1 DEF Deleted, RowsApart, RowsOf
  <2>3. CASE u.fp = f /\ u.delkeys # {}
    <3>1. uids' = uids /\ sigs' = sigs
      BY ZenonT(20), <1>2, <1>7, <2>1, <2>3 DEF own
    <3>. QED BY ZenonT(20), <2>1, <3>1 DEF Deleted
  <2>4. CASE u.fp # f
    <3>1. RowsOf(uids', u.fp) = RowsOf(uids, u.fp) /\ RowsOf(sigs', u.fp) = RowsOf(sigs, u.fp)
      BY SMTT(30), <1>2, <1>4, <1>7, <2>4 DEF RowsOf
    <3>. QED BY ZenonT(20), <2>1, <2>2, <3>1 DEF Deleted
  <2>5. CASE u.delkeys = {}
    BY ZenonT(20), <2>1, <2>2, <2>5 DEF Deleted
  <2>. QED BY <2>3, <2>4, <2>5
<1>13. ASSUME NEW d \in Conn, d # c PROVE Unlinked(tx[d])'
  <2>. DEFINE u == tx[d]
  <2>1. /\ tx'[d] = u /\ u \in Txs /\ Unlinked(u) /\ Own(u, used)
        /\ t.unlinked \cap u.unlinked = {}
    BY ZenonT(20), <1>2, <1>13 DEF PgInv, AgreeInv, Types, Apart
  <2>2. SUFFICES ASSUME u.fp \notin deleted', u.at # "idle"
                 PROVE  Unlinked(tx[d])'
    BY ZenonT(20), <2>1, NothingAssumption DEF Unlinked, Own
  <2>3. u.fp \in Fp /\ u.fp \notin deleted
    BY ZenonT(20), <1>2, <2>1, <2>2 DEF Own
  <2>4. CASE u.fp # f
    <3>1. rows'[u.fp] = rows[u.fp]
      BY ZenonT(20), <1>3, <2>3, <2>4
    <3>. QED BY ZenonT(20), <2>1, <2>3, <3>1 DEF Unlinked
  <2>5. CASE u.fp = f
    <3>1. rows'[f] # NoOid /\ (rows[f] # NoOid => t.unlinked = {rows[f]})
      BY ZenonT(20), <1>3, <1>9, <2>2, <2>5
    <3>2. u.unlinked = {}
      <4>1. SUFFICES ASSUME u.unlinked # {} PROVE FALSE
        BY ZenonT(20)
      <4>2. u.unlinked = {rows[f]}
        BY ZenonT(20), <2>1, <2>3, <2>5, <4>1 DEF Unlinked
      <4>3. rows[f] \in Oid
        BY <2>1, <4>2 DEF Txs
      <4>. QED BY <2>1, <3>1, <4>2, <4>3, PgAssumption
    <3>. QED BY ZenonT(20), <2>1, <2>3, <2>5, <3>1, <3>2 DEF Unlinked
  <2>. QED BY <2>4, <2>5
<1>14. Deleted(tx[c])' /\ Unlinked(tx[c])'
  <2>1. tx'[c] = Idle /\ Idle.delsigs = {} /\ Idle.deluids = {}
    BY ZenonT(20), <1>2 DEF Idle
  <2>. QED BY ZenonT(20), <2>1, IdleType DEF Deleted, Unlinked
<1>15. ASSUME NEW d \in Conn, NEW e \in Conn, d # e PROVE RowsApart(tx[d], tx[e])'
  <2>1. Idle.delsigs = {} /\ Idle.deluids = {}
    BY ZenonT(20) DEF Idle
  <2>. QED BY ZenonT(20), <1>2, <1>15, <2>1 DEF AgreeInv, RowsApart
<1>. QED BY <1>11, <1>12, <1>13, <1>14, <1>15 DEF AgreeInv

\* All steps together.
LEMMA AgreeStep ==
    ASSUME PgInv, AgreeInv, [Next]_vars
    PROVE  AgreeInv'
<1>1. CASE UNCHANGED vars
  <2>1. UNCHANGED <<rows, los, uids, sigs, deleted, tx>>
    BY <1>1 DEF vars
  <2>. QED BY ZenonT(20), <2>1 DEF AgreeInv, TablesAgree, Deleted, Unlinked, RowsApart, RowsOf
<1>2. ASSUME NEW c \in Conn, NEW k \in Submitted, Submits(c, k) PROVE AgreeInv'
  BY ZenonT(20), <1>2, PgAssumption, BlankForms, BlankAgrees DEF Submits, Begin, tables
<1>3. ASSUME NEW c \in Conn, NEW f \in {FpOf(k) : k \in Submitted}, Deletes(c, f) PROVE AgreeInv'
  <2>1. f \in Fp
    BY PgAssumption, KeyAssumption
  <2>. QED BY ZenonT(20), <1>3, <2>1, BlankForms, BlankAgrees DEF Deletes, Begin, tables
<1>4. ASSUME NEW c \in Conn, RollsBack(c) PROVE AgreeInv'
  BY ZenonT(20), <1>4, BlankForms, BlankAgrees DEF RollsBack, tables, history
<1>5. ASSUME NEW c \in Conn, Fails(c) PROVE AgreeInv'
  BY <1>5, AbortsAgrees DEF Fails, tables, history
<1>. QED BY <1>1, <1>2, <1>3, <1>4, <1>5, SelectsAgrees, ReadsAgrees, InsertsAgrees,
            FindsAgrees, UnlinksAgrees, DeletesSigsAgrees, DeletesUidsAgrees,
            DeletesKeysAgrees, CommitsAgrees DEF Next

\* keydb_pg.c: for any number of connections and keys, whichever statements fail,
\* the three tables and the large objects tell of the same contents (TablesAgree).
THEOREM PgTablesAgree == Spec => []TablesAgree
<1>1. Init => PgInv
  BY PgInit
<1>2. Init => AgreeInv
  <2>1. Idle.delsigs = {} /\ Idle.deluids = {}
    BY DEF Idle
  <2>. QED BY <2>1, IdleType DEF Init, AgreeInv, TablesAgree, Deleted, Unlinked, RowsApart, RowsOf
<1>3. PgInv /\ AgreeInv /\ [Next]_vars => PgInv' /\ AgreeInv'
  BY PgStep, AgreeStep
<1>4. AgreeInv => TablesAgree
  BY ZenonT(20) DEF AgreeInv
<1>. QED BY <1>1, <1>2, <1>3, <1>4, PTL DEF Spec

-----------------------------------------------------------------------------
(* Nothing is lost *)

\* Merging what leaves nothing over changes nothing (merge_keys on keys whose
\* signatures dedupe_sigs leaves as they are).
MergeOfNothing ==
    \A k, l \in Key : FpOf(k) = FpOf(l) /\ ~Changes(k, l) => Merge(k, l) = k

\* What key f is to be once k is stored.
With(f, k) == IF expect[f] = NoKey THEN k ELSE Merge(expect[f], k)

\* What a transaction knows of a key that no other worked on at the same time.
Sole(t) ==
    /\ t.key # NoKey => t.sub \in Key /\ FpOf(t.sub) = t.fp
    /\ t.at = "select" => t.key = t.sub
    /\ t.at \notin {"idle", "aborted"} /\ t.fp \notin overlap =>
         /\ t.at = "read" => t.sel = rows[t.fp]
         /\ t.key # NoKey /\ t.at \notin {"select", "read"} => t.key = With(t.fp, t.sub)
         /\ t.at = "commit" /\ t.new = NoOid => rows[t.fp] \in t.delkeys \cup {NoOid}

\* Two transactions on one key.
Met(t, u) == t.at # "idle" /\ u.at # "idle" /\ t.fp = u.fp => t.fp \in overlap

LostInv == /\ NothingLost
           /\ expect \in [Fp -> Key \cup {NoKey}]
           /\ \A f \in Fp : expect[f] # NoKey => FpOf(expect[f]) = f
           /\ \A c \in Conn : Sole(tx[c])
           /\ \A c, d \in Conn : c # d => Met(tx[c], tx[d])

\* A step of one transaction that others do not see.
LEMMA LocalKeeps ==
    ASSUME PgInv, LostInv, NEW c \in Conn, NEW t \in Txs,
           tx' = [tx EXCEPT ![c] = t],
           UNCHANGED <<rows, los, expect, overlap>>,
           Sole(t),
           t.at # "idle" => tx[c].at # "idle" /\ t.fp = tx[c].fp
    PROVE  LostInv'
<1>1. \A d \in Conn : tx'[d] = IF d = c THEN t ELSE tx[d]
  BY ZenonT(20) DEF PgInv, Types
<1>2. NothingLost'
  BY DEF LostInv, NothingLost, Contents
<1>3. ASSUME NEW d \in Conn PROVE Sole(tx[d])'
  <2>1. Sole(tx'[d])
    BY ZenonT(20), <1>1 DEF LostInv
  <2>2. rows' = rows /\ expect' = expect /\ overlap' = overlap
    BY ZenonT(20)
  <2>3. \A f, k : With(f, k)' = With(f, k)
    BY ZenonT(20), <2>2 DEF With
  <2>. QED BY ZenonT(20), <2>1, <2>2, <2>3 DEF Sole
<1>4. ASSUME NEW d \in Conn, NEW e \in Conn, d # e PROVE Met(tx[d], tx[e])'
  BY SMTT(30), <1>1, <1>4 DEF LostInv, Met
<1>. QED BY ZenonT(20), <1>2, <1>3, <1>4 DEF LostInv

\* A transaction that has nothing to store.
LEMMA BlankSole ==
    ASSUME NEW t, Blank(t)
    PROVE  Sole(t)
BY DEF Blank, Sole, Txs

\* A statement that fails.
LEMMA AbortsKeeps ==
    ASSUME PgInv, LostInv, NEW c \in Conn, tx[c].at # "idle", Aborts(c),
           UNCHANGED <<rows, los, expect, overlap>>
    PROVE  LostInv'
<1>. DEFINE t == [Idle EXCEPT !.at = "aborted", !.fp = tx[c].fp]
<1>1. tx[c].fp \in Fp
  BY ZenonT(20) DEF PgInv, Own
<1>2. Blank(t) /\ t \in Txs
  BY ZenonT(20), <1>1, BlankForms DEF Blank
<1>3. t.fp = tx[c].fp /\ tx' = [tx EXCEPT ![c] = t]
  BY DEF Aborts, Goes, Idle
<1>. HIDE DEF t
<1>. QED BY ZenonT(20), <1>2, <1>3, BlankSole, LocalKeeps

\* BEGIN: a transaction that finds another at work on its key is noted.
LEMMA BeginKeeps ==
    ASSUME PgInv, LostInv, NEW c \in Conn, NEW f \in Fp, NEW t, Blank(t), t.fp = f,
           Begin(c, f, t)
    PROVE  LostInv'
<1>1. /\ \A d \in Conn : tx'[d] = IF d = c THEN t ELSE tx[d]
      /\ tx[c].at = "idle" /\ overlap \subseteq overlap'
      /\ (\E d \in Conn \ {c} : tx[d].at # "idle" /\ tx[d].fp = f) => f \in overlap'
      /\ UNCHANGED <<rows, los, expect>>
  BY DEF Begin, Goes, PgInv, Types, tables, Others
<1>2. NothingLost'
  BY ZenonT(20), <1>1 DEF LostInv, NothingLost, Contents
<1>3. ASSUME NEW d \in Conn PROVE Sole(tx[d])'
  <2>1. Sole(tx'[d])
    BY ZenonT(20), <1>1, BlankSole DEF LostInv
  <2>. QED BY ZenonT(20), <1>1, <2>1 DEF Sole, With
<1>4. ASSUME NEW d \in Conn, NEW e \in Conn, d # e PROVE Met(tx[d], tx[e])'
  BY ZenonT(20), <1>1, <1>4 DEF LostInv, Met
<1>. QED BY ZenonT(20), <1>1, <1>2, <1>3, <1>4 DEF LostInv

\* A rollback.
LEMMA RollsBackKeeps ==
    ASSUME PgInv, LostInv, NEW c \in Conn, RollsBack(c)
    PROVE  LostInv'
BY ZenonT(20), IdleType, BlankForms, BlankSole, LocalKeeps DEF RollsBack, Goes, tables, history

\* The SELECT of fetch_key_id: without a row the submitted key is all there is.
LEMMA SelectsKeeps ==
    ASSUME PgInv, LostInv, NEW c \in Conn, Selects(c)
    PROVE  LostInv'
<1>. DEFINE o == rows[tx[c].fp]
            t == [tx[c] EXCEPT !.at = IF o = NoOid THEN "insert" ELSE "read", !.sel = o]
<1>1. /\ tx[c] \in Txs /\ Own(tx[c], used) /\ tx[c].at = "select" /\ tx[c].fp \in Fp
      /\ o \in Oid \cup {NoOid} /\ Sole(tx[c])
  BY DEF PgInv, LostInv, Types, Own, Selects
<1>2. /\ t \in Txs /\ t.at = (IF o = NoOid THEN "insert" ELSE "read") /\ t.sel = o
      /\ t.fp = tx[c].fp /\ t.sub = tx[c].sub /\ t.key = tx[c].key
  BY <1>1, ZenonT(60) DEF Txs
<1>3. tx' = [tx EXCEPT ![c] = t] /\ UNCHANGED <<rows, los, expect, overlap>>
  BY DEF Selects, Goes, tables, history
<1>. HIDE DEF t
<1>4. o = NoOid /\ tx[c].fp \notin overlap => expect[tx[c].fp] = NoKey
  BY ZenonT(20), <1>1 DEF LostInv, NothingLost, Contents
<1>5. Sole(t)
  BY ZenonT(20), <1>1, <1>2, <1>4 DEF Sole, With
<1>. QED BY ZenonT(20), <1>1, <1>2, <1>3, <1>5, LocalKeeps

\* The SELECT of delete_key.
LEMMA FindsKeeps ==
    ASSUME PgInv, LostInv, NEW c \in Conn, Finds(c)
    PROVE  LostInv'
<1>. DEFINE o == rows[tx[c].fp]
            t == [tx[c] EXCEPT !.at = "unlink", !.sel = o]
<1>1. /\ tx[c] \in Txs /\ tx[c].at = "find" /\ tx[c].fp \in Fp
      /\ o \in Oid \cup {NoOid} /\ Sole(tx[c])
  BY DEF PgInv, LostInv, Types, Own, Finds
<1>2. /\ t \in Txs /\ t.at = "unlink"
      /\ t.fp = tx[c].fp /\ t.sub = tx[c].sub /\ t.key = tx[c].key
  BY ZenonT(20), <1>1 DEF Txs
<1>3. tx' = [tx EXCEPT ![c] = t] /\ UNCHANGED <<rows, los, expect, overlap>>
  BY DEF Finds, Goes, tables, history
<1>. HIDE DEF t
<1>4. Sole(t)
  BY ZenonT(20), <1>1, <1>2 DEF Sole
<1>. QED BY ZenonT(20), <1>1, <1>2, <1>3, <1>4, LocalKeeps

\* lo_unlink.
LEMMA UnlinksKeeps ==
    ASSUME PgInv, LostInv, NEW c \in Conn, Unlinks(c)
    PROVE  LostInv'
<1>. DEFINE o == tx[c].sel
            t == [tx[c] EXCEPT !.at = "delsigs"]
            u == [tx[c] EXCEPT !.at = "delsigs", !.unlinked = {o}]
<1>1. /\ tx[c] \in Txs /\ tx[c].at = "unlink" /\ Sole(tx[c])
      /\ UNCHANGED <<rows, los, expect, overlap>>
  BY ZenonT(20) DEF PgInv, LostInv, Types, Unlinks, tables, history
<1>2. CASE Aborts(c)
  BY ZenonT(20), <1>1, <1>2, AbortsKeeps
<1>3. CASE Goes(c, t)
  <2>1. /\ t \in Txs /\ t.at = "delsigs"
        /\ t.fp = tx[c].fp /\ t.sub = tx[c].sub /\ t.key = tx[c].key
    BY <1>1 DEF Txs
  <2>2. tx' = [tx EXCEPT ![c] = t]
    BY <1>3 DEF Goes
  <2>. HIDE DEF t
  <2>3. Sole(t)
    BY ZenonT(20), <1>1, <2>1 DEF Sole
  <2>. QED BY ZenonT(20), <1>1, <2>1, <2>2, <2>3, LocalKeeps
<1>4. CASE o # NoOid /\ Goes(c, u)
  <2>1. /\ u \in Txs /\ u.at = "delsigs"
        /\ u.fp = tx[c].fp /\ u.sub = tx[c].sub /\ u.key = tx[c].key
    BY ZenonT(20), <1>1, <1>4 DEF Txs
  <2>2. tx' = [tx EXCEPT ![c] = u]
    BY <1>4 DEF Goes
  <2>. HIDE DEF u
  <2>3. Sole(u)
    BY ZenonT(20), <1>1, <2>1 DEF Sole
  <2>. QED BY ZenonT(20), <1>1, <2>1, <2>2, <2>3, LocalKeeps
<1>. QED BY <1>2, <1>3, <1>4 DEF Unlinks

\* DELETE FROM onak_sigs.
LEMMA DeletesSigsKeeps ==
    ASSUME PgInv, LostInv, NEW c \in Conn, DeletesSigs(c)
    PROVE  LostInv'
<1>. DEFINE t == [tx[c] EXCEPT !.at = "deluids", !.delsigs = RowsOf(sigs, tx[c].fp)]
<1>1. /\ tx[c] \in Txs /\ tx[c].at = "delsigs" /\ Sole(tx[c])
      /\ RowsOf(sigs, tx[c].fp) \subseteq Fp \X Oid
  BY DEF PgInv, LostInv, Types, DeletesSigs, RowsOf
<1>2. /\ t \in Txs /\ t.at = "deluids"
      /\ t.fp = tx[c].fp /\ t.sub = tx[c].sub /\ t.key = tx[c].key
  BY ZenonT(20), <1>1 DEF Txs
<1>3. tx' = [tx EXCEPT ![c] = t] /\ UNCHANGED <<rows, los, expect, overlap>>
  BY DEF DeletesSigs, Goes, tables, history
<1>. HIDE DEF t
<1>4. Sole(t)
  BY ZenonT(20), <1>1, <1>2 DEF Sole
<1>. QED BY ZenonT(20), <1>1, <1>2, <1>3, <1>4, LocalKeeps

\* DELETE FROM onak_uids.
LEMMA DeletesUidsKeeps ==
    ASSUME PgInv, LostInv, NEW c \in Conn, DeletesUids(c)
    PROVE  LostInv'
<1>. DEFINE t == [tx[c] EXCEPT !.at = "delkeys", !.deluids = RowsOf(uids, tx[c].fp)]
<1>1. /\ tx[c] \in Txs /\ tx[c].at = "deluids" /\ Sole(tx[c])
      /\ RowsOf(uids, tx[c].fp) \subseteq Fp \X Oid
  BY DEF PgInv, LostInv, Types, DeletesUids, RowsOf
<1>2. /\ t \in Txs /\ t.at = "delkeys"
      /\ t.fp = tx[c].fp /\ t.sub = tx[c].sub /\ t.key = tx[c].key
  BY ZenonT(20), <1>1 DEF Txs
<1>3. tx' = [tx EXCEPT ![c] = t] /\ UNCHANGED <<rows, los, expect, overlap>>
  BY DEF DeletesUids, Goes, tables, history
<1>. HIDE DEF t
<1>4. Sole(t)
  BY ZenonT(20), <1>1, <1>2 DEF Sole
<1>. QED BY ZenonT(20), <1>1, <1>2, <1>3, <1>4, LocalKeeps

\* DELETE FROM onak_keys.
LEMMA DeletesKeysKeeps ==
    ASSUME PgInv, LostInv, NEW c \in Conn, DeletesKeys(c)
    PROVE  LostInv'
<1>. DEFINE f == tx[c].fp
            s == IF tx[c].key = NoKey THEN "commit" ELSE "insert"
            g == {rows[f]} \ {NoOid}
            t == [tx[c] EXCEPT !.at = s, !.delkeys = g]
<1>1. /\ tx[c] \in Txs /\ tx[c].at = "delkeys" /\ f \in Fp /\ Sole(tx[c])
      /\ rows[f] \in Oid \cup {NoOid}
      /\ UNCHANGED <<rows, los, expect, overlap>>
  BY DEF PgInv, LostInv, Types, Own, DeletesKeys, tables, history
<1>2. CASE Aborts(c)
  BY ZenonT(20), <1>1, <1>2, AbortsKeeps
<1>3. CASE Goes(c, t)
  <2>1. s \in {"commit", "insert"} /\ g \subseteq Oid /\ rows[f] \in g \cup {NoOid}
    BY <1>1
  <2>. HIDE DEF s, g
  <2>2. /\ t \in Txs /\ t.at \in {"commit", "insert"} /\ t.delkeys = g
        /\ t.fp = f /\ t.sub = tx[c].sub /\ t.key = tx[c].key
    BY ZenonT(20), <1>1, <2>1 DEF Txs
  <2>3. tx' = [tx EXCEPT ![c] = t]
    BY <1>3 DEF Goes, s, g
  <2>. HIDE DEF t
  <2>4. Sole(t)
    BY ZenonT(20), <1>1, <2>1, <2>2 DEF Sole
  <2>. QED BY ZenonT(20), <1>1, <2>2, <2>3, <2>4, LocalKeeps
<1>. QED BY <1>2, <1>3 DEF DeletesKeys

\* The INSERTs.
LEMMA InsertsKeeps ==
    ASSUME PgInv, LostInv, NEW c \in Conn, Inserts(c)
    PROVE  LostInv'
<1>. DEFINE t == [tx[c] EXCEPT !.at = "commit", !.new = LoCreat]
<1>1. /\ tx[c] \in Txs /\ tx[c].at = "insert" /\ Sole(tx[c])
      /\ UNCHANGED <<rows, los, expect, overlap>>
  BY DEF PgInv, LostInv, Types, Inserts, history
<1>2. CASE Aborts(c)
  BY <1>1, <1>2, AbortsKeeps
<1>3. CASE Goes(c, t)
  <2>1. LoCreat \in Oid
    BY DEF Inserts, LoCreat
  <2>2. /\ t \in Txs /\ t.at = "commit" /\ t.new = LoCreat
        /\ t.fp = tx[c].fp /\ t.sub = tx[c].sub /\ t.key = tx[c].key
    BY ZenonT(20), <1>1, <2>1 DEF Txs
  <2>3. tx' = [tx EXCEPT ![c] = t]
    BY <1>3 DEF Goes
  <2>. HIDE DEF t
  <2>4. Sole(t)
    BY ZenonT(20), <1>1, <2>1, <2>2, PgAssumption DEF Sole
  <2>. QED BY ZenonT(20), <1>1, <2>2, <2>3, <2>4, LocalKeeps
<1>. QED BY <1>2, <1>3 DEF Inserts

\* The large object is read and merged.  When nothing is left over, what was
\* expected of the key is still what is expected of it.
LEMMA ReadsKeeps ==
    ASSUME MergeOfNothing, PgInv, LostInv, NEW c \in Conn, Reads(c)
    PROVE  LostInv'
<1>. DEFINE old == los[tx[c].sel]
            k == tx[c].sub
            f == tx[c].fp
            t == [tx[c] EXCEPT !.at = "find", !.key = Merge(old, k), !.sel = NoOid]
<1>1. /\ tx[c] \in Txs /\ Own(tx[c], used) /\ tx[c].at = "read" /\ Sole(tx[c])
      /\ UNCHANGED <<rows, los, overlap>>
  BY DEF PgInv, LostInv, Types, Reads, tables
<1>2. /\ tx[c].sel \in Oid /\ k \in Key /\ FpOf(k) = f /\ f \in Fp
      /\ f \notin overlap => tx[c].sel = rows[f]
  BY ZenonT(20), <1>1 DEF Own, Sole, Txs
<1>3. old # NoKey => old \in Key /\ FpOf(old) = f
  BY ZenonT(20), <1>1, <1>2, PgAssumption DEF PgInv, Types, Own
<1>4. f \notin overlap => expect[f] = old
  BY ZenonT(20), <1>2, PgAssumption DEF LostInv, NothingLost, Contents
<1>5. CASE Aborts(c) /\ UNCHANGED expect
  BY ZenonT(20), <1>1, <1>5, AbortsKeeps
<1>6. CASE old # NoKey /\ Goes(c, t) /\ UNCHANGED expect
  <2>1. Merge(old, k) \in Key /\ FpOf(Merge(old, k)) = f
    BY <1>2, <1>3, <1>6, MergeAssumption
  <2>2. /\ t \in Txs /\ t.at = "find" /\ t.key = Merge(old, k)
        /\ t.fp = f /\ t.sub = k
    BY ZenonT(20), <1>1, <2>1 DEF Txs
  <2>3. tx' = [tx EXCEPT ![c] = t]
    BY <1>6 DEF Goes
  <2>. HIDE DEF t
  <2>4. Sole(t)
    BY ZenonT(20), <1>2, <1>4, <1>6, <2>2 DEF Sole, With
  <2>. QED BY ZenonT(20), <1>1, <1>6, <2>2, <2>3, <2>4, LocalKeeps
<1>7. CASE old # NoKey /\ ~Changes(old, k) /\ Goes(c, Idle) /\ expect' = Expected(k)
  <2>1. expect' = [expect EXCEPT ![f] = With(f, k)]
    BY ZenonT(20), <1>2, <1>7 DEF Expected, With, LostInv
  <2>2. With(f, k) \in Key /\ FpOf(With(f, k)) = f
    BY <1>2, MergeAssumption DEF With, LostInv
  <2>3. f \notin overlap => With(f, k) = expect[f]
    BY ZenonT(20), <1>2, <1>3, <1>4, <1>7 DEF With, MergeOfNothing
  <2>4. /\ expect' \in [Fp -> Key \cup {NoKey}]
        /\ \A g \in Fp : expect'[g] # NoKey => FpOf(expect'[g]) = g
        /\ \A g \in Fp \ overlap : expect'[g] = expect[g]
    BY ZenonT(20), <1>2, <2>1, <2>2, <2>3 DEF LostInv
  <2>5. \A d \in Conn : tx'[d] = IF d = c THEN Idle ELSE tx[d]
    BY ZenonT(20), <1>7 DEF PgInv, Types, Goes
  <2>6. NothingLost'
    BY <1>1, <2>4 DEF LostInv, NothingLost, Contents
  <2>7. ASSUME NEW d \in Conn PROVE Sole(tx[d])'
    <3>1. CASE d = c
      BY <2>5, <3>1, IdleType DEF Sole
    <3>2. CASE d # c
      <4>1. tx'[d] = tx[d] /\ Sole(tx[d]) /\ (tx[d].at # "idle" => tx[d].fp \in Fp)
        BY ZenonT(20), <2>5, <3>2 DEF LostInv, PgInv, Own
      <4>. QED BY ZenonT(20), <1>1, <2>4, <4>1 DEF Sole, With
    <3>. QED BY ZenonT(20), <3>1, <3>2
  <2>8. ASSUME NEW d \in Conn, NEW e \in Conn, d # e PROVE Met(tx[d], tx[e])'
    BY ZenonT(20), <1>1, <2>5, <2>8, IdleType DEF LostInv, Met
  <2>. QED BY ZenonT(20), <2>4, <2>6, <2>7, <2>8 DEF LostInv
<1>. QED BY <1>5, <1>6, <1>7 DEF Reads

\* COMMIT: what is stored is what is expected, and the other keys are untouched.
LEMMA CommitsKeeps ==
    ASSUME PgInv, LostInv, NEW c \in Conn, Commits(c)
    PROVE  LostInv'
<1>. DEFINE t == tx[c]
            f == t.fp
            now == IF t.new # NoOid THEN t.new
                   ELSE IF rows[f] \in t.delkeys THEN NoOid ELSE rows[f]
            then == IF t.new = NoOid THEN NoKey ELSE With(f, t.sub)
<1>1. /\ t \in Txs /\ Own(t, used) /\ t.at = "commit" /\ f \in Fp /\ Sole(t)
  BY ZenonT(20) DEF PgInv, LostInv, Types, Own, Commits
<1>2. /\ t.new # NoOid => /\ t.new \in Oid /\ t.key # NoKey /\ t.sub \in Key /\ FpOf(t.sub) = f
      /\ \A o \in t.unlinked : o \in Oid /\ FpOf(los[o]) = f
  BY ZenonT(20), <1>1 DEF Own, Sole, Txs
<1>3. /\ rows' = [rows EXCEPT ![f] = now]
      /\ \A o \in Oid : los'[o] = IF o = t.new THEN t.key
                                  ELSE IF o \in t.unlinked THEN NoKey ELSE los[o]
      /\ overlap' = overlap
      /\ \A d \in Conn : tx'[d] = IF d = c THEN Idle ELSE tx[d]
  BY ZenonT(20) DEF Commits, Goes, PgInv, Types
<1>4. expect' = [expect EXCEPT ![f] = then]
  BY ZenonT(20), <1>1, <1>2 DEF Commits, Expected, With, LostInv
<1>5. then # NoKey => then \in Key /\ FpOf(then) = f
  <2>1. CASE t.new = NoOid
    BY ZenonT(20), <2>1
  <2>2. CASE t.new # NoOid /\ expect[f] = NoKey
    BY ZenonT(20), <1>2, <2>2 DEF With
  <2>3. CASE t.new # NoOid /\ expect[f] # NoKey
    <3>1. expect[f] \in Key /\ FpOf(expect[f]) = f
      BY ZenonT(20), <1>1, <2>3 DEF LostInv
    <3>2. Merge(expect[f], t.sub) \in Key /\ FpOf(Merge(expect[f], t.sub)) = f
      BY ZenonT(20), <1>2, <2>3, <3>1, MergeAssumption
    <3>. QED BY ZenonT(20), <2>3, <3>2 DEF With
  <2>. QED BY ZenonT(20), <2>1, <2>2, <2>3
<1>6. rows'[f] = now /\ \A g \in Fp : g # f => rows'[g] = rows[g]
  BY ZenonT(20), <1>1, <1>3 DEF PgInv, Types
<1>7. t.new # NoOid => los'[t.new] = t.key
  BY ZenonT(20), <1>2, <1>3
<1>8. f \notin overlap => (t.new # NoOid => t.key = then) /\ (t.new = NoOid => now = NoOid)
  BY ZenonT(20), <1>1, <1>2 DEF Sole
<1>. HIDE DEF now, then
<1>9. /\ expect' \in [Fp -> Key \cup {NoKey}]
      /\ expect'[f] = then /\ \A g \in Fp : g # f => expect'[g] = expect[g]
      /\ \A g \in Fp : expect'[g] # NoKey => FpOf(expect'[g]) = g
  BY ZenonT(20), <1>1, <1>4, <1>5 DEF LostInv
<1>10. ASSUME NEW g \in Fp \ overlap PROVE Contents(g)' = expect'[g]
  <2>1. CASE g = f /\ t.new = NoOid
    <3>1. rows'[f] = NoOid /\ expect'[f] = NoKey
      BY ZenonT(20), <1>3, <1>6, <1>8, <1>9, <2>1 DEF then
    <3>. QED BY <2>1, <3>1 DEF Contents
  <2>2. CASE g = f /\ t.new # NoOid
    <3>1. rows'[f] = t.new /\ los'[t.new] = expect'[f]
      BY ZenonT(20), <1>3, <1>6, <1>7, <1>8, <1>9, <2>2 DEF now
    <3>. QED BY <2>2, <3>1 DEF Contents
  <2>3. CASE g # f
    <3>1. rows'[g] = rows[g] /\ expect'[g] = expect[g] /\ Contents(g) = expect[g]
      BY <1>6, <1>9, <2>3 DEF LostInv, NothingLost
    <3>2. rows[g] # NoOid => los'[rows[g]] = los[rows[g]]
      <4>1. SUFFICES ASSUME rows[g] # NoOid PROVE los'[rows[g]] = los[rows[g]]
        OBVIOUS
      <4>2. /\ rows[g] \in Oid /\ FpOf(los[rows[g]]) = g /\ (t.new # NoOid => t.new # rows[g])
        BY ZenonT(20), <4>1, RowInUse DEF PgInv, Types
      <4>3. rows[g] # t.new /\ rows[g] \notin t.unlinked
        BY ZenonT(20), <1>2, <2>3, <4>1, <4>2
      <4>. QED BY ZenonT(20), <1>3, <4>2, <4>3
    <3>. QED BY ZenonT(20), <3>1, <3>2 DEF Contents
  <2>. QED BY ZenonT(20), <2>1, <2>2, <2>3
<1>11. NothingLost'
  BY <1>3, <1>10 DEF NothingLost
<1>12. ASSUME NEW d \in Conn PROVE Sole(tx[d])'
  <2>1. CASE d = c
    BY <1>3, <2>1, IdleType DEF Sole
  <2>2. CASE d # c
    <3>1. /\ tx'[d] = tx[d] /\ Sole(tx[d]) /\ (tx[d].at # "idle" => tx[d].fp \in Fp)
          /\ tx[d].at # "idle" /\ tx[d].fp \notin overlap => tx[d].fp # f
      BY ZenonT(20), <1>1, <1>3, <2>2 DEF LostInv, PgInv, Own, Met
    <3>2. tx[d].at # "idle" /\ tx[d].fp \notin overlap =>
              rows'[tx[d].fp] = rows[tx[d].fp] /\ expect'[tx[d].fp] = expect[tx[d].fp]
      BY ZenonT(20), <1>6, <1>9, <3>1
    <3>. QED BY ZenonT(20), <1>3, <3>1, <3>2 DEF Sole, With
  <2>. QED BY ZenonT(20), <2>1, <2>2
<1>13. ASSUME NEW d \in Conn, NEW e \in Conn, d # e PROVE Met(tx[d], tx[e])'
  BY SMTT(30), <1>3, <1>13, IdleType DEF LostInv, Met
<1>. QED BY ZenonT(20), <1>9, <1>11, <1>12, <1>13 DEF LostInv

\* All steps together.
LEMMA LostStep ==
    ASSUME MergeOfNothing, PgInv, LostInv, [Next]_vars
    PROVE  LostInv'
<1>1. CASE UNCHANGED vars
  <2>1. UNCHANGED <<rows, los, expect, overlap, tx>>
    BY <1>1 DEF vars
  <2>. QED BY ZenonT(20), <2>1 DEF LostInv, NothingLost, Contents, Sole, With, Met
<1>2. ASSUME NEW c \in Conn, NEW k \in Submitted, Submits(c, k) PROVE LostInv'
  <2>. DEFINE t == [Idle EXCEPT !.at = "select", !.fp = FpOf(k), !.sub = k, !.key = k]
  <2>1. k \in Key /\ FpOf(k) \in Fp
    BY PgAssumption, KeyAssumption
  <2>2. Blank(t) /\ t.fp = FpOf(k)
    BY ZenonT(20), <2>1, BlankForms DEF Idle
  <2>. QED BY ZenonT(20), <1>2, <2>1, <2>2, BeginKeeps DEF Submits
<1>3. ASSUME NEW c \in Conn, NEW f \in {FpOf(k) : k \in Submitted}, Deletes(c, f) PROVE LostInv'
  <2>. DEFINE t == [Idle EXCEPT !.at = "find", !.fp = f]
  <2>1. f \in Fp
    BY PgAssumption, KeyAssumption
  <2>2. Blank(t) /\ t.fp = f
    BY ZenonT(20), <2>1, BlankForms DEF Idle
  <2>. QED BY ZenonT(20), <1>3, <2>1, <2>2, BeginKeeps DEF Deletes
<1>4. ASSUME NEW c \in Conn, Fails(c) PROVE LostInv'
  BY ZenonT(20), <1>4, AbortsKeeps DEF Fails, tables, history
<1>. QED BY <1>1, <1>2, <1>3, <1>4, RollsBackKeeps, SelectsKeeps, ReadsKeeps, InsertsKeeps,
            FindsKeeps, UnlinksKeeps, DeletesSigsKeeps, DeletesUidsKeeps,
            DeletesKeysKeeps, CommitsKeeps DEF Next

\* keydb_pg.c: whichever statements fail and whichever connections are lost, a
\* key that no two transactions worked on at a time is the merge of all that was
\* committed since its last deletion (NothingLost).
THEOREM PgNothingLost ==
    ASSUME MergeOfNothing
    PROVE  Spec => []NothingLost
<1>1. Init => PgInv
  BY PgInit
<1>2. Init => LostInv
  BY ZenonT(20), IdleType, BlankForms, BlankSole DEF Init, LostInv, NothingLost, Contents, Met
<1>3. PgInv /\ LostInv /\ [Next]_vars => PgInv' /\ LostInv'
  BY PgStep, LostStep
<1>4. LostInv => NothingLost
  BY DEF LostInv
<1>. QED BY <1>1, <1>2, <1>3, <1>4, PTL DEF Spec
=============================================================================
