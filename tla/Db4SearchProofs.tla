--------------------------- MODULE Db4SearchProofs ---------------------------
(***************************************************************************)
(* Proofs about Db4Search, for every number of processes, files, keys and  *)
(* words: the upgrade of an old store, the deletes that are counted and    *)
(* the answers of the queries.                                             *)
(*                                                                         *)
(* The argument: who upgrades has the lock file; who deletes a key has     *)
(* read it under a lock that no other transaction can take to write; and   *)
(* what is asked of the keys is in the history of the query, so a key that *)
(* has it all the time is in the list, or still to come, after every step. *)
(***************************************************************************)
EXTENDS Db4Search, FiniteSetTheorems, TLAPS

-----------------------------------------------------------------------------
(* The upgrade *)

Upgrading(p) == at[p] \in {"remove", "upgrade"}

\* Who upgrades has the lock file, which there is once; nobody has gone further
\* through the files than they are upgraded when all of them are.
UpgradeInv ==
    /\ at \in [Proc -> {"stat", "env", "lock", "remove", "upgrade", "wait", "reopen", "files",
                     "running", "gone"}]
    /\ place \in [Proc -> Nat]
    /\ files \in Nat
    /\ files <= NumFiles
    /\ lock \in BOOLEAN
    /\ \A p \in Proc : Upgrading(p) => lock = TRUE
    /\ \A p, q \in Proc : Upgrading(p) /\ Upgrading(q) => p = q
    /\ \A p \in Proc : at[p] = "running" => files = NumFiles

\* A process ends, and nothing else changes of what UpgradeInv says.
Ends(p) == To(p, "gone") /\ UNCHANGED <<lock, files, place>>

\* Of a step of Db4Search the upgrade sees a step of Db4Open or the end of a
\* process.
LEMMA StepsOfOpen ==
    ASSUME [Next]_vars
    PROVE  OpenNext \/ (\E p \in Proc : Ends(p)) \/ UNCHANGED openvars
<1>1. CASE \E p \in Proc : OpStep(p)
  <2> PICK p \in Proc : OpStep(p)
    BY ZenonT(20), <1>1
  <2> QED
    BY ZenonT(20) DEF OpStep, Gets, Passes, FetchesList, LooksUp, FetchesHash, Visits, Finds,
                      Removes, Reads, Writes, Goes, openvars
<1>2. CASE \E p \in Proc : OpStarts(p)
  <2> PICK p \in Proc : OpStarts(p)
    BY <1>2
  <2> QED
    BY ZenonT(20) DEF OpStarts, Searches, HashStarts, WalkStarts, DeleteStarts, UpdateStarts,
                      Starts, openvars
<1>3. CASE \E p \in Proc : VisitFails(p)
  BY <1>3 DEF VisitFails, Goes, openvars
<1>4. CASE Detects
  BY ZenonT(20), <1>4 DEF Detects, Ends
<1>5. CASE UNCHANGED vars
  BY ZenonT(20), <1>5 DEF vars, openvars
<1> QED
  BY ZenonT(20), <1>1, <1>2, <1>3, <1>4, <1>5 DEF Next

\* keydb_db4_init and db4_upgradedb keep it.
LEMMA UpgradeStep ==
    ASSUME UpgradeInv, [Next]_vars
    PROVE  UpgradeInv'
<1> USE FilesAssumption DEF UpgradeInv, Upgrading, To
<1>1. CASE UNCHANGED openvars
  BY ZenonT(20), <1>1 DEF openvars
<1>2. CASE \E p \in Proc : Ends(p)
  BY ZenonT(20), <1>2 DEF Ends
<1>3. ASSUME NEW p \in Proc, Stats(p) PROVE UpgradeInv'
  BY ZenonT(20), <1>3 DEF Stats
<1>4. ASSUME NEW p \in Proc, OpensEnv(p) PROVE UpgradeInv'
  BY ZenonT(20), <1>4 DEF OpensEnv
<1>5. ASSUME NEW p \in Proc, Locks(p) PROVE UpgradeInv'
  BY ZenonT(20), <1>5 DEF Locks
<1>6. ASSUME NEW p \in Proc, LockFails(p) PROVE UpgradeInv'
  BY ZenonT(20), <1>6 DEF LockFails
<1>7. ASSUME NEW p \in Proc, RemovesEnv(p) PROVE UpgradeInv'
  BY ZenonT(20), <1>7 DEF RemovesEnv
<1>8. ASSUME NEW p \in Proc, Upgrades(p) PROVE UpgradeInv'
  BY <1>8 DEF Upgrades
<1>9. ASSUME NEW p \in Proc, Unlocks(p) PROVE UpgradeInv'
  BY ZenonT(20), <1>9 DEF Unlocks
<1>10. ASSUME NEW p \in Proc, Waits(p) PROVE UpgradeInv'
  BY <1>10 DEF Waits
<1>11. ASSUME NEW p \in Proc, Reopens(p) PROVE UpgradeInv'
  BY <1>11 DEF Reopens
<1>12. ASSUME NEW p \in Proc, OpensFiles(p) PROVE UpgradeInv'
  BY <1>12 DEF OpensFiles
<1>13. ASSUME NEW p \in Proc, Closes(p) PROVE UpgradeInv'
  BY <1>13 DEF Closes
<1>14. ASSUME NEW p \in Proc, Dies(p) PROVE UpgradeInv'
  BY ZenonT(20), <1>14 DEF Dies
<1> HIDE FilesAssumption DEF UpgradeInv, Upgrading, To
<1>15. CASE OpenNext
  <2> PICK p \in Proc : OpenStep(p) \/ LockFails(p) \/ Closes(p) \/ Dies(p)
    BY <1>15 DEF OpenNext
  <2> QED
    BY <1>3, <1>4, <1>5, <1>6, <1>7, <1>8, <1>9, <1>10, <1>11, <1>12, <1>13, <1>14 DEF OpenStep
<1> QED
  BY ZenonT(20), StepsOfOpen, <1>1, <1>2, <1>15

\* The inductive invariant of the upgrade holds at all times.
LEMMA UpgradeInvHolds == Spec => []UpgradeInv
<1>1. Init => UpgradeInv
  <2> SUFFICES ASSUME OpenInit PROVE UpgradeInv
    BY DEF Init
  <2>1. files \in Nat /\ files <= NumFiles
    BY FilesAssumption DEF OpenInit
  <2>2. \A p \in Proc : at[p] = "stat"
    BY DEF OpenInit
  <2> QED
    BY ZenonT(20), <2>1, <2>2 DEF OpenInit, UpgradeInv, Upgrading
<1>2. UpgradeInv /\ [Next]_vars => UpgradeInv'
  BY UpgradeStep
<1> QED
  BY <1>1, <1>2, PTL DEF Spec

\* db4_upgradedb: however many processes find the store old at the same time,
\* and whichever die, at most one upgrades its files.
THEOREM SingleUpgrader == Spec => []OneUpgrader
<1>1. UpgradeInv => OneUpgrader
  <2> SUFFICES ASSUME UpgradeInv PROVE OneUpgrader
    OBVIOUS
  <2> DEFINE S == {p \in Proc : at[p] \in {"remove", "upgrade"}}
  <2>1. CASE S = {}
    BY <2>1, FS_EmptySet DEF OneUpgrader
  <2>2. CASE S # {}
    <3>1. PICK p \in S : TRUE
      BY ZenonT(20), <2>2
    <3>2. S = {p}
      BY ZenonT(20), <3>1 DEF UpgradeInv, Upgrading
    <3> QED
      BY <3>2, FS_Singleton DEF OneUpgrader
  <2> QED
    BY ZenonT(20), <2>1, <2>2
<1> QED
  BY <1>1, UpgradeInvHolds, PTL

\* keydb_db4_init: no process ever serves from a store one of whose files is
\* of the older version.
THEOREM NeverServesOld == Spec => []RunningOnNew
<1>1. UpgradeInv => RunningOnNew
  BY DEF UpgradeInv, RunningOnNew
<1> QED
  BY <1>1, UpgradeInvHolds, PTL

\* While a process upgrades the files no other one does, and none serves.
THEOREM UpgradeIsSafe == Spec => []UpgradeSafe
BY SingleUpgrader, NeverServesOld, PTL DEF UpgradeSafe

-----------------------------------------------------------------------------
(* The deletes that are counted *)

\* The locks a delete and an update of a known key still need, and those of an
\* update of a new one.
WriteLocks == <<W("word"), W("hash"), W("keys")>>
NewLocks == <<W("keys"), W("word"), W("hash")>>

\* What is left to get: the lock on the keys, or locks after it.
Left(r) == \/ r.need \in {WriteLocks, <<W("hash"), W("keys")>>, <<W("keys")>>, NewLocks}
           \/ /\ r.need \in {<<W("word"), W("hash")>>, <<W("hash")>>, <<>>}
              /\ W("keys") \in r.txn

\* The key has been read, or is about to be.
Read(r) == \/ r.need = <<R("keys")>>
           \/ r.need = <<>> /\ R("keys") \in r.txn

\* What a process that deletes or updates knows in each stage.
Stage(r) ==
    /\ r.stage = "find" => Read(r)
    /\ r.stage = "read" => Read(r) /\ r.f \in Fp /\ "key" \in r.tags
    /\ r.stage = "remove" => Left(r) /\ R("keys") \in r.txn /\ r.f \in Keys
    /\ r.stage = "write" => Left(r) /\ r.f \in Fp /\ r.tags # {}

\* No two transactions hold locks that conflict.
Compatible(s, t) == \A l \in s : ~Conflict(l, t)

CountInv ==
    /\ DOMAIN keys = Fp
    /\ DOMAIN run = Proc
    /\ removed \in Nat
    /\ counted = removed
    /\ \A p \in Proc : DOMAIN run[p] = DOMAIN Idle /\ Stage(run[p])
    /\ \A p, q \in Proc : p # q => Compatible(run[p].txn, run[q].txn)

\* The fields of what a process does.
LEMMA Fields ==
    DOMAIN Idle = {"op", "stage", "f", "tags", "words", "need", "txn", "cursor", "list",
                   "pos", "first", "res", "cut"}
BY ZenonT(20) DEF Idle

\* The process has let its locks go: it has ended, or goes on with a transaction
\* that has to get its first lock.
Fresh(r) ==
    /\ DOMAIN r = DOMAIN Idle
    /\ r.txn = {}
    /\ \/ r.stage \in {"pass", "fetch", "lookup", "walk", "done"}
       \/ r.stage = "find" /\ r.need = <<R("keys")>>
       \/ r.stage = "read" /\ r.need = <<R("keys")>> /\ r.f \in Fp /\ "key" \in r.tags

\* A process that does nothing.
LEMMA IdleFresh == Fresh(Idle)
BY DEF Fresh, Idle

\* The end of a transaction.
LEMMA EndedFresh ==
    ASSUME NEW r, DOMAIN r = DOMAIN Idle
    PROVE  Fresh(Ended(r))
<1>1. CASE r.op \in {"update", "delete"}
  BY ZenonT(20), <1>1, IdleFresh DEF Ended
<1>2. CASE r.op \notin {"update", "delete"}
  <2>. DEFINE e == [r EXCEPT !.stage = "done", !.txn = {}, !.cursor = {}, !.first = TRUE,
                             !.f = 0, !.pos = <<0, 0>>]
  <2>1. DOMAIN e = DOMAIN Idle /\ e.stage = "done" /\ e.txn = {}
    BY ZenonT(20), Fields
  <2>. QED BY ZenonT(20), <1>2, <2>1 DEF Ended, Fresh
<1>. QED BY ZenonT(20), <1>1, <1>2

\* fetch_key_text goes on to the next word.
LEMMA NextPassFresh ==
    ASSUME NEW r, DOMAIN r = DOMAIN Idle
    PROVE  Fresh(NextPass(r))
<1>1. CASE r.words # <<>>
  BY ZenonT(20), <1>1, Fields DEF NextPass, Fresh
<1>2. CASE r.words = <<>>
  BY ZenonT(20), <1>2, Fields DEF NextPass, Fresh
<1>. QED BY ZenonT(20), <1>1, <1>2

\* clean-aged goes on to the next key.
LEMMA NextDeleteFresh ==
    ASSUME NEW r, DOMAIN r = DOMAIN Idle
    PROVE  Fresh(NextDelete(r))
<1>1. CASE r.list = {}
  BY ZenonT(20), <1>1, EndedFresh DEF NextDelete
<1>2. CASE r.list # {}
  <2>. DEFINE m == Min(r.list)
              e == [r EXCEPT !.stage = "find", !.txn = {}, !.need = <<R("keys")>>, !.f = m,
                             !.list = @ \ {m}]
  <2>. HIDE DEF m
  <2>1. DOMAIN e = DOMAIN Idle /\ e.stage = "find" /\ e.txn = {} /\ e.need = <<R("keys")>>
    BY Fields
  <2>2. NextDelete(r) = e
    BY <1>2 DEF NextDelete, m
  <2>. QED BY ZenonT(20), <2>1, <2>2 DEF Fresh
<1>. QED BY ZenonT(20), <1>1, <1>2

\* The end of a walk.
LEMMA WalkEndsFresh ==
    ASSUME NEW r, DOMAIN r = DOMAIN Idle
    PROVE  Fresh(WalkEnds(r))
<1>1. DOMAIN [r EXCEPT !.list = r.res] = DOMAIN Idle
  BY ZenonT(20), Fields
<1>. QED BY ZenonT(20), <1>1, EndedFresh, NextDeleteFresh DEF WalkEnds

\* A step of one process that takes no lock and leaves the keys alone.
LEMMA LocalCount ==
    ASSUME CountInv, NEW p \in Proc, NEW r, run' = [run EXCEPT ![p] = r],
           DOMAIN r = DOMAIN Idle, r.txn \subseteq run[p].txn, Stage(r),
           UNCHANGED <<keys, removed, counted>>
    PROVE  CountInv'
<1>1. \A q \in Proc : run'[q] = IF q = p THEN r ELSE run[q]
  BY DEF CountInv
<1>2. DOMAIN run' = Proc
  BY ZenonT(20) DEF CountInv
<1>3. ASSUME NEW q \in Proc PROVE DOMAIN run'[q] = DOMAIN Idle /\ Stage(run[q])'
  <2>1. DOMAIN run'[q] = DOMAIN Idle /\ Stage(run'[q])
    BY ZenonT(20), <1>1 DEF CountInv
  <2>. QED BY ZenonT(20), <2>1 DEF Stage, Keys, Left, Read
<1>4. ASSUME NEW q \in Proc, NEW s \in Proc, q # s
      PROVE  Compatible(run'[q].txn, run'[s].txn)
  <2>1. run'[q].txn \subseteq run[q].txn /\ run'[s].txn \subseteq run[s].txn
    BY ZenonT(20), <1>1
  <2>2. Compatible(run[q].txn, run[s].txn)
    BY ZenonT(20), <1>4 DEF CountInv
  <2>. QED BY ZenonT(20), <2>1, <2>2 DEF Compatible, Conflict
<1>. QED BY ZenonT(20), <1>2, <1>3, <1>4 DEF CountInv, Compatible

\* In particular, one that lets its locks go.
LEMMA FreshCount ==
    ASSUME CountInv, NEW p \in Proc, NEW r, run' = [run EXCEPT ![p] = r], Fresh(r),
           UNCHANGED <<keys, removed, counted>>
    PROVE  CountInv'
<1>1. Stage(r)
  BY DEF Fresh, Stage, Read
<1>. QED BY ZenonT(20), <1>1, LocalCount DEF Fresh

\* A process gets a lock that no other transaction's lock conflicts with.
LEMMA GetsCount ==
    ASSUME CountInv, NEW p \in Proc, Gets(p)
    PROVE  CountInv'
<1>. DEFINE r == run[p]
            l == r.need[1]
            e == run'[p]
<1>1. DOMAIN r = DOMAIN Idle /\ Stage(r) /\ r.need # <<>> /\ p \notin Waiting
  BY DEF CountInv, Gets
<1>2. /\ DOMAIN e = DOMAIN Idle /\ e.need = Tail(r.need)
      /\ e.txn = (IF r.stage = "lookup" THEN r.txn ELSE r.txn \union {l})
      /\ e.stage = r.stage /\ e.f = r.f /\ e.tags = r.tags
  BY ZenonT(20), <1>1, Fields DEF Gets, CountInv
<1>3. /\ DOMAIN run' = Proc /\ \A q \in Proc : q # p => run'[q] = run[q]
      /\ UNCHANGED <<keys, removed, counted>>
  BY ZenonT(20) DEF Gets, CountInv
<1>. HIDE DEF e
<1>4. \A q \in Proc : q # p => ~Conflict(l, run[q].txn)
  BY ZenonT(20), <1>1 DEF Waiting, TxnsBefore
<1>5. ASSUME NEW q \in Proc, q # p
      PROVE  Compatible(e.txn, run[q].txn) /\ Compatible(run[q].txn, e.txn)
  <2>1. Compatible(r.txn, run[q].txn) /\ Compatible(run[q].txn, r.txn)
    BY ZenonT(20), <1>5 DEF CountInv
  <2>2. ~Conflict(l, run[q].txn)
    BY ZenonT(20), <1>4, <1>5
  <2>3. \A x \in e.txn : x \in r.txn \/ x = l
    BY ZenonT(20), <1>2
  <2>. QED BY ZenonT(20), <2>1, <2>2, <2>3 DEF Compatible, Conflict
<1>6. ASSUME NEW q \in Proc, NEW s \in Proc, q # s
      PROVE  Compatible(run'[q].txn, run'[s].txn)
  BY ZenonT(20), <1>3, <1>5, <1>6 DEF CountInv, e
<1>7. Stage(e)
  <2>1. CASE r.stage \in {"find", "read"}
    <3>1. r.need = <<R("keys")>>
      BY <1>1, <2>1 DEF Stage, Read
    <3>2. e.need = <<>> /\ l = R("keys")
      BY <1>2, <3>1
    <3>. QED BY ZenonT(20), <1>1, <1>2, <2>1, <3>2 DEF Stage, Read
  <2>2. CASE r.stage \in {"remove", "write"}
    <3>1. Left(r)
      BY ZenonT(20), <1>1, <2>2 DEF Stage
    <3>2. r.txn \subseteq e.txn /\ l \in e.txn
      BY ZenonT(20), <1>2, <2>2
    <3>3. Left(e)
      <4>1. CASE r.need = WriteLocks
        BY <1>2, <4>1 DEF Left, WriteLocks
      <4>2. CASE r.need = <<W("hash"), W("keys")>>
        BY <1>2, <4>2 DEF Left
      <4>3. CASE r.need = <<W("keys")>>
        <5>1. e.need = <<>> /\ l = W("keys")
          BY <1>2, <4>3
        <5>. QED BY ZenonT(20), <3>2, <5>1 DEF Left
      <4>4. CASE r.need = NewLocks
        <5>1. e.need = <<W("word"), W("hash")>> /\ l = W("keys")
          BY <1>2, <4>4 DEF NewLocks
        <5>. QED BY ZenonT(20), <3>2, <5>1 DEF Left
      <4>5. CASE r.need = <<W("word"), W("hash")>> /\ W("keys") \in r.txn
        <5>1. e.need = <<W("hash")>>
          BY <1>2, <4>5
        <5>. QED BY ZenonT(20), <3>2, <4>5, <5>1 DEF Left
      <4>6. CASE r.need = <<W("hash")>> /\ W("keys") \in r.txn
        <5>1. e.need = <<>>
          BY <1>2, <4>6
        <5>. QED BY ZenonT(20), <3>2, <4>6, <5>1 DEF Left
      <4>. QED BY ZenonT(20), <1>1, <3>1, <4>1, <4>2, <4>3, <4>4, <4>5, <4>6 DEF Left
    <3>. QED BY ZenonT(20), <1>1, <1>2, <2>2, <3>2, <3>3 DEF Stage
  <2>3. CASE r.stage \notin {"find", "read", "remove", "write"}
    BY ZenonT(20), <1>2, <2>3 DEF Stage
  <2>. QED BY ZenonT(20), <2>1, <2>2, <2>3
<1>8. ASSUME NEW q \in Proc PROVE DOMAIN run'[q] = DOMAIN Idle /\ Stage(run[q])'
  <2>1. DOMAIN run'[q] = DOMAIN Idle /\ Stage(run'[q])
    BY ZenonT(20), <1>2, <1>3, <1>7 DEF CountInv, e
  <2>. QED BY ZenonT(20), <1>3, <2>1 DEF Stage, Keys, Left, Read
<1>. QED BY <1>3, <1>6, <1>8 DEF CountInv, Compatible

\* Who may write the keys is alone: no other process has read a key to delete.
LEMMA WriterAlone ==
    ASSUME CountInv, NEW p \in Proc, W("keys") \in run[p].txn, NEW q \in Proc, q # p
    PROVE  run[q].stage # "remove"
<1>1. Compatible(run[p].txn, run[q].txn) /\ Stage(run[q])
  BY ZenonT(20) DEF CountInv
<1>. QED BY ZenonT(20), <1>1 DEF Compatible, Conflict, Stage, R, W

\* A process that wrote the keys ends its transaction.
LEMMA WroteCount ==
    ASSUME CountInv, NEW p \in Proc, NEW r, run' = [run EXCEPT ![p] = r], Fresh(r),
           W("keys") \in run[p].txn,
           DOMAIN keys' = Fp, removed' \in Nat, counted' = removed'
    PROVE  CountInv'
<1>1. \A q \in Proc : run'[q] = IF q = p THEN r ELSE run[q]
  BY ZenonT(20) DEF CountInv
<1>2. DOMAIN run' = Proc
  BY ZenonT(20) DEF CountInv
<1>3. ASSUME NEW q \in Proc PROVE DOMAIN run'[q] = DOMAIN Idle /\ Stage(run[q])'
  <2>1. CASE q = p
    BY ZenonT(20), <1>1, <2>1 DEF Fresh, Stage, Read
  <2>2. CASE q # p
    <3>1. run'[q] = run[q] /\ run[q].stage # "remove"
      BY ZenonT(20), <1>1, <2>2, WriterAlone
    <3>2. DOMAIN run[q] = DOMAIN Idle /\ Stage(run[q])
      BY ZenonT(20) DEF CountInv
    <3>. QED BY ZenonT(20), <3>1, <3>2 DEF Stage, Left, Read
  <2>. QED BY ZenonT(20), <2>1, <2>2
<1>4. ASSUME NEW q \in Proc, NEW s \in Proc, q # s
      PROVE  Compatible(run'[q].txn, run'[s].txn)
  <2>1. run'[q].txn \subseteq run[q].txn /\ run'[s].txn \subseteq run[s].txn
    BY ZenonT(20), <1>1 DEF Fresh
  <2>2. Compatible(run[q].txn, run[s].txn)
    BY ZenonT(20), <1>4 DEF CountInv
  <2>. QED BY ZenonT(20), <2>1, <2>2 DEF Compatible, Conflict
<1>. QED BY ZenonT(20), <1>2, <1>3, <1>4 DEF CountInv, Compatible

\* delete_key removes a key that is there, and counts one.
LEMMA RemovesCount ==
    ASSUME CountInv, NEW p \in Proc, Removes(p)
    PROVE  CountInv'
<1>. DEFINE r == run[p]
            k == [keys EXCEPT ![r.f] = {}]
<1>1. /\ r.stage = "remove" /\ r.need = <<>> /\ DOMAIN r = DOMAIN Idle /\ Stage(r)
      /\ DOMAIN keys = Fp
  BY DEF CountInv, Removes, At
<1>2. r.f \in Keys /\ r.f \in Fp /\ W("keys") \in r.txn
  BY <1>1 DEF Stage, Left, Keys, WriteLocks, NewLocks
<1>3. /\ run' = [run EXCEPT ![p] = NextDelete(r)] /\ counted' = counted + 1
      /\ keys' = k /\ removed' = removed + Cardinality({f \in Keys : k[f] = {}})
  BY ZenonT(20) DEF Removes, Goes, Becomes
<1>4. {f \in Keys : k[f] = {}} = {r.f}
  BY ZenonT(20), <1>1, <1>2 DEF Keys
<1>5. Cardinality({f \in Keys : k[f] = {}}) = 1
  BY ZenonT(20), <1>4, FS_Singleton
<1>6. removed' \in Nat /\ counted' = removed'
  BY <1>3, <1>5 DEF CountInv
<1>7. DOMAIN keys' = Fp
  BY <1>1, <1>3
<1>. QED BY ZenonT(20), <1>1, <1>2, <1>3, <1>6, <1>7, NextDeleteFresh, WroteCount

\* An update adds a key or changes one; none goes.
LEMMA WritesCount ==
    ASSUME CountInv, NEW p \in Proc, Writes(p)
    PROVE  CountInv'
<1>. DEFINE r == run[p]
            k == [keys EXCEPT ![r.f] = r.tags]
<1>1. /\ r.stage = "write" /\ r.need = <<>> /\ DOMAIN r = DOMAIN Idle /\ Stage(r)
      /\ DOMAIN keys = Fp
  BY DEF CountInv, Writes, At
<1>2. r.f \in Fp /\ r.tags # {} /\ W("keys") \in r.txn
  BY <1>1 DEF Stage, Left, WriteLocks, NewLocks
<1>3. /\ run' = [run EXCEPT ![p] = Ended(r)] /\ counted' = counted
      /\ keys' = k /\ removed' = removed + Cardinality({f \in Keys : k[f] = {}})
  BY ZenonT(20) DEF Writes, Goes, Becomes
<1>4. {f \in Keys : k[f] = {}} = {}
  BY ZenonT(20), <1>1, <1>2 DEF Keys
<1>5. Cardinality({f \in Keys : k[f] = {}}) = 0
  BY ZenonT(20), <1>4, FS_EmptySet
<1>6. removed' \in Nat /\ counted' = removed'
  BY <1>3, <1>5 DEF CountInv
<1>7. DOMAIN keys' = Fp
  BY ZenonT(20), <1>1, <1>3
<1>. QED BY ZenonT(20), <1>1, <1>2, <1>3, <1>6, <1>7, EndedFresh, WroteCount

\* A key read for an update or to be deleted: the locks to write are asked for.
LEMMA ReadsCount ==
    ASSUME CountInv, NEW p \in Proc, Reads(p) \/ Finds(p)
    PROVE  CountInv'
<1>. DEFINE r == run[p]
<1>1. DOMAIN r = DOMAIN Idle /\ Stage(r) /\ UNCHANGED <<keys, removed, counted>>
  BY ZenonT(20) DEF CountInv, Reads, Finds, Keeps
<1>2. CASE Reads(p)
  <2>. DEFINE new == Merged(keys[r.f], r.tags)
              n == IF r.f \in Keys THEN WriteLocks ELSE NewLocks
              e == [r EXCEPT !.stage = "write", !.tags = new, !.need = n]
  <2>1. r.stage = "read" /\ r.f \in Fp /\ "key" \in r.tags
    BY ZenonT(20), <1>1, <1>2 DEF Reads, At, Stage
  <2>2. "key" \in new
    BY ZenonT(20), <2>1 DEF Merged
  <2>3. \/ run' = [run EXCEPT ![p] = Ended(r)]
        \/ run' = [run EXCEPT ![p] = e]
    BY ZenonT(20), <1>2 DEF Reads, Goes, WriteLocks, NewLocks
  <2>4. n \in {WriteLocks, NewLocks}
    OBVIOUS
  <2>. HIDE DEF new, n
  <2>5. /\ DOMAIN e = DOMAIN Idle /\ e.txn = r.txn /\ e.need = n
        /\ e.stage = "write" /\ e.f = r.f /\ e.tags = new
    BY <1>1, Fields
  <2>. HIDE DEF e
  <2>6. Stage(e)
    BY <2>1, <2>2, <2>4, <2>5 DEF Stage, Left
  <2>. QED BY ZenonT(20), <1>1, <2>3, <2>5, <2>6, EndedFresh, FreshCount, LocalCount
<1>3. CASE Finds(p)
  <2>. DEFINE e == [r EXCEPT !.stage = "remove", !.need = WriteLocks]
  <2>1. r.stage = "find" /\ R("keys") \in r.txn
    BY <1>1, <1>3 DEF Finds, At, Stage, Read
  <2>2. \/ run' = [run EXCEPT ![p] = NextDelete(r)]
        \/ r.f \in Keys /\ run' = [run EXCEPT ![p] = e]
    BY ZenonT(20), <1>3 DEF Finds, Goes, WriteLocks
  <2>3. /\ DOMAIN e = DOMAIN Idle /\ e.txn = r.txn /\ e.need = WriteLocks
        /\ e.stage = "remove" /\ e.f = r.f
    BY <1>1, Fields
  <2>. HIDE DEF e
  <2>4. r.f \in Keys => Stage(e)
    BY <2>1, <2>3 DEF Stage, Left
  <2>. QED BY ZenonT(20), <1>1, <2>2, <2>3, <2>4, NextDeleteFresh, FreshCount, LocalCount
<1>. QED BY ZenonT(20), <1>2, <1>3

\* The steps of the queries.
LEMMA QueriesCount ==
    ASSUME CountInv, NEW p \in Proc,
           \/ Passes(p) \/ FetchesList(p) \/ LooksUp(p) \/ FetchesHash(p)
           \/ Visits(p) \/ VisitFails(p)
    PROVE  CountInv'
<1>. DEFINE r == run[p]
<1>1. /\ DOMAIN r = DOMAIN Idle /\ Stage(r) /\ UNCHANGED <<keys, removed, counted>>
  BY DEF CountInv, Passes, FetchesList, LooksUp, FetchesHash, Visits, VisitFails, Keeps
<1>2. CASE Passes(p)
  <2>1. PICK list : run' = [run EXCEPT ![p] =
            NextPass([r EXCEPT !.words = Tail(@), !.first = FALSE, !.list = list])]
    BY ZenonT(20), <1>2 DEF Passes, Goes
  <2>2. DOMAIN [r EXCEPT !.words = Tail(@), !.first = FALSE, !.list = list] = DOMAIN Idle
    BY ZenonT(20), <1>1, Fields
  <2>. QED BY ZenonT(20), <1>1, <2>1, <2>2, NextPassFresh, FreshCount
<1>3. CASE FetchesList(p) \/ FetchesHash(p)
  <2>1. PICK res : run' = [run EXCEPT ![p] = Ended([r EXCEPT !.res = res])]
    BY ZenonT(20), <1>3 DEF FetchesList, FetchesHash, Goes
  <2>2. DOMAIN [r EXCEPT !.res = res] = DOMAIN Idle
    BY <1>1, Fields
  <2>. QED BY ZenonT(20), <1>1, <2>1, <2>2, EndedFresh, FreshCount
<1>4. CASE LooksUp(p)
  <2>. DEFINE e == [r EXCEPT !.stage = "hashfetch", !.need = <<R("keys")>>]
  <2>1. run' = [run EXCEPT ![p] = Ended(r)] \/ run' = [run EXCEPT ![p] = e]
    BY ZenonT(20), <1>4 DEF LooksUp, Goes
  <2>2. DOMAIN e = DOMAIN Idle /\ e.txn = r.txn /\ e.stage = "hashfetch"
    BY <1>1, Fields
  <2>3. Stage(e)
    BY <2>2 DEF Stage
  <2>. QED BY ZenonT(20), <1>1, <2>1, <2>2, <2>3, EndedFresh, FreshCount, LocalCount
<1>5. CASE Visits(p) \/ VisitFails(p)
  <2>1. r.stage = "walk"
    BY ZenonT(20), <1>5 DEF Visits, VisitFails, At
  <2>2. \/ run' = [run EXCEPT ![p] = WalkEnds(r)]
        \/ \E pos, res : run' = [run EXCEPT ![p] = [r EXCEPT !.pos = pos, !.res = res]]
        \/ \E pos : run' = [run EXCEPT ![p] = [r EXCEPT !.pos = pos, !.cut = TRUE]]
    BY ZenonT(20), <1>5 DEF Visits, VisitFails, Goes
  <2>3. ASSUME NEW pos, NEW res, run' = [run EXCEPT ![p] = [r EXCEPT !.pos = pos, !.res = res]]
        PROVE  CountInv'
    <3>. DEFINE e == [r EXCEPT !.pos = pos, !.res = res]
    <3>1. DOMAIN e = DOMAIN Idle /\ e.txn = r.txn /\ e.stage = "walk"
      BY <1>1, <2>1, Fields
    <3>2. Stage(e)
      BY ZenonT(20), <3>1 DEF Stage
    <3>. QED BY ZenonT(20), <1>1, <2>3, <3>1, <3>2, LocalCount
  <2>4. ASSUME NEW pos, run' = [run EXCEPT ![p] = [r EXCEPT !.pos = pos, !.cut = TRUE]]
        PROVE  CountInv'
    <3>. DEFINE e == [r EXCEPT !.pos = pos, !.cut = TRUE]
    <3>1. DOMAIN e = DOMAIN Idle /\ e.txn = r.txn /\ e.stage = "walk"
      BY <1>1, <2>1, Fields
    <3>2. Stage(e)
      BY <3>1 DEF Stage
    <3>. QED BY ZenonT(20), <1>1, <2>4, <3>1, <3>2, LocalCount
  <2>. QED BY ZenonT(20), <1>1, <2>2, <2>3, <2>4, WalkEndsFresh, FreshCount
<1>. QED BY ZenonT(20), <1>2, <1>3, <1>4, <1>5

\* An operation starts without locks.
LEMMA StartsCount ==
    ASSUME CountInv, NEW p \in Proc, OpStarts(p)
    PROVE  CountInv'
<1>1. \E r : Fresh(r) /\ Starts(p, r)
  <2>1. CASE Searches(p)
    <3>1. PICK ws \in Texts :
             Starts(p, NextPass([Idle EXCEPT !.op = "search", !.words = ws, !.tags = ToSet(ws)]))
      BY ZenonT(20), <2>1 DEF Searches
    <3>2. DOMAIN [Idle EXCEPT !.op = "search", !.words = ws, !.tags = ToSet(ws)] = DOMAIN Idle
      BY ZenonT(20), Fields
    <3>. QED BY ZenonT(20), <3>1, <3>2, NextPassFresh
  <2>2. CASE HashStarts(p)
    <3>1. PICK f \in Keys :
             Starts(p, [Idle EXCEPT !.op = "hash", !.stage = "lookup", !.f = f,
                                    !.tags = keys[f], !.need = <<R("hash")>>])
      BY ZenonT(20), <2>2 DEF HashStarts
    <3>2. Fresh([Idle EXCEPT !.op = "hash", !.stage = "lookup", !.f = f,
                             !.tags = keys[f], !.need = <<R("hash")>>])
      BY DEF Fresh, Idle
    <3>. QED BY ZenonT(20), <3>1, <3>2
  <2>3. CASE WalkStarts(p)
    <3>1. PICK op \in {"walk", "clean"} : Starts(p, [Idle EXCEPT !.op = op, !.stage = "walk"])
      BY ZenonT(20), <2>3 DEF WalkStarts
    <3>2. Fresh([Idle EXCEPT !.op = op, !.stage = "walk"])
      BY DEF Fresh, Idle
    <3>. QED BY ZenonT(20), <3>1, <3>2
  <2>4. CASE DeleteStarts(p)
    <3>1. PICK f \in Fp : Starts(p, NextDelete([Idle EXCEPT !.op = "delete", !.list = {f}]))
      BY ZenonT(20), <2>4 DEF DeleteStarts
    <3>2. DOMAIN [Idle EXCEPT !.op = "delete", !.list = {f}] = DOMAIN Idle
      BY ZenonT(20), Fields
    <3>. QED BY ZenonT(20), <3>1, <3>2, NextDeleteFresh
  <2>5. CASE UpdateStarts(p)
    <3>1. PICK f \in Fp, t \in Submitted :
             Starts(p, [Idle EXCEPT !.op = "update", !.stage = "read", !.f = f, !.tags = t,
                                    !.need = <<R("keys")>>])
      BY ZenonT(20), <2>5 DEF UpdateStarts
    <3>2. Fresh([Idle EXCEPT !.op = "update", !.stage = "read", !.f = f, !.tags = t,
                             !.need = <<R("keys")>>])
      BY ZenonT(20), StoreAssumption DEF Fresh, Idle
    <3>. QED BY ZenonT(20), <3>1, <3>2
  <2>. QED BY <2>1, <2>2, <2>3, <2>4, <2>5 DEF OpStarts
<1>. QED BY ZenonT(20), <1>1, FreshCount DEF Starts

\* The invariant holds at first, and every step keeps it.
LEMMA CountInvHolds == Spec => []CountInv
<1>1. Init => CountInv
  <2>. SUFFICES ASSUME Init PROVE CountInv
    OBVIOUS
  <2>1. \A p \in Proc : run[p] = Idle
    BY ZenonT(20) DEF Init
  <2>2. Stage(Idle) /\ Idle.txn = {}
    BY ZenonT(20) DEF Idle, Stage
  <2>3. /\ DOMAIN keys = Fp /\ DOMAIN run = Proc /\ removed = 0 /\ counted = 0
    BY ZenonT(20), StoreAssumption DEF Init
  <2>. QED BY ZenonT(20), <2>1, <2>2, <2>3 DEF CountInv, Compatible
<1>2. CountInv /\ [Next]_vars => CountInv'
  <2>. SUFFICES ASSUME CountInv, [Next]_vars PROVE CountInv'
    OBVIOUS
  <2>1. ASSUME NEW p \in Proc, OpStep(p) PROVE CountInv'
    BY ZenonT(20), <2>1, GetsCount, QueriesCount, ReadsCount, RemovesCount, WritesCount DEF OpStep
  <2>2. ASSUME NEW p \in Proc, OpStarts(p) PROVE CountInv'
    BY ZenonT(20), <2>2, StartsCount
  <2>3. ASSUME NEW p \in Proc, VisitFails(p) PROVE CountInv'
    BY ZenonT(20), <2>3, QueriesCount
  <2>4. CASE Detects
    <3>1. PICK p \in Proc : run' = [run EXCEPT ![p] = Idle]
      BY ZenonT(20), <2>4 DEF Detects
    <3>2. UNCHANGED <<keys, removed, counted>>
      BY <2>4 DEF Detects
    <3>. QED BY ZenonT(20), <3>1, <3>2, IdleFresh, FreshCount
  <2>5. CASE UNCHANGED <<keys, run, removed, counted>>
    BY <2>5 DEF CountInv, Stage, Keys, Left, Read, Compatible
  <2>. QED BY ZenonT(20), <2>1, <2>2, <2>3, <2>4, <2>5 DEF Next, vars
<1>. QED BY <1>1, <1>2, PTL DEF Spec

\* delete_key, update_keys, onak_cmd_clean_aged: the deletes that return 0 are
\* as many as the keys that went, for any number of processes (CountTrue).
THEOREM CountIsTrue == Spec => []CountTrue
<1>1. CountInv => CountTrue
  BY ZenonT(20) DEF CountInv, CountTrue
<1>. QED BY <1>1, CountInvHolds, PTL

-----------------------------------------------------------------------------
(* The answers of the queries *)

\* The operations and their stages.
Stages(r) ==
    \/ r.op = "search" /\ r.stage \in {"pass", "fetch", "done"}
    \/ r.op = "hash" /\ r.stage \in {"lookup", "hashfetch", "done"}
    \/ r.op \in {"walk", "clean"} /\ r.stage \in {"walk", "find", "remove", "done"}
    \/ r.op = "delete" /\ r.stage \in {"find", "remove", "done"}
    \/ r.op = "update" /\ r.stage \in {"read", "write", "done"}
    \/ r.op = "none" /\ r.stage = "done"

\* What is true of the keys now is in the history h of a process that asks.
Current(r, h) ==
    r.stage # "done" =>
       /\ Asks(r) # {} => \A f \in h.steady, t \in Asks(r) : f \in Fp /\ Has(r, f, t, keys)
       /\ \A f \in Fp, t \in Asks(r) : Has(r, f, t, keys) => <<f, t>> \in h.ever

\* A text search: the words to come are among those asked for; the keys that
\* had all of them are in the list, and those in the list had the words before.
Passing(r, h) ==
    r.op = "search" /\ r.stage # "done" =>
       /\ r.words \in Seq(r.tags)
       /\ "hash" \notin r.tags
       /\ r.stage = "pass" <=> r.words # <<>>
       /\ r.list \subseteq Fp
       /\ r.first => r.list = {} /\ r.tags = ToSet(r.words)
       /\ ~r.first => h.steady \subseteq r.list
       /\ \A f \in r.list, t \in r.tags : <<f, t>> \in h.ever \/ t \in ToSet(r.words)

\* A lookup by hash: the key had the hash when it was asked for.
Looking(r, h) ==
    r.op = "hash" /\ r.stage # "done" =>
       r.f \in Fp /\ r.tags # {} /\ r.res = {} /\ <<r.f, "hash">> \in h.ever

\* The file of f, or its place in it, comes after pos.
Beyond(f, pos) == \/ f % NumDbs > pos[1]
                  \/ f % NumDbs = pos[1] /\ f > pos[2]

\* A walk: what was collected was aged, and a key that was all the time has been
\* collected or is still to come.
Walking(r, h) ==
    r.stage = "walk" =>
       /\ r.pos \in Nat \X Nat
       /\ \A f \in r.res : <<f, "aged">> \in h.ever
       /\ ~r.cut => \A f \in h.steady : f \in r.res \/ Beyond(f, r.pos)

\* The answer.
Exact(r, h, asked) ==
    /\ \/ h.steady \subseteq r.res
       \/ Cardinality(r.list) > MaxKeys
       \/ asked = {}
    /\ \A f \in r.res, t \in asked : <<f, t>> \in h.ever

Gathered(r, h) ==
    ~r.cut => h.steady \subseteq r.res /\ \A f \in r.res : <<f, "aged">> \in h.ever

Answered(r, h) ==
    /\ r.op = "search" /\ r.stage = "done" => Exact(r, h, r.tags)
    /\ r.op = "hash" /\ r.stage = "done" => Exact(r, h, {"hash"})
    /\ r.op \in {"walk", "clean"} /\ r.stage # "walk" => Gathered(r, h)

Query(r, h) == Stages(r) /\ Current(r, h) /\ Passing(r, h) /\ Looking(r, h)
               /\ Walking(r, h) /\ Answered(r, h)

QueryInv == /\ DOMAIN hist = Proc
            /\ \A p \in Proc : Query(run[p], hist[p])

\* A set of natural numbers that is not empty has a smallest element.
LEMMA SmallestOf ==
    ASSUME NEW S, S \subseteq Nat, S # {}
    PROVE  \E m \in S : \A n \in S : m <= n
<1>. DEFINE less == OpToRel(<, Nat)
<1>1. IsWellFoundedOn(less, Nat)
  BY ZenonT(20), NatLessThanWellFounded
<1>. HIDE DEF less
<1>2. PICK m \in S : \A n \in S : <<n, m>> \notin less
  BY ZenonT(20), <1>1, WFMin
<1>3. ASSUME NEW n \in S PROVE m <= n
  <2>1. ~(n < m)
    BY ZenonT(20), <1>2, <1>3 DEF less, OpToRel
  <2>. QED BY <2>1, <1>3
<1>. QED BY ZenonT(20), <1>2, <1>3

\* The cursor has a next key when there is one after it: all the others come
\* after that one.
LEMMA NextKeyIs ==
    ASSUME NEW pos \in Nat \X Nat, After(pos) # {}
    PROVE  /\ NextKey(pos) \in After(pos)
           /\ \A g \in After(pos) \ {NextKey(pos)} : Beyond(g, Place(NextKey(pos)))
<1>. DEFINE T == After(pos)
            File(f) == f % NumDbs
<1>1. T \subseteq Fp /\ T # {} /\ \A f \in T : f \in Keys
  BY ZenonT(20) DEF After, Keys
<1>2. \A f \in Fp : f \in Nat /\ File(f) \in Nat
  BY QueryAssumption
<1>3. \A f, g \in T : g \in After(Place(f)) <=> Beyond(g, Place(f))
  BY ZenonT(20), <1>1 DEF After, Beyond, Place
<1>4. \A f, g \in T : Beyond(g, Place(f)) <=> File(g) > File(f) \/ (File(g) = File(f) /\ g > f)
  BY ZenonT(20), <1>1 DEF Beyond, Place
<1>. HIDE DEF T, File
<1>5. PICK m \in {File(f) : f \in T} : \A n \in {File(f) : f \in T} : m <= n
  <2>1. {File(f) : f \in T} \subseteq Nat /\ {File(f) : f \in T} # {}
    BY <1>1, <1>2
  <2>. QED BY ZenonT(20), <2>1, SmallestOf
<1>6. PICK f \in {g \in T : File(g) = m} : \A h \in {g \in T : File(g) = m} : f <= h
  <2>1. {g \in T : File(g) = m} \subseteq Nat /\ {g \in T : File(g) = m} # {}
    BY <1>1, <1>2, <1>5
  <2>. QED BY ZenonT(20), <2>1, SmallestOf
<1>7. \A g \in T \ {f} : g \in After(Place(f))
  <2>. SUFFICES ASSUME NEW g \in T, g # f PROVE Beyond(g, Place(f))
    BY ZenonT(20), <1>3, <1>6
  <2>1. File(g) \in Nat /\ File(f) = m /\ m \in Nat /\ f \in Nat /\ g \in Nat /\ m <= File(g)
    BY ZenonT(20), <1>1, <1>2, <1>5, <1>6
  <2>2. File(g) = m => f <= g
    BY ZenonT(20), <1>6
  <2>3. File(g) > m \/ (File(g) = m /\ g > f)
    BY <2>1, <2>2
  <2>. QED BY <1>4, <1>6, <2>1, <2>3
<1>8. \E x \in T : \A g \in T \ {x} : g \in After(Place(x))
  BY ZenonT(20), <1>6, <1>7
<1>9. NextKey(pos) = CHOOSE x \in T : \A g \in T \ {x} : g \in After(Place(x))
  BY ZenonT(20) DEF NextKey, T
<1>10. NextKey(pos) \in T /\ \A g \in T \ {NextKey(pos)} : g \in After(Place(NextKey(pos)))
  BY ZenonT(20), <1>8, <1>9
<1>. QED BY <1>3, <1>10 DEF T

\* All of a short list is among its first elements.
LEMMA LeastOfShort ==
    ASSUME NEW s, s \subseteq Fp, Cardinality(s) <= MaxKeys
    PROVE  Least(s, MaxKeys) = s
<1>1. IsFiniteSet(s)
  BY ZenonT(20), QueryAssumption, FS_Subset
<1>2. ASSUME NEW f \in s PROVE Cardinality({g \in s : g < f}) < MaxKeys
  <2>. DEFINE t == {g \in s : g < f}
  <2>1. t \subseteq s /\ t # s
    <3>1. f \in Nat
      BY ZenonT(20), <1>2, QueryAssumption
    <3>2. f \notin t
      BY <3>1
    <3>. QED BY <1>2, <3>2
  <2>. HIDE DEF t
  <2>2. IsFiniteSet(t) /\ Cardinality(t) <= Cardinality(s) /\ Cardinality(t) # Cardinality(s)
    BY ZenonT(20), <1>1, <2>1, FS_Subset
  <2>3. Cardinality(t) \in Nat /\ Cardinality(s) \in Nat /\ MaxKeys \in Int
    BY ZenonT(20), <1>1, <2>2, FS_CardinalityType, QueryAssumption
  <2>4. Cardinality(t) < MaxKeys
    BY <2>2, <2>3
  <2>. QED BY <2>4 DEF t
<1>. QED BY ZenonT(20), <1>2 DEF Least

\* The words of a sequence are its first one and those of the rest.
LEMMA HeadAndTail ==
    ASSUME NEW S, NEW s \in Seq(S), s # <<>>
    PROVE  /\ Head(s) \in S /\ Tail(s) \in Seq(S)
           /\ ToSet(s) = {Head(s)} \union ToSet(Tail(s))
<1>1. Head(s) \in S /\ Tail(s) \in Seq(S)
  OBVIOUS
<1>2. /\ Len(s) \in Nat /\ Len(s) > 0 /\ DOMAIN s = 1 .. Len(s)
      /\ Len(Tail(s)) = Len(s) - 1 /\ DOMAIN Tail(s) = 1 .. Len(s) - 1
  OBVIOUS
<1>3. Head(s) = s[1] /\ \A i \in 1 .. Len(s) - 1 : Tail(s)[i] = s[i + 1]
  OBVIOUS
<1>4. ASSUME NEW x \in ToSet(s) PROVE x \in {Head(s)} \union ToSet(Tail(s))
  <2>1. PICK i \in 1 .. Len(s) : x = s[i]
    BY ZenonT(20), <1>2, <1>4 DEF ToSet
  <2>2. CASE i = 1
    BY ZenonT(20), <1>3, <2>1, <2>2
  <2>3. CASE i # 1
    <3>1. i - 1 \in 1 .. Len(s) - 1 /\ Tail(s)[i - 1] = x
      BY <1>2, <1>3, <2>1, <2>3
    <3>. QED BY ZenonT(20), <1>2, <3>1 DEF ToSet
  <2>. QED BY ZenonT(20), <2>2, <2>3
<1>5. ASSUME NEW x \in ToSet(Tail(s)) PROVE x \in ToSet(s)
  <2>1. PICK i \in 1 .. Len(s) - 1 : x = Tail(s)[i]
    BY ZenonT(20), <1>2, <1>5 DEF ToSet
  <2>2. i + 1 \in 1 .. Len(s) /\ s[i + 1] = x
    BY <1>2, <1>3, <2>1
  <2>. QED BY ZenonT(20), <1>2, <2>2 DEF ToSet
<1>6. Head(s) \in ToSet(s)
  BY <1>2, <1>3 DEF ToSet
<1>. QED BY ZenonT(20), <1>1, <1>4, <1>5, <1>6

\* The history of an operation that asks goes on when the keys become k.
LEMMA SeenKeeps ==
    ASSUME NEW r, NEW h, NEW k
    PROVE  /\ Seen(r, h, k).steady \subseteq h.steady
           /\ h.ever \subseteq Seen(r, h, k).ever
BY ZenonT(20) DEF Seen

\* A history that is steady for fewer keys and has seen more.
LEMMA KnownKeeps ==
    ASSUME NEW r, NEW h, NEW j, j.steady \subseteq h.steady, h.ever \subseteq j.ever,
           Passing(r, h), Looking(r, h), Walking(r, h), Answered(r, h)
    PROVE  Passing(r, j) /\ Looking(r, j) /\ Walking(r, j) /\ Answered(r, j)
<1>1. Passing(r, j)
  BY ZenonT(20) DEF Passing
<1>2. Looking(r, j)
  BY ZenonT(20) DEF Looking
<1>3. Walking(r, j)
  BY ZenonT(20) DEF Walking
<1>4. Answered(r, j)
  BY ZenonT(20) DEF Answered, Exact, Gathered
<1>. QED BY ZenonT(20), <1>1, <1>2, <1>3, <1>4

\* The history has what is asked of the keys k.
LEMMA SeenCurrent ==
    ASSUME NEW r, NEW h, NEW k, Asks(r) # {} => h.steady \subseteq Fp
    PROVE  LET j == Seen(r, h, k) IN
           /\ Asks(r) # {} => \A f \in j.steady, t \in Asks(r) : f \in Fp /\ Has(r, f, t, k)
           /\ \A f \in Fp, t \in Asks(r) : Has(r, f, t, k) => <<f, t>> \in j.ever
<1>. DEFINE a == Asks(r)
            j == Seen(r, h, k)
<1>. HIDE DEF a
<1>1. CASE a = {}
  BY ZenonT(20), <1>1 DEF a
<1>2. CASE a # {}
  <2>1. /\ j.steady = {f \in h.steady : \A t \in a : Has(r, f, t, k)}
        /\ j.ever = h.ever \union {x \in Fp \X a : Has(r, x[1], x[2], k)}
    BY ZenonT(20), <1>2 DEF Seen, a
  <2>. HIDE DEF j
  <2>2. \A f \in j.steady, t \in a : f \in Fp /\ Has(r, f, t, k)
    BY ZenonT(20), <1>2, <2>1 DEF a
  <2>3. ASSUME NEW f \in Fp, NEW t \in a, Has(r, f, t, k) PROVE <<f, t>> \in j.ever
    <3>1. <<f, t>> \in Fp \X a /\ <<f, t>>[1] = f /\ <<f, t>>[2] = t
      BY ZenonT(20), <2>3
    <3>. QED BY ZenonT(20), <2>1, <2>3, <3>1
  <2>. QED BY ZenonT(20), <2>2, <2>3 DEF a, j
<1>. QED BY ZenonT(20), <1>1, <1>2

\* A process that does nothing, whatever its history.
LEMMA IdleQuery == \A h : Query(Idle, h)
BY ZenonT(20) DEF Query, Idle, Stages, Current, Passing, Looking, Walking, Answered

\* A step of one process that leaves the keys and the histories alone.
LEMMA LocalQuery ==
    ASSUME CountInv, QueryInv, NEW p \in Proc, NEW r, run' = [run EXCEPT ![p] = r],
           Query(r, hist[p]), UNCHANGED <<keys, hist>>
    PROVE  QueryInv'
<1>1. \A q \in Proc : run'[q] = IF q = p THEN r ELSE run[q]
  BY ZenonT(20) DEF CountInv
<1>2. ASSUME NEW q \in Proc PROVE Query(run[q], hist[q])'
  <2>1. Query(run'[q], hist[q])
    BY ZenonT(20), <1>1, <1>2 DEF QueryInv
  <2>. QED BY ZenonT(20), <2>1 DEF Query, Current
<1>. QED BY ZenonT(20), <1>2 DEF QueryInv

\* The locks do not matter for the answer.
Alike(r, s) ==
    /\ r.op = s.op /\ r.stage = s.stage /\ r.tags = s.tags /\ r.words = s.words
    /\ r.list = s.list /\ r.pos = s.pos /\ r.first = s.first /\ r.res = s.res /\ r.cut = s.cut
    /\ r.f = s.f

LEMMA AlikeQuery ==
    ASSUME NEW r, NEW s, NEW h, Alike(r, s), Query(r, h)
    PROVE  Query(s, h)
<1>1. Asks(s) = Asks(r) /\ \A f, t, k : Has(s, f, t, k) <=> Has(r, f, t, k)
  BY ZenonT(20) DEF Asks, Has, Alike
<1>2. Current(s, h)
  BY ZenonT(20), <1>1 DEF Query, Current, Alike
<1>3. Stages(s) /\ Looking(s, h) /\ Walking(s, h)
  BY ZenonT(20) DEF Query, Alike, Stages, Looking, Walking
<1>4. Passing(s, h)
  BY ZenonT(20) DEF Query, Alike, Passing
<1>5. Answered(s, h)
  BY ZenonT(20) DEF Query, Alike, Answered, Exact, Gathered
<1>. QED BY ZenonT(20), <1>2, <1>3, <1>4, <1>5 DEF Query

\* A process writes or removes a key: the histories of those that ask go on.
LEMMA BecomesQuery ==
    ASSUME CountInv, QueryInv, NEW p \in Proc, NEW r, NEW k, Becomes(k),
           run' = [run EXCEPT ![p] = r], Asks(run[p]) = {}, Query(r, hist[p]),
           r.stage = "done" \/ Asks(r) = {}
    PROVE  QueryInv'
<1>1. \A q \in Proc : run'[q] = IF q = p THEN r ELSE run[q]
  BY ZenonT(20) DEF CountInv
<1>2. /\ keys' = k /\ DOMAIN hist' = Proc
      /\ \A q \in Proc : hist'[q] = IF Busy(q) THEN Seen(run[q], hist[q], k) ELSE hist[q]
  BY ZenonT(20) DEF Becomes
<1>3. ASSUME NEW q \in Proc, q # p PROVE Query(run[q], hist[q])'
  <2>. DEFINE s == run[q]
              h == hist[q]
              j == hist'[q]
  <2>1. run'[q] = s /\ Query(s, h)
    BY ZenonT(20), <1>1, <1>3 DEF QueryInv
  <2>2. CASE s.stage = "done"
    <3>1. j = h
      BY ZenonT(20), <1>2, <2>2 DEF Busy
    <3>. QED BY ZenonT(20), <2>1, <2>2, <3>1 DEF Query, Current
  <2>3. CASE s.stage # "done"
    <3>1. j = Seen(s, h, k)
      BY ZenonT(20), <1>2, <2>3 DEF Busy
    <3>. HIDE DEF s, h, j
    <3>2. Asks(s) # {} => h.steady \subseteq Fp
      BY ZenonT(20), <2>1, <2>3 DEF Query, Current
    <3>3. /\ Asks(s) # {} => \A f \in j.steady, t \in Asks(s) : f \in Fp /\ Has(s, f, t, k)
          /\ \A f \in Fp, t \in Asks(s) : Has(s, f, t, k) => <<f, t>> \in j.ever
      BY ZenonT(20), <3>1, <3>2, SeenCurrent
    <3>4. Passing(s, j) /\ Looking(s, j) /\ Walking(s, j) /\ Answered(s, j)
      BY ZenonT(20), <2>1, <3>1, SeenKeeps, KnownKeeps DEF Query
    <3>5. Stages(s)
      BY ZenonT(20), <2>1 DEF Query
    <3>. QED BY ZenonT(20), <1>2, <2>1, <3>3, <3>4, <3>5 DEF Query, Current, s, j
  <2>. QED BY ZenonT(20), <2>2, <2>3
<1>4. Query(run[p], hist[p])'
  <2>1. run'[p] = r
    BY ZenonT(20), <1>1
  <2>2. hist'[p] = hist[p]
    BY ZenonT(20), <1>2 DEF Seen
  <2>. QED BY ZenonT(20), <2>1, <2>2 DEF Query, Current
<1>. QED BY ZenonT(20), <1>2, <1>3, <1>4 DEF QueryInv

\* Updates and deletes ask nothing, and clean-aged nothing after its walk.
LEMMA PlainQuery ==
    ASSUME NEW r, NEW h, r.op \in {"update", "delete", "none"}, Stages(r)
    PROVE  Query(r, h) /\ Asks(r) = {}
BY ZenonT(20) DEF Query, Asks, Stages, Current, Passing, Looking, Walking, Answered

LEMMA GatheredQuery ==
    ASSUME NEW r, NEW h, r.op \in {"walk", "clean"}, r.stage \in {"find", "remove", "done"},
           Gathered(r, h)
    PROVE  Query(r, h) /\ Asks(r) = {}
BY ZenonT(20) DEF Query, Asks, Stages, Current, Passing, Looking, Walking, Answered

\* The end of an operation: its answer stays.
LEMMA EndedForm ==
    ASSUME NEW r, DOMAIN r = DOMAIN Idle
    PROVE  \/ r.op \in {"update", "delete"} /\ Ended(r) = Idle
           \/ /\ Ended(r).op = r.op /\ Ended(r).stage = "done" /\ Ended(r).res = r.res
              /\ Ended(r).cut = r.cut /\ Ended(r).list = r.list /\ Ended(r).tags = r.tags
<1>1. CASE r.op \in {"update", "delete"}
  BY ZenonT(20), <1>1 DEF Ended
<1>2. CASE r.op \notin {"update", "delete"}
  <2>. DEFINE e == [r EXCEPT !.stage = "done", !.txn = {}, !.cursor = {}, !.first = TRUE,
                             !.f = 0, !.pos = <<0, 0>>]
  <2>1. Ended(r) = e
    BY ZenonT(20), <1>2 DEF Ended
  <2>2. /\ e.op = r.op /\ e.stage = "done" /\ e.res = r.res /\ e.cut = r.cut
        /\ e.list = r.list /\ e.tags = r.tags
    BY ZenonT(20), Fields
  <2>. QED BY ZenonT(20), <2>1, <2>2
<1>. QED BY ZenonT(20), <1>1, <1>2

\* Deletes go on to the next key, or end.
LEMMA NextDeleteQuery ==
    ASSUME NEW r, NEW h, DOMAIN r = DOMAIN Idle, r.op \in {"walk", "clean", "delete"},
           r.op \in {"walk", "clean"} => Gathered(r, h)
    PROVE  Query(NextDelete(r), h) /\ Asks(NextDelete(r)) = {}
<1>. DEFINE e == NextDelete(r)
<1>1. \/ e = Idle
      \/ /\ e.op = r.op /\ e.stage \in {"find", "done"} /\ e.res = r.res /\ e.cut = r.cut
  <2>1. CASE r.list = {}
    BY ZenonT(20), <2>1, EndedForm DEF NextDelete
  <2>2. CASE r.list # {}
    <3>. DEFINE m == Min(r.list)
                d == [r EXCEPT !.stage = "find", !.txn = {}, !.need = <<R("keys")>>, !.f = m,
                               !.list = @ \ {m}]
    <3>. HIDE DEF m
    <3>1. d.op = r.op /\ d.stage = "find" /\ d.res = r.res /\ d.cut = r.cut
      BY ZenonT(20), Fields
    <3>2. e = d
      BY ZenonT(20), <2>2 DEF NextDelete, m
    <3>. QED BY ZenonT(20), <3>1, <3>2
  <2>. QED BY ZenonT(20), <2>1, <2>2
<1>. HIDE DEF e
<1>2. CASE e = Idle
  <2>1. Idle.op = "none" /\ Stages(Idle)
    BY ZenonT(20) DEF Idle, Stages
  <2>. QED BY <1>2, <2>1, PlainQuery DEF e
<1>3. CASE /\ e.op = r.op /\ e.stage \in {"find", "done"} /\ e.res = r.res /\ e.cut = r.cut
  <2>1. r.op \in {"walk", "clean"} => Gathered(e, h)
    BY ZenonT(20), <1>3 DEF Gathered
  <2>2. r.op = "delete" => Stages(e)
    BY ZenonT(20), <1>3 DEF Stages
  <2>. QED BY <1>3, <2>1, <2>2, PlainQuery, GatheredQuery DEF e
<1>. QED BY ZenonT(20), <1>1, <1>2, <1>3

\* delete_key and update_keys, step by step.
LEMMA ChangesQuery ==
    ASSUME CountInv, QueryInv, NEW p \in Proc, Finds(p) \/ Removes(p) \/ Reads(p) \/ Writes(p)
    PROVE  QueryInv'
<1>. DEFINE r == run[p]
            h == hist[p]
<1>1. DOMAIN r = DOMAIN Idle /\ Query(r, h) /\ Stages(r)
  BY ZenonT(20) DEF CountInv, QueryInv, Query
<1>2. CASE Finds(p)
  <2>1. /\ r.op \in {"walk", "clean", "delete"} /\ r.stage = "find"
        /\ r.op \in {"walk", "clean"} => Gathered(r, h)
    BY <1>1, <1>2 DEF Finds, At, Stages, Query, Answered
  <2>2. UNCHANGED <<keys, hist>>
    BY ZenonT(20), <1>2 DEF Finds, Keeps
  <2>3. CASE run' = [run EXCEPT ![p] = NextDelete(r)]
    BY ZenonT(20), <1>1, <2>1, <2>2, <2>3, NextDeleteQuery, LocalQuery
  <2>4. CASE run' = [run EXCEPT ![p] = [r EXCEPT !.stage = "remove", !.need = WriteLocks]]
    <3>. DEFINE e == [r EXCEPT !.stage = "remove", !.need = WriteLocks]
    <3>1. e.op = r.op /\ e.stage = "remove" /\ e.res = r.res /\ e.cut = r.cut
      BY <1>1, Fields
    <3>. HIDE DEF e
    <3>2. Query(e, h)
      <4>1. r.op \in {"walk", "clean"} => Gathered(e, h)
        BY ZenonT(20), <2>1, <3>1 DEF Gathered
      <4>2. r.op = "delete" => Stages(e)
        BY ZenonT(20), <3>1 DEF Stages
      <4>3. CASE r.op = "delete"
        BY <3>1, <4>2, <4>3, PlainQuery
      <4>4. CASE r.op \in {"walk", "clean"}
        BY <3>1, <4>1, <4>4, GatheredQuery
      <4>. QED BY ZenonT(20), <2>1, <4>3, <4>4
    <3>. QED BY ZenonT(20), <2>2, <2>4, <3>2, LocalQuery DEF e
  <2>. QED BY ZenonT(20), <1>2, <2>3, <2>4 DEF Finds, Goes, WriteLocks
<1>3. CASE Removes(p)
  <2>1. /\ r.op \in {"walk", "clean", "delete"} /\ r.stage = "remove"
        /\ r.op \in {"walk", "clean"} => Gathered(r, h)
    BY ZenonT(20), <1>1, <1>3 DEF Removes, At, Stages, Query, Answered
  <2>2. Asks(r) = {}
    BY ZenonT(20), <2>1 DEF Asks
  <2>3. Becomes([keys EXCEPT ![r.f] = {}]) /\ run' = [run EXCEPT ![p] = NextDelete(r)]
    BY ZenonT(20), <1>3 DEF Removes, Goes
  <2>. QED BY ZenonT(20), <1>1, <2>1, <2>2, <2>3, NextDeleteQuery, BecomesQuery
<1>4. CASE Reads(p)
  <2>1. r.op = "update" /\ UNCHANGED <<keys, hist>>
    BY ZenonT(20), <1>1, <1>4 DEF Reads, At, Stages, Keeps
  <2>2. CASE run' = [run EXCEPT ![p] = Ended(r)]
    BY ZenonT(20), <2>1, <2>2, IdleQuery, LocalQuery DEF Ended
  <2>3. ASSUME NEW new, NEW need,
               run' = [run EXCEPT ![p] = [r EXCEPT !.stage = "write", !.tags = new,
                                                   !.need = need]]
        PROVE  QueryInv'
    <3>. DEFINE e == [r EXCEPT !.stage = "write", !.tags = new, !.need = need]
    <3>1. e.op = "update" /\ e.stage = "write"
      BY <1>1, <2>1, Fields
    <3>. HIDE DEF e
    <3>2. Query(e, h)
      BY <3>1, PlainQuery DEF Stages
    <3>. QED BY ZenonT(20), <2>1, <2>3, <3>2, LocalQuery DEF e
  <2>. QED BY ZenonT(20), <1>4, <2>2, <2>3 DEF Reads, Goes
<1>5. CASE Writes(p)
  <2>1. r.op = "update"
    BY <1>1, <1>5 DEF Writes, At, Stages
  <2>2. Asks(r) = {} /\ Ended(r) = Idle
    BY ZenonT(20), <1>1, <2>1, PlainQuery DEF Ended
  <2>3. Becomes([keys EXCEPT ![r.f] = r.tags]) /\ run' = [run EXCEPT ![p] = Idle]
    BY ZenonT(20), <1>5, <2>2 DEF Writes, Goes
  <2>4. Query(Idle, h) /\ Idle.stage = "done"
    BY ZenonT(20), IdleQuery DEF Idle
  <2>. QED BY ZenonT(20), <2>2, <2>3, <2>4, BecomesQuery
<1>. QED BY ZenonT(20), <1>2, <1>3, <1>4, <1>5

\* fetch_key_text, a word.
LEMMA PassesQuery ==
    ASSUME CountInv, QueryInv, NEW p \in Proc, Passes(p)
    PROVE  QueryInv'
<1>. DEFINE r == run[p]
            h == hist[p]
            w == Head(r.words)
            found == {f \in Keys : w \in keys[f]}
            list == IF r.first THEN found ELSE r.list \intersect found
            e == [r EXCEPT !.words = Tail(@), !.first = FALSE, !.list = list]
            n == NextPass(e)
<1>1. DOMAIN r = DOMAIN Idle /\ Query(r, h) /\ r.stage = "pass" /\ r.op = "search"
  BY DEF CountInv, QueryInv, Query, Passes, At, Stages
<1>2. UNCHANGED <<keys, hist>> /\ run' = [run EXCEPT ![p] = n]
  BY DEF Passes, Keeps, Goes
<1>3. /\ r.words \in Seq(r.tags) /\ r.words # <<>> /\ "hash" \notin r.tags /\ r.list \subseteq Fp
      /\ r.first => r.list = {} /\ r.tags = ToSet(r.words)
      /\ ~r.first => h.steady \subseteq r.list
      /\ \A f \in r.list, t \in r.tags : <<f, t>> \in h.ever \/ t \in ToSet(r.words)
  BY ZenonT(20), <1>1 DEF Query, Passing
<1>4. /\ w \in r.tags /\ Tail(r.words) \in Seq(r.tags)
      /\ ToSet(r.words) = {w} \union ToSet(Tail(r.words))
  BY ZenonT(20), <1>3, HeadAndTail
<1>5. /\ \A f \in h.steady, t \in r.tags : f \in Fp /\ t \in keys[f]
      /\ \A f \in Fp, t \in r.tags : t \in keys[f] => <<f, t>> \in h.ever
  BY ZenonT(20), <1>1, <1>3 DEF Query, Current, Asks, Has
<1>6. list \subseteq Fp /\ h.steady \subseteq list
  BY ZenonT(20), <1>3, <1>4, <1>5 DEF Keys
<1>7. ASSUME NEW f \in list, NEW t \in r.tags
      PROVE  <<f, t>> \in h.ever \/ t \in ToSet(Tail(r.words))
  <2>1. CASE t = w
    BY ZenonT(20), <1>5, <1>6, <1>7, <2>1
  <2>2. CASE t # w
    BY ZenonT(20), <1>3, <1>4, <1>7, <2>2
  <2>. QED BY ZenonT(20), <2>1, <2>2
<1>. HIDE DEF list
<1>8. /\ n.op = "search" /\ n.tags = r.tags /\ n.words = Tail(r.words) /\ n.list = list
      /\ n.first = FALSE /\ n.stage = IF Tail(r.words) # <<>> THEN "pass" ELSE "fetch"
  BY ZenonT(20), <1>1, Fields DEF NextPass
<1>. HIDE DEF n, e
<1>9. Passing(n, h)
  BY ZenonT(20), <1>3, <1>4, <1>6, <1>7, <1>8 DEF Passing
<1>10. Current(n, h)
  BY ZenonT(20), <1>3, <1>5, <1>8 DEF Current, Asks, Has
<1>11. Query(n, h)
  BY ZenonT(20), <1>8, <1>9, <1>10 DEF Query, Stages, Looking, Walking, Answered
<1>. QED BY ZenonT(20), <1>2, <1>11, LocalQuery

\* fetch_key_text, the keys: those of the list, unless there are too many.
LEMMA FetchesQuery ==
    ASSUME CountInv, QueryInv, NEW p \in Proc, FetchesList(p)
    PROVE  QueryInv'
<1>. DEFINE r == run[p]
            h == hist[p]
            res == Least(r.list, MaxKeys) \intersect Keys
            e == [r EXCEPT !.res = res]
            n == Ended(e)
<1>1. DOMAIN r = DOMAIN Idle /\ Query(r, h) /\ r.stage = "fetch" /\ r.op = "search"
  BY ZenonT(20) DEF CountInv, QueryInv, Query, FetchesList, At, Stages
<1>2. UNCHANGED <<keys, hist>> /\ run' = [run EXCEPT ![p] = n]
  BY ZenonT(20) DEF FetchesList, Keeps, Goes
<1>3. /\ r.words = <<>> /\ "hash" \notin r.tags /\ r.list \subseteq Fp
      /\ r.first => r.tags = {}
      /\ ~r.first => h.steady \subseteq r.list
      /\ \A f \in r.list, t \in r.tags : <<f, t>> \in h.ever
  <2>1. ToSet(<<>>) = {}
    BY DEF ToSet
  <2>. QED BY ZenonT(20), <1>1, <2>1 DEF Query, Passing
<1>4. \A f \in h.steady, t \in r.tags : f \in Fp /\ t \in keys[f]
  BY ZenonT(20), <1>1, <1>3 DEF Query, Current, Asks, Has
<1>5. res \subseteq r.list
  BY ZenonT(20) DEF Least
<1>6. \/ h.steady \subseteq res
      \/ Cardinality(r.list) > MaxKeys
      \/ r.tags = {}
  <2>. SUFFICES ASSUME ~(Cardinality(r.list) > MaxKeys), r.tags # {}
                PROVE  h.steady \subseteq res
    BY ZenonT(20)
  <2>1. IsFiniteSet(r.list) /\ Cardinality(r.list) \in Nat
    BY ZenonT(20), <1>3, QueryAssumption, FS_Subset, FS_CardinalityType
  <2>2. Cardinality(r.list) <= MaxKeys
    BY <2>1, QueryAssumption
  <2>3. Least(r.list, MaxKeys) = r.list
    BY ZenonT(20), <1>3, <2>2, LeastOfShort
  <2>4. h.steady \subseteq Keys
    BY ZenonT(20), <1>4 DEF Keys
  <2>. QED BY ZenonT(20), <1>3, <2>3, <2>4
<1>. HIDE DEF res
<1>7. /\ e.op = "search" /\ e.res = res /\ e.list = r.list /\ e.tags = r.tags
      /\ DOMAIN e = DOMAIN Idle
  BY ZenonT(20), <1>1, Fields
<1>. HIDE DEF e
<1>8. /\ n.op = "search" /\ n.stage = "done" /\ n.res = res /\ n.list = r.list
      /\ n.tags = r.tags
  BY ZenonT(20), <1>7, EndedForm
<1>. HIDE DEF n
<1>9. Exact(n, h, n.tags)
  BY ZenonT(20), <1>3, <1>5, <1>6, <1>8 DEF Exact
<1>10. Query(n, h)
  BY ZenonT(20), <1>8, <1>9 DEF Query, Stages, Current, Passing, Looking, Walking, Answered
<1>. QED BY ZenonT(20), <1>2, <1>10, LocalQuery

\* fetch_key_skshash: a key that has the hash all the time is found.
LEMMA HashQuery ==
    ASSUME CountInv, QueryInv, NEW p \in Proc, LooksUp(p) \/ FetchesHash(p)
    PROVE  QueryInv'
<1>. DEFINE r == run[p]
            h == hist[p]
<1>1. DOMAIN r = DOMAIN Idle /\ Query(r, h) /\ r.op = "hash"
      /\ r.stage \in {"lookup", "hashfetch"}
  BY ZenonT(20) DEF CountInv, QueryInv, Query, LooksUp, FetchesHash, At, Stages
<1>2. UNCHANGED <<keys, hist>>
  BY ZenonT(20) DEF LooksUp, FetchesHash, Keeps
<1>3. r.f \in Fp /\ r.tags # {} /\ r.res = {} /\ <<r.f, "hash">> \in h.ever
  BY ZenonT(20), <1>1 DEF Query, Looking
<1>4. \A f \in h.steady : f \in Fp /\ f = r.f /\ keys[f] = r.tags
  BY ZenonT(20), <1>1 DEF Query, Current, Asks, Has
<1>5. ASSUME NEW e, DOMAIN e = DOMAIN Idle, e.op = "hash", h.steady \subseteq e.res,
             e.res \subseteq {r.f}
      PROVE  Query(Ended(e), h)
  <2>. DEFINE n == Ended(e)
  <2>1. n.op = "hash" /\ n.stage = "done" /\ n.res = e.res
    BY ZenonT(20), <1>5, EndedForm
  <2>. HIDE DEF n
  <2>2. Exact(n, h, {"hash"})
    BY ZenonT(20), <1>3, <1>5, <2>1 DEF Exact
  <2>3. Query(n, h)
    BY ZenonT(20), <2>1, <2>2 DEF Query, Stages, Current, Passing, Looking, Walking, Answered
  <2>. QED BY ZenonT(20), <2>3 DEF n
<1>6. CASE LooksUp(p) /\ Has(r, r.f, "hash", keys)
  <2>. DEFINE e == [r EXCEPT !.stage = "hashfetch", !.need = <<R("keys")>>]
  <2>1. run' = [run EXCEPT ![p] = e]
    BY <1>6 DEF LooksUp, Goes
  <2>2. e.op = "hash" /\ e.stage = "hashfetch" /\ e.f = r.f /\ e.tags = r.tags /\ e.res = r.res
    BY ZenonT(20), <1>1, Fields
  <2>. HIDE DEF e
  <2>3. Current(e, h)
    BY ZenonT(20), <1>1, <2>2 DEF Query, Current, Asks, Has
  <2>4. Query(e, h)
    BY ZenonT(20), <1>3, <2>2, <2>3 DEF Query, Stages, Passing, Looking, Walking, Answered
  <2>. QED BY ZenonT(20), <1>2, <2>1, <2>4, LocalQuery
<1>7. CASE LooksUp(p) /\ ~Has(r, r.f, "hash", keys)
  <2>1. run' = [run EXCEPT ![p] = Ended(r)]
    BY <1>7 DEF LooksUp, Goes
  <2>2. h.steady = {}
    BY ZenonT(20), <1>4, <1>7 DEF Has
  <2>3. Query(Ended(r), h)
    BY ZenonT(20), <1>1, <1>3, <1>5, <2>2
  <2>. QED BY ZenonT(20), <1>2, <2>1, <2>3, LocalQuery
<1>8. CASE FetchesHash(p)
  <2>. DEFINE e == [r EXCEPT !.res = {r.f} \intersect Keys]
  <2>1. run' = [run EXCEPT ![p] = Ended(e)]
    BY <1>8 DEF FetchesHash, Goes
  <2>2. DOMAIN e = DOMAIN Idle /\ e.op = "hash" /\ e.res = {r.f} \intersect Keys
    BY ZenonT(20), <1>1, Fields
  <2>. HIDE DEF e
  <2>3. h.steady \subseteq e.res
    BY ZenonT(20), <1>3, <1>4, <2>2 DEF Keys
  <2>4. Query(Ended(e), h)
    BY ZenonT(20), <1>5, <2>2, <2>3
  <2>. QED BY ZenonT(20), <1>2, <2>1, <2>4, LocalQuery
<1>. QED BY ZenonT(20), <1>6, <1>7, <1>8

\* iterate_keys: the walk goes on after the place it has come to.
LEMMA WalkQuery ==
    ASSUME CountInv, QueryInv, NEW p \in Proc, Visits(p) \/ VisitFails(p)
    PROVE  QueryInv'
<1>. DEFINE r == run[p]
            h == hist[p]
<1>1. DOMAIN r = DOMAIN Idle /\ Query(r, h) /\ r.stage = "walk" /\ r.op \in {"walk", "clean"}
  BY ZenonT(20) DEF CountInv, QueryInv, Query, Visits, VisitFails, At, Stages
<1>2. UNCHANGED <<keys, hist>>
  BY ZenonT(20) DEF Visits, VisitFails, Keeps
<1>3. /\ r.pos \in Nat \X Nat
      /\ \A f \in r.res : <<f, "aged">> \in h.ever
      /\ ~r.cut => \A f \in h.steady : f \in r.res \/ Beyond(f, r.pos)
  BY ZenonT(20), <1>1 DEF Query, Walking
<1>4. /\ \A f \in h.steady : f \in Keys /\ "aged" \in keys[f]
      /\ \A f \in Fp : "aged" \in keys[f] => <<f, "aged">> \in h.ever
  BY ZenonT(20), <1>1 DEF Query, Current, Asks, Has, Keys
<1>5. \A pos : \A f \in Keys : f \in After(pos) <=> Beyond(f, pos)
  BY ZenonT(20) DEF After, Beyond, Place
<1>6. ASSUME NEW e, e.op = r.op, e.stage = "walk", Walking(e, h) PROVE Query(e, h)
  <2>1. Asks(e) = {"aged"} /\ \A f \in Fp : Has(e, f, "aged", keys) <=> "aged" \in keys[f]
    BY ZenonT(20), <1>1, <1>6 DEF Asks, Has
  <2>2. h.steady \subseteq Fp
    BY ZenonT(20), <1>4 DEF Keys
  <2>3. Current(e, h)
    BY ZenonT(20), <1>4, <2>1, <2>2 DEF Current
  <2>. QED BY ZenonT(20), <1>1, <1>6, <2>3 DEF Query, Stages, Passing, Looking, Answered
<1>7. CASE Visits(p) /\ After(r.pos) = {}
  <2>1. run' = [run EXCEPT ![p] = WalkEnds(r)]
    BY ZenonT(20), <1>7 DEF Visits, Goes
  <2>2. Gathered(r, h)
    BY ZenonT(20), <1>3, <1>4, <1>5, <1>7 DEF Gathered
  <2>3. CASE r.op = "clean"
    <3>. DEFINE e == [r EXCEPT !.list = r.res]
    <3>1. DOMAIN e = DOMAIN Idle /\ e.op = "clean" /\ e.res = r.res /\ e.cut = r.cut
      BY ZenonT(20), <1>1, <2>3, Fields
    <3>. HIDE DEF e
    <3>2. Gathered(e, h)
      BY ZenonT(20), <2>2, <3>1 DEF Gathered
    <3>3. Query(NextDelete(e), h)
      BY ZenonT(20), <3>1, <3>2, NextDeleteQuery
    <3>4. WalkEnds(r) = NextDelete(e)
      BY ZenonT(20), <2>3 DEF WalkEnds, e
    <3>. QED BY ZenonT(20), <1>2, <2>1, <3>3, <3>4, LocalQuery
  <2>4. CASE r.op = "walk"
    <3>. DEFINE e == Ended(r)
    <3>1. e.op = "walk" /\ e.stage = "done" /\ e.res = r.res /\ e.cut = r.cut
      BY <1>1, <2>4, EndedForm
    <3>2. WalkEnds(r) = e
      BY ZenonT(20), <2>4 DEF WalkEnds
    <3>. HIDE DEF e
    <3>3. Gathered(e, h)
      BY ZenonT(20), <2>2, <3>1 DEF Gathered
    <3>4. Query(e, h)
      BY <3>1, <3>3, GatheredQuery
    <3>. QED BY ZenonT(20), <1>2, <2>1, <3>2, <3>4, LocalQuery
  <2>. QED BY ZenonT(20), <1>1, <2>3, <2>4
<1>8. CASE Visits(p) /\ After(r.pos) # {}
  <2>. DEFINE f == NextKey(r.pos)
              e == [r EXCEPT !.pos = Place(f), !.res = @ \union Collects(f)]
  <2>1. run' = [run EXCEPT ![p] = e]
    BY ZenonT(20), <1>8 DEF Visits, Goes
  <2>2. f \in After(r.pos) /\ \A g \in After(r.pos) \ {f} : Beyond(g, Place(f))
    BY <1>3, <1>8, NextKeyIs
  <2>3. f \in Fp /\ f \in Keys
    BY ZenonT(20), <2>2 DEF After, Keys
  <2>4. Place(f) \in Nat \X Nat
    <3>1. f \in Nat /\ NumDbs \in Nat \ {0}
      BY ZenonT(20), <2>3, QueryAssumption
    <3>. HIDE DEF f
    <3>2. f % NumDbs \in Nat
      BY <3>1
    <3>. QED BY ZenonT(20), <3>1, <3>2 DEF Place
  <2>. HIDE DEF f
  <2>5. /\ e.op = r.op /\ e.stage = "walk" /\ e.pos = Place(f) /\ e.cut = r.cut
        /\ e.res = r.res \union Collects(f)
    BY <1>1, Fields
  <2>. HIDE DEF e
  <2>6. \A g \in e.res : <<g, "aged">> \in h.ever
    BY ZenonT(20), <1>3, <1>4, <2>3, <2>5 DEF Collects
  <2>7. ASSUME ~r.cut, NEW g \in h.steady PROVE g \in e.res \/ Beyond(g, e.pos)
    <3>1. CASE g = f
      BY ZenonT(20), <1>4, <2>5, <2>7, <3>1 DEF Collects
    <3>2. CASE g # f
      <4>1. g \in r.res \/ g \in After(r.pos)
        BY ZenonT(20), <1>3, <1>4, <1>5, <2>7
      <4>. QED BY ZenonT(20), <2>2, <2>5, <3>2, <4>1
    <3>. QED BY ZenonT(20), <3>1, <3>2
  <2>8. Walking(e, h)
    BY ZenonT(20), <2>4, <2>5, <2>6, <2>7 DEF Walking
  <2>. QED BY ZenonT(20), <1>2, <1>6, <2>1, <2>5, <2>8, LocalQuery
<1>9. CASE VisitFails(p)
  <2>. DEFINE e == [r EXCEPT !.pos = <<@[1] + 1, 0>>, !.cut = TRUE]
  <2>1. run' = [run EXCEPT ![p] = e]
    BY ZenonT(20), <1>9 DEF VisitFails, Goes
  <2>2. /\ e.op = r.op /\ e.stage = "walk" /\ e.res = r.res /\ e.cut = TRUE
        /\ e.pos = <<r.pos[1] + 1, 0>>
    BY ZenonT(20), <1>1, Fields
  <2>. HIDE DEF e
  <2>3. e.pos \in Nat \X Nat
    BY <1>3, <2>2
  <2>4. Walking(e, h)
    BY ZenonT(20), <1>3, <2>2, <2>3 DEF Walking
  <2>. QED BY ZenonT(20), <1>2, <1>6, <2>1, <2>2, <2>4, LocalQuery
<1>. QED BY ZenonT(20), <1>7, <1>8, <1>9

\* An operation starts: its history begins with the keys there are.
LEMMA BeginsQuery ==
    ASSUME CountInv, QueryInv, NEW p \in Proc, NEW r, Starts(p, r), Stages(r),
           LET j == Seen(r, [steady |-> Keys, ever |-> {}], keys) IN
           Passing(r, j) /\ Looking(r, j) /\ Walking(r, j) /\ Answered(r, j)
    PROVE  QueryInv'
<1>. DEFINE h == [steady |-> Keys, ever |-> {}]
            j == Seen(r, h, keys)
<1>1. /\ \A q \in Proc : run'[q] = IF q = p THEN r ELSE run[q]
      /\ \A q \in Proc : hist'[q] = IF q = p THEN j ELSE hist[q]
      /\ DOMAIN hist' = Proc /\ keys' = keys
  BY ZenonT(20) DEF CountInv, QueryInv, Starts
<1>2. h.steady \subseteq Fp
  BY ZenonT(20) DEF Keys
<1>3. Current(r, j)
  BY ZenonT(20), <1>2, SeenCurrent DEF Current
<1>. HIDE DEF j
<1>4. Query(r, j)
  BY ZenonT(20), <1>3 DEF Query, j
<1>5. ASSUME NEW q \in Proc PROVE Query(run[q], hist[q])'
  <2>1. Query(run'[q], hist'[q])
    BY ZenonT(20), <1>1, <1>4, <1>5 DEF QueryInv
  <2>. QED BY ZenonT(20), <1>1, <2>1 DEF Query, Current
<1>. QED BY ZenonT(20), <1>1, <1>5 DEF QueryInv

LEMMA StartsQuery ==
    ASSUME CountInv, QueryInv, NEW p \in Proc, OpStarts(p)
    PROVE  QueryInv'
<1>. DEFINE h == [steady |-> Keys, ever |-> {}]
<1>1. CASE Searches(p)
  <2>1. PICK ws \in Texts :
           Starts(p, NextPass([Idle EXCEPT !.op = "search", !.words = ws, !.tags = ToSet(ws)]))
    BY ZenonT(20), <1>1 DEF Searches
  <2>. DEFINE e == [Idle EXCEPT !.op = "search", !.words = ws, !.tags = ToSet(ws)]
              r == NextPass(e)
              j == Seen(r, h, keys)
  <2>2. /\ e.op = "search" /\ e.words = ws /\ e.tags = ToSet(ws) /\ e.list = {}
        /\ e.first = TRUE /\ DOMAIN e = DOMAIN Idle
    BY ZenonT(20) DEF Idle
  <2>. HIDE DEF e
  <2>3. /\ r.op = "search" /\ r.words = ws /\ r.tags = ToSet(ws) /\ r.list = {}
        /\ r.first = TRUE /\ r.stage = IF ws # <<>> THEN "pass" ELSE "fetch"
    BY ZenonT(20), <2>2, Fields DEF NextPass
  <2>. HIDE DEF r, j
  <2>4. Passing(r, j)
    BY ZenonT(20), <2>3, QueryAssumption DEF Passing
  <2>5. Stages(r) /\ Looking(r, j) /\ Walking(r, j) /\ Answered(r, j)
    BY ZenonT(20), <2>3 DEF Stages, Looking, Walking, Answered
  <2>. QED BY ZenonT(20), <2>1, <2>4, <2>5, BeginsQuery DEF e, r, j
<1>2. CASE HashStarts(p)
  <2>1. PICK f \in Keys :
           Starts(p, [Idle EXCEPT !.op = "hash", !.stage = "lookup", !.f = f,
                                  !.tags = keys[f], !.need = <<R("hash")>>])
    BY ZenonT(20), <1>2 DEF HashStarts
  <2>. DEFINE r == [Idle EXCEPT !.op = "hash", !.stage = "lookup", !.f = f,
                                !.tags = keys[f], !.need = <<R("hash")>>]
              j == Seen(r, h, keys)
  <2>2. r.op = "hash" /\ r.stage = "lookup" /\ r.f = f /\ r.tags = keys[f] /\ r.res = {}
    BY ZenonT(20) DEF Idle
  <2>3. f \in Fp /\ keys[f] # {}
    BY ZenonT(20) DEF Keys
  <2>. HIDE DEF r
  <2>4. "hash" \in Asks(r) /\ Has(r, f, "hash", keys)
    BY ZenonT(20), <2>2 DEF Asks, Has
  <2>5. <<f, "hash">> \in j.ever
    <3>1. h.steady \subseteq Fp
      BY ZenonT(20) DEF Keys
    <3>. QED BY ZenonT(20), <2>3, <2>4, <3>1, SeenCurrent
  <2>. HIDE DEF j
  <2>6. Stages(r) /\ Passing(r, j) /\ Looking(r, j) /\ Walking(r, j) /\ Answered(r, j)
    BY ZenonT(20), <2>2, <2>3, <2>5 DEF Stages, Passing, Looking, Walking, Answered
  <2>. QED BY ZenonT(20), <2>1, <2>6, BeginsQuery DEF r, j
<1>3. CASE WalkStarts(p)
  <2>1. PICK op \in {"walk", "clean"} : Starts(p, [Idle EXCEPT !.op = op, !.stage = "walk"])
    BY ZenonT(20), <1>3 DEF WalkStarts
  <2>. DEFINE r == [Idle EXCEPT !.op = op, !.stage = "walk"]
              j == Seen(r, h, keys)
  <2>2. r.op = op /\ r.stage = "walk" /\ r.pos = <<0, 0>> /\ r.res = {}
    BY DEF Idle
  <2>3. j.steady \subseteq Fp
    BY SeenKeeps DEF Keys
  <2>. HIDE DEF r, j
  <2>4. \A f \in Fp : Beyond(f, r.pos)
    <3>. SUFFICES ASSUME NEW f \in Fp PROVE Beyond(f, <<0, 0>>)
      BY ZenonT(20), <2>2
    <3>1. f \in Nat /\ f > 0 /\ f % NumDbs \in Nat
      BY QueryAssumption
    <3>2. f % NumDbs > 0 \/ (f % NumDbs = 0 /\ f > 0)
      BY <3>1
    <3>. QED BY <3>2 DEF Beyond
  <2>5. Walking(r, j)
    BY <2>2, <2>3, <2>4 DEF Walking
  <2>6. Stages(r) /\ Passing(r, j) /\ Looking(r, j) /\ Answered(r, j)
    BY ZenonT(20), <2>1, <2>2 DEF Stages, Passing, Looking, Answered
  <2>. QED BY ZenonT(20), <2>1, <2>5, <2>6, BeginsQuery DEF r, j
<1>4. CASE DeleteStarts(p)
  <2>1. PICK f \in Fp : Starts(p, NextDelete([Idle EXCEPT !.op = "delete", !.list = {f}]))
    BY ZenonT(20), <1>4 DEF DeleteStarts
  <2>. DEFINE e == [Idle EXCEPT !.op = "delete", !.list = {f}]
              r == NextDelete(e)
              j == Seen(r, h, keys)
  <2>2. e.op = "delete" /\ DOMAIN e = DOMAIN Idle
    BY ZenonT(20) DEF Idle
  <2>. HIDE DEF e, j
  <2>3. Query(r, j)
    BY ZenonT(20), <2>2, NextDeleteQuery
  <2>. QED BY ZenonT(20), <2>1, <2>3, BeginsQuery DEF Query, e, j
<1>5. CASE UpdateStarts(p)
  <2>1. PICK f \in Fp, t \in Submitted :
           Starts(p, [Idle EXCEPT !.op = "update", !.stage = "read", !.f = f, !.tags = t,
                                  !.need = <<R("keys")>>])
    BY ZenonT(20), <1>5 DEF UpdateStarts
  <2>. DEFINE r == [Idle EXCEPT !.op = "update", !.stage = "read", !.f = f, !.tags = t,
                                !.need = <<R("keys")>>]
              j == Seen(r, h, keys)
  <2>2. r.op = "update" /\ r.stage = "read"
    BY ZenonT(20) DEF Idle
  <2>. HIDE DEF r, j
  <2>3. Stages(r)
    BY ZenonT(20), <2>2 DEF Stages
  <2>4. Query(r, j)
    BY <2>2, <2>3, PlainQuery
  <2>. QED BY ZenonT(20), <2>1, <2>4, BeginsQuery DEF Query, r, j
<1>. QED BY ZenonT(20), <1>1, <1>2, <1>3, <1>4, <1>5 DEF OpStarts

\* A lock is taken.
LEMMA GetsQuery ==
    ASSUME CountInv, QueryInv, NEW p \in Proc, Gets(p)
    PROVE  QueryInv'
<1>. DEFINE r == run[p]
            e == run'[p]
<1>1. DOMAIN r = DOMAIN Idle /\ Query(r, hist[p])
  BY ZenonT(20) DEF CountInv, QueryInv
<1>2. Alike(r, e)
  BY ZenonT(20), <1>1, Fields DEF Gets, CountInv, Alike
<1>3. /\ UNCHANGED <<keys, hist>>
      /\ \A q \in Proc : q # p => run'[q] = run[q]
  BY ZenonT(20) DEF Gets, CountInv
<1>4. ASSUME NEW q \in Proc PROVE Query(run[q], hist[q])'
  <2>1. Query(run'[q], hist[q])
    <3>1. CASE q = p
      BY ZenonT(20), <1>1, <1>2, <3>1, AlikeQuery
    <3>2. CASE q # p
      BY ZenonT(20), <1>3, <1>4, <3>2 DEF QueryInv
    <3>. QED BY ZenonT(20), <3>1, <3>2
  <2>. QED BY ZenonT(20), <1>3, <2>1 DEF Query, Current
<1>. QED BY ZenonT(20), <1>3, <1>4 DEF QueryInv

\* Every step keeps the invariant.
LEMMA QueryStep ==
    ASSUME CountInv, QueryInv, [Next]_vars
    PROVE  QueryInv'
<1>1. ASSUME NEW p \in Proc, OpStep(p) PROVE QueryInv'
  BY <1>1, GetsQuery, PassesQuery, FetchesQuery, HashQuery, WalkQuery, ChangesQuery DEF OpStep
<1>2. ASSUME NEW p \in Proc, OpStarts(p) PROVE QueryInv'
  BY ZenonT(20), <1>2, StartsQuery
<1>3. ASSUME NEW p \in Proc, VisitFails(p) PROVE QueryInv'
  BY ZenonT(20), <1>3, WalkQuery
<1>4. CASE Detects
  <2>1. PICK p \in Proc : run' = [run EXCEPT ![p] = Idle]
    BY ZenonT(20), <1>4 DEF Detects
  <2>2. UNCHANGED <<keys, hist>>
    BY <1>4 DEF Detects
  <2>. QED BY ZenonT(20), <2>1, <2>2, IdleQuery, LocalQuery
<1>5. CASE UNCHANGED <<keys, run, hist>>
  BY ZenonT(20), <1>5 DEF QueryInv, Query, Current
<1>. QED BY ZenonT(20), <1>1, <1>2, <1>3, <1>4, <1>5 DEF Next, vars

\* What the invariant says of the answers.
LEMMA QueryInvExact == QueryInv => QueryExact
<1>. SUFFICES ASSUME QueryInv, NEW p \in Proc, Sought(p) \/ Collected(p)
              PROVE  Exact(run[p], hist[p], AskedOf(p))
  BY ZenonT(20) DEF QueryExact, Exact
<1>1. Query(run[p], hist[p])
  BY ZenonT(20) DEF QueryInv
<1>2. CASE Sought(p)
  BY ZenonT(20), <1>1, <1>2 DEF Sought, Busy, AskedOf, Query, Answered
<1>3. CASE Collected(p)
  <2>1. AskedOf(p) = {"aged"} /\ Gathered(run[p], hist[p]) /\ ~run[p].cut
    BY ZenonT(20), <1>1, <1>3 DEF Collected, AskedOf, Query, Answered
  <2>. QED BY ZenonT(20), <2>1 DEF Gathered, Exact
<1>. QED BY ZenonT(20), <1>2, <1>3

\* fetch_key_text, fetch_key_skshash and iterate_keys beside updates and deletes
\* of other processes: a key that has what is asked for all the time is found,
\* and one that is found had it at some time (QueryExact), for any number of
\* keys, words, files and processes.
THEOREM QueriesAreExact == Spec => []QueryExact
<1>1. Init => QueryInv
  <2>. SUFFICES ASSUME Init PROVE QueryInv
    OBVIOUS
  <2>1. \A p \in Proc : run[p] = Idle
    BY DEF Init
  <2>2. DOMAIN hist = Proc
    BY ZenonT(20) DEF Init
  <2>. QED BY ZenonT(20), <2>1, <2>2, IdleQuery DEF QueryInv
<1>2. CountInv /\ QueryInv /\ [Next]_vars => QueryInv'
  BY QueryStep
<1>. QED BY <1>1, <1>2, CountInvHolds, QueryInvExact, PTL DEF Spec
=============================================================================
