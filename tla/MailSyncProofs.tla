--------------------------- MODULE MailSyncProofs ---------------------------
(***************************************************************************)
(* Proofs about MailSync, for any sites, syncsites, policies and parts and *)
(* any number of processes, submissions and faults: a site's mail queue is *)
(* gone through by one process at a time, the X-KeyServer-Sent headers are *)
(* true, and they never keep a part from a site that needs it.             *)
(***************************************************************************)
EXTENDS MailSync, TLAPS

USE SyncAssumption, AcceptsAssumption

\* A process record has the type Proc.
LEMMA DoingType ==
    ASSUME NEW at \in {"idle", "locking", "scan", "submit", "forward"},
           NEW must \in SUBSET Mail, NEW body \in SUBSET Part, NEW seen \in SUBSET Site
    PROVE  /\ Doing(at, must, body, seen) \in Proc
           /\ Doing(at, must, body, seen).at = at
           /\ Doing(at, must, body, seen).must = must
           /\ Doing(at, must, body, seen).body = body
           /\ Doing(at, must, body, seen).seen = seen
BY DEF Doing, Proc

\* Every state of MailSync has the types that its declarations say.
LEMMA TypeStep == TypeOK /\ [Next]_vars => TypeOK'
<1> SUFFICES ASSUME TypeOK, [Next]_vars PROVE TypeOK'
  OBVIOUS
<1> USE DEF TypeOK
<1>p. ASSUME NEW s \in Site, NEW i \in Inst, NEW r \in Proc, Goes(s, i, r)
      PROVE  proc' \in [Site -> [Inst -> Proc]]
  BY <1>p DEF Goes
<1>1. ASSUME NEW s \in Site, NEW body \in SUBSET Part, UserMails(s, body)
      PROVE  TypeOK'
  BY <1>1 DEF UserMails, Mails, Mail
<1>2. ASSUME NEW s \in Site, NEW body \in SUBSET Part, WebAdds(s, body)
      PROVE  TypeOK'
  <2>1. New(s, body) \in SUBSET Part
    BY DEF New
  <2>2. Mails(Sync[s], New(s, body), {s}) \in SUBSET Mail
    BY <2>1 DEF Mails, Mail
  <2>3. (Sync[s] \X New(s, body)) \in SUBSET (Site \X Part)
    BY <2>1
  <2>4. store' \in [Site -> SUBSET Part]
    BY <1>2, <2>1 DEF WebAdds
  <2>5. net' \in SUBSET Mail
    BY <1>2, <2>2 DEF WebAdds
  <2>6. lost' \in SUBSET (Site \X Part)
    BY <1>2, <2>3 DEF WebAdds
  <2>7. submits' \in Nat /\ faults' \in Nat
    BY <1>2 DEF WebAdds, Fault
  <2> QED BY <1>2, <2>4, <2>5, <2>6, <2>7 DEF WebAdds
<1>3. ASSUME NEW m \in net, NEW i \in Inst, Delivers(m, i)
      PROVE  TypeOK'
  <2>1. m \in Mail /\ m.to \in Site
    BY DEF Mail
  <2>2. proc' \in [Site -> [Inst -> Proc]]
    BY <1>3, <1>p, <2>1, DoingType DEF Delivers
  <2>3. spool' \in [Site -> SUBSET Mail]
    BY <1>3, <2>1 DEF Delivers
  <2>4. net' \in SUBSET Mail /\ faults' \in Nat
    BY <1>3 DEF Delivers, Fault
  <2> QED BY <1>3, <2>2, <2>3, <2>4 DEF Delivers
<1>4. ASSUME NEW s \in Site, NEW i \in Inst, Locks(s, i)
      PROVE  TypeOK'
  <2>1. proc' \in [Site -> [Inst -> Proc]]
    <3>1. Idle \in Proc /\ Doing("scan", spool[s], {}, {}) \in Proc
      BY SMTT(30), DoingType DEF Idle
    <3> QED BY <1>4, <1>p, <3>1 DEF Locks
  <2>2. lock' \in [Site -> BOOLEAN]
    BY <1>4 DEF Locks
  <2> QED BY <1>4, <2>1, <2>2 DEF Locks
<1>5. ASSUME NEW s \in Site, NEW i \in Inst, NEW m \in spool[s], Takes(s, i, m)
      PROVE  TypeOK'
  <2>1. m.body \in SUBSET Part /\ m.seen \in SUBSET Site
    BY DEF Mail
  <2>2. proc[s][i].must \in SUBSET Mail
    BY DEF Proc
  <2>3. proc' \in [Site -> [Inst -> Proc]]
    <3>1. Doing("submit", proc[s][i].must \ {m}, m.body, m.seen) \in Proc
      BY <2>1, <2>2, DoingType
    <3> QED BY <1>5, <1>p, <3>1 DEF Takes
  <2> QED BY <1>5, <2>3 DEF Takes
<1>6. ASSUME NEW s \in Site, NEW i \in Inst, Submits(s, i)
      PROVE  TypeOK'
  <2>1. New(s, proc[s][i].body) \in SUBSET Part
    BY DEF New
  <2>2. proc[s][i].must \in SUBSET Mail /\ proc[s][i].seen \in SUBSET Site
    BY DEF Proc
  <2>3. proc' \in [Site -> [Inst -> Proc]]
    BY <1>6, <1>p, <2>1, <2>2, DoingType DEF Submits
  <2> QED BY <1>6, <2>1, <2>3 DEF Submits
<1>7. ASSUME NEW s \in Site, NEW i \in Inst, Forwards(s, i)
      PROVE  TypeOK'
  <2>1. Mails(Unseen(s, proc[s][i].seen), proc[s][i].body,
              proc[s][i].seen \cup {s}) \in SUBSET Mail
    BY DEF Mails, Mail, Unseen, Proc
  <2>2. proc[s][i].must \in SUBSET Mail
    BY DEF Proc
  <2>3. proc' \in [Site -> [Inst -> Proc]]
    BY SMTT(30), <1>7, <1>p, <2>2, DoingType DEF Forwards
  <2> QED BY <1>7, <2>1, <2>3 DEF Forwards
<1>8. ASSUME NEW s \in Site, NEW i \in Inst, Unlocks(s, i)
      PROVE  TypeOK'
  <2>1. proc' \in [Site -> [Inst -> Proc]]
    BY <1>8, <1>p, DoingType DEF Unlocks, Idle
  <2> QED BY <1>8, <2>1 DEF Unlocks
<1>9. ASSUME NEW m \in net, Loses(m)
      PROVE  TypeOK'
  <2>1. ({m.to} \X m.body) \in SUBSET (Site \X Part)
    BY DEF Mail
  <2> QED BY <1>9, <2>1 DEF Loses, Fault
<1>10. ASSUME NEW s \in Site, Crashes(s)
       PROVE  TypeOK'
  <2>1. ASSUME NEW i \in Inst
        PROVE  InHand(s, proc[s][i]) \in SUBSET (Site \X Part)
    BY DEF InHand, Unseen, Proc
  <2>2. Idle \in Proc
    BY DoingType DEF Idle
  <2> QED BY <1>10, <2>1, <2>2 DEF Crashes, Fault
<1>11. ASSUME NEW s \in Site, AdminUnlocks(s)
       PROVE  TypeOK'
  BY <1>11 DEF AdminUnlocks
<1>12. CASE UNCHANGED vars
  BY <1>12 DEF vars
<1> QED BY <1>1, <1>2, <1>3, <1>4, <1>5, <1>6, <1>7, <1>8, <1>9, <1>10, <1>11,
           <1>12 DEF Next, ProcStep

\* Empty stores and idle processes have their types.
LEMMA TypeInit == Init => TypeOK
BY DoingType DEF Init, TypeOK, Idle

\* Goes changes one process and no other.
LEMMA ProcAfter ==
    ASSUME TypeOK, NEW s \in Site, NEW i \in Inst, NEW r, Goes(s, i, r)
    PROVE  \A t \in Site, j \in Inst :
               proc'[t][j] = IF t = s /\ j = i THEN r ELSE proc[t][j]
BY DEF TypeOK, Goes

\* A process that Doing describes is at the place it says.
LEMMA DoingAt ==
    ASSUME NEW at, NEW must, NEW body, NEW seen
    PROVE  /\ Doing(at, must, body, seen).at = at
           /\ Doing(at, must, body, seen).body = body
           /\ Doing(at, must, body, seen).seen = seen
BY DEF Doing

\* A process that is done is idle.
LEMMA IdleAt == Idle.at = "idle"
BY DEF Doing, Idle

\* No step gives the queue a second processor, or takes the lock file from the one
\* there is.
LEMMA OneStep == TypeOK /\ OneProcessor /\ [Next]_vars => OneProcessor'
<1> SUFFICES ASSUME TypeOK, OneProcessor, [Next]_vars PROVE OneProcessor'
  OBVIOUS
<1>1. CASE UNCHANGED <<lock, proc>>
  BY <1>1 DEF OneProcessor, Processing
<1>2. ASSUME NEW m \in net, NEW i \in Inst, Delivers(m, i)
      PROVE  OneProcessor'
  <2>1. m.to \in Site
    BY DEF TypeOK, Mail
  <2>2. \A t \in Site, j \in Inst : Processing(t, j)' => Processing(t, j)
    BY <1>2, <2>1, ProcAfter, DoingAt DEF Delivers, Processing
  <2> QED BY <1>2, <2>2 DEF OneProcessor, Delivers
<1>3. ASSUME NEW s \in Site, NEW i \in Inst, Locks(s, i)
      PROVE  OneProcessor'
  <2>1. CASE lock[s]
    <3>1. Goes(s, i, Idle)
      BY <1>3, <2>1 DEF Locks
    <3>2. \A t \in Site, j \in Inst : Processing(t, j)' => Processing(t, j)
      <4>1. \A t \in Site, j \in Inst :
                proc'[t][j] = IF t = s /\ j = i THEN Idle ELSE proc[t][j]
        BY <3>1, ProcAfter
      <4> QED BY <4>1, IdleAt DEF Processing
    <3> QED BY <1>3, <2>1, <3>2 DEF OneProcessor, Locks
  <2>2. CASE ~lock[s]
    <3>1. \A j \in Inst : ~Processing(s, j)
      BY <2>2 DEF OneProcessor
    <3>2. \A t \in Site, j \in Inst :
              Processing(t, j)' => Processing(t, j) \/ (t = s /\ j = i)
      <4>1. Goes(s, i, Doing("scan", spool[s], {}, {}))
        BY <1>3, <2>2 DEF Locks
      <4>2. \A t \in Site, j \in Inst : (t = s /\ j = i) \/ proc'[t][j] = proc[t][j]
        BY <4>1, ProcAfter
      <4> QED BY <4>2 DEF Processing
    <3>3. lock'[s] /\ \A t \in Site : lock[t] => lock'[t]
      BY <1>3, <2>2 DEF Locks, TypeOK
    <3> QED BY <3>1, <3>2, <3>3 DEF OneProcessor
  <2> QED BY <2>1, <2>2
<1>4. ASSUME NEW s \in Site, NEW i \in Inst, NEW r,
             Goes(s, i, r), Processing(s, i), UNCHANGED lock
      PROVE  OneProcessor'
  <2>1. \A t \in Site, j \in Inst : Processing(t, j)' => Processing(t, j)
    BY <1>4, ProcAfter DEF Processing
  <2> QED BY <1>4, <2>1 DEF OneProcessor
<1>5. ASSUME NEW s \in Site, NEW i \in Inst, Unlocks(s, i)
      PROVE  OneProcessor'
  <2>1. \A t \in Site, j \in Inst :
            Processing(t, j)' => Processing(t, j) /\ ~(t = s /\ j = i)
    <3>1. Goes(s, i, Idle)
      BY <1>5 DEF Unlocks
    <3> QED BY <3>1, ProcAfter, IdleAt DEF Processing
  <2>2. \A j \in Inst \ {i} : ~Processing(s, j)
    BY <1>5 DEF Unlocks, OneProcessor, Processing
  <2>3. \A t \in Site \ {s} : lock'[t] = lock[t]
    BY <1>5 DEF Unlocks, TypeOK
  <2> QED BY <2>1, <2>2, <2>3 DEF OneProcessor
<1>6. ASSUME NEW s \in Site, Crashes(s)
      PROVE  OneProcessor'
  <2>1. \A t \in Site, j \in Inst : Processing(t, j)' => Processing(t, j)
    BY <1>6, IdleAt DEF Crashes, Processing, TypeOK
  <2> QED BY <1>6, <2>1 DEF OneProcessor, Crashes
<1>7. ASSUME NEW s \in Site, AdminUnlocks(s)
      PROVE  OneProcessor'
  <2>1. \A j \in Inst : ~Processing(s, j)
    BY <1>7 DEF AdminUnlocks, Processing
  <2>2. \A t \in Site \ {s} : lock'[t] = lock[t]
    BY <1>7 DEF AdminUnlocks, TypeOK
  <2> QED BY <1>7, <2>1, <2>2 DEF OneProcessor, AdminUnlocks, Processing
<1>8. ASSUME NEW s \in Site, NEW i \in Inst, ProcStep(s, i)
      PROVE  OneProcessor'
  <2>1. ASSUME NEW m \in spool[s], Takes(s, i, m) PROVE OneProcessor'
    BY <1>4, <2>1 DEF Takes, Processing
  <2>2. CASE Submits(s, i)
    BY <1>4, <2>2 DEF Submits, Processing
  <2>3. CASE Forwards(s, i)
    BY <1>4, <2>3 DEF Forwards, Processing
  <2> QED BY <1>3, <1>5, <1>8, <2>1, <2>2, <2>3 DEF ProcStep
<1> QED BY <1>1, <1>2, <1>6, <1>7, <1>8
        DEF Next, vars, UserMails, WebAdds, Loses

\* One process of a site at a time goes through its mail queue: the comment on
\* the lock file, for any number of processes, crashes and stale lock files.
THEOREM QueueExclusive == Spec => [](TypeOK /\ OneProcessor)
<1>1. Init => TypeOK /\ OneProcessor
  BY TypeInit, IdleAt DEF Init, OneProcessor, Processing
<1> QED BY <1>1, TypeStep, OneStep, PTL DEF Spec

\* No step takes a part from a site.
LEMMA StoresGrow ==
    TypeOK /\ [Next]_vars => \A t \in Site : store[t] \subseteq store'[t]
<1> SUFFICES ASSUME TypeOK, [Next]_vars PROVE \A t \in Site : store[t] \subseteq store'[t]
  OBVIOUS
<1>1. ASSUME NEW s \in Site, NEW new, store' = [store EXCEPT ![s] = @ \cup new]
      PROVE  \A t \in Site : store[t] \subseteq store'[t]
  BY <1>1 DEF TypeOK
<1>2. ASSUME NEW s \in Site, NEW body \in SUBSET Part, WebAdds(s, body)
      PROVE  \A t \in Site : store[t] \subseteq store'[t]
  BY <1>1, <1>2 DEF WebAdds
<1>3. ASSUME NEW s \in Site, NEW i \in Inst, ProcStep(s, i)
      PROVE  \A t \in Site : store[t] \subseteq store'[t]
  <2>1. CASE Submits(s, i)
    BY <1>1, <2>1 DEF Submits
  <2> QED BY <1>3, <2>1 DEF ProcStep, Locks, Takes, Forwards, Unlocks
<1> QED BY <1>2, <1>3
        DEF Next, vars, UserMails, Delivers, Loses, Crashes, AdminUnlocks

\* What a record claims stays true, and what it claims of less is true too.
LEMMA HadStays ==
    ASSUME TypeOK, [Next]_vars, NEW m, NEW r,
           Had(m, store), m.seen \subseteq Site, r.seen = m.seen,
           r.body \subseteq m.body
    PROVE  Had(r, store')
BY StoresGrow DEF Had

\* No step makes a header false: stores only grow, and a site that forwards a
\* mail adds no name but its own, to parts that it has added.
LEMMA HeadersStep == TypeOK /\ HeadersTrue /\ [Next]_vars => HeadersTrue'
<1> SUFFICES ASSUME TypeOK, HeadersTrue, [Next]_vars PROVE HeadersTrue'
  OBVIOUS
<1> DEFINE Carries(r) == r.at \in {"submit", "forward"}
           ProcTrue(t, j) ==
               /\ Carries(proc'[t][j]) => Had(proc'[t][j], store')
               /\ proc'[t][j].at = "forward" => proc'[t][j].body \subseteq store'[t]
           NetTrue == \A m \in net' : Had(m, store')
           SpoolTrue == \A t \in Site : \A m \in spool'[t] : Had(m, store')
<1>m. \A m \in Mail : m.seen \subseteq Site
  BY DEF Mail
<1>n. ASSUME NEW new, \A m \in new : Had(m, store'), net' \subseteq net \cup new
      PROVE  NetTrue
  <2>1. \A m \in net : Had(m, store')
    BY <1>m, HadStays DEF HeadersTrue, TypeOK
  <2> QED BY <1>n, <2>1
<1>o. ASSUME net' \subseteq net PROVE NetTrue
  BY <1>m, <1>o, HadStays DEF HeadersTrue, TypeOK
<1>s. ASSUME NEW s \in Site, NEW m \in net,
             \A t \in Site : spool'[t] \subseteq spool[t] \cup {m}
      PROVE  SpoolTrue
  <2>1. \A t \in Site : \A n \in spool[t] : Had(n, store')
    BY <1>m, HadStays DEF HeadersTrue, TypeOK
  <2>2. Had(m, store')
    BY <1>m, HadStays DEF HeadersTrue, TypeOK
  <2> QED BY <1>s, <2>1, <2>2
<1>k. ASSUME \A t \in Site : spool'[t] \subseteq spool[t]
      PROVE  SpoolTrue
  <2>1. \A t \in Site : \A n \in spool[t] : Had(n, store')
    BY <1>m, HadStays DEF HeadersTrue, TypeOK
  <2> QED BY <1>k, <2>1
<1>q. ASSUME NEW t \in Site, NEW j \in Inst,
             proc'[t][j] = proc[t][j] \/ ~Carries(proc'[t][j])
      PROVE  ProcTrue(t, j)
  <2>1. CASE proc'[t][j] = proc[t][j] /\ Carries(proc[t][j])
    <3>1. proc[t][j].seen \subseteq Site
      BY DEF TypeOK, Proc
    <3>2. Had(proc[t][j], store)
      BY <2>1 DEF HeadersTrue
    <3>3. Had(proc[t][j], store')
      BY <3>1, <3>2, HadStays
    <3>4. proc[t][j].at = "forward" => proc[t][j].body \subseteq store'[t]
      BY StoresGrow DEF HeadersTrue
    <3> QED BY <2>1, <3>3, <3>4
  <2> QED BY <1>q, <2>1
<1>g. ASSUME NEW s \in Site, NEW i \in Inst, NEW r, Goes(s, i, r),
             Carries(r) => Had(r, store'),
             r.at = "forward" => r.body \subseteq store'[s]
      PROVE  \A t \in Site, j \in Inst : ProcTrue(t, j)
  <2> TAKE t \in Site, j \in Inst
  <2>1. CASE t = s /\ j = i
    <3>1. proc'[t][j] = r
      BY <1>g, <2>1, ProcAfter
    <3> QED BY <1>g, <2>1, <3>1
  <2>2. CASE ~(t = s /\ j = i)
    <3>1. proc'[t][j] = proc[t][j]
      BY <1>g, <2>2, ProcAfter
    <3> QED BY <1>q, <3>1
  <2> QED BY <2>1, <2>2
<1>d. ASSUME NetTrue, SpoolTrue, \A t \in Site, j \in Inst : ProcTrue(t, j)
      PROVE  HeadersTrue'
  BY <1>d DEF HeadersTrue
<1>c. /\ \A must, body, seen : /\ ~Carries(Doing("scan", must, body, seen))
                               /\ ~Carries(Doing("locking", must, body, seen))
      /\ ~Carries(Idle)
      /\ \A r : r.at = "forward" => Carries(r)
  BY DoingAt, IdleAt
<1> HIDE DEF Carries, ProcTrue, NetTrue, SpoolTrue
<1>i. ASSUME NEW s \in Site, NEW i \in Inst, NEW r, Goes(s, i, r), ~Carries(r)
      PROVE  \A t \in Site, j \in Inst : ProcTrue(t, j)
  BY <1>c, <1>g, <1>i
<1>u. ASSUME UNCHANGED proc
      PROVE  \A t \in Site, j \in Inst : ProcTrue(t, j)
  BY <1>q, <1>u
<1>e. ASSUME UNCHANGED spool PROVE SpoolTrue
  BY <1>k, <1>e
<1>1. ASSUME NEW s \in Site, NEW body \in SUBSET Part, UserMails(s, body)
      PROVE  HeadersTrue'
  <2>1. \A m \in Mails({s}, body, {}) : Had(m, store')
    BY DEF Mails, Had
  <2>2. NetTrue
    BY <1>1, <1>n, <2>1 DEF UserMails
  <2> QED BY <1>1, <1>d, <1>e, <1>u, <2>2 DEF UserMails
<1>2. ASSUME NEW s \in Site, NEW body \in SUBSET Part, WebAdds(s, body)
      PROVE  HeadersTrue'
  <2>1. New(s, body) \subseteq store'[s]
    BY <1>2 DEF WebAdds, TypeOK
  <2>2. \A m \in Mails(Sync[s], New(s, body), {s}) : Had(m, store')
    BY <2>1 DEF Mails, Had
  <2>3. NetTrue
    BY <1>2, <1>n, <1>o, <2>2 DEF WebAdds
  <2> QED BY <1>2, <1>d, <1>e, <1>u, <2>3 DEF WebAdds
<1>3. ASSUME NEW m \in net, NEW i \in Inst, Delivers(m, i)
      PROVE  HeadersTrue'
  <2>1. m.to \in Site
    BY DEF TypeOK, Mail
  <2>2. \A t \in Site : spool'[t] \subseteq spool[t] \cup {m}
    BY <1>3, <2>1 DEF Delivers, TypeOK
  <2>3. SpoolTrue
    BY <1>s, <2>1, <2>2
  <2>4. \A t \in Site, j \in Inst : ProcTrue(t, j)
    BY <1>3, <1>c, <1>i, <2>1 DEF Delivers
  <2>5. NetTrue
    BY <1>3, <1>o DEF Delivers
  <2> QED BY <1>d, <2>3, <2>4, <2>5
<1>4. ASSUME NEW s \in Site, NEW i \in Inst, Locks(s, i)
      PROVE  HeadersTrue'
  <2>1. \A t \in Site, j \in Inst : ProcTrue(t, j)
    BY <1>4, <1>c, <1>i DEF Locks
  <2> QED BY <1>4, <1>d, <1>e, <1>o, <2>1 DEF Locks
<1>5. ASSUME NEW s \in Site, NEW i \in Inst, NEW m \in spool[s], Takes(s, i, m)
      PROVE  HeadersTrue'
  <2> DEFINE r == Doing("submit", proc[s][i].must \ {m}, m.body, m.seen)
  <2>1. r.at = "submit" /\ r.body = m.body /\ r.seen = m.seen
    BY DoingAt
  <2>2. Goes(s, i, r)
    BY <1>5 DEF Takes
  <2> HIDE DEF r
  <2>3. Had(r, store')
    BY <1>m, <2>1, HadStays DEF HeadersTrue, TypeOK
  <2>4. \A t \in Site, j \in Inst : ProcTrue(t, j)
    BY <1>g, <2>1, <2>2, <2>3
  <2>5. \A t \in Site : spool'[t] \subseteq spool[t]
    BY <1>5 DEF Takes, TypeOK
  <2> QED BY <1>5, <1>d, <1>k, <1>o, <2>4, <2>5 DEF Takes
<1>6. ASSUME NEW s \in Site, NEW i \in Inst, Submits(s, i)
      PROVE  HeadersTrue'
  <2> DEFINE r == Doing("forward", proc[s][i].must, New(s, proc[s][i].body),
                        proc[s][i].seen)
  <2>1. /\ r.at = "forward"
        /\ r.body = New(s, proc[s][i].body)
        /\ r.seen = proc[s][i].seen
    BY DoingAt
  <2>2. Goes(s, i, r)
    BY <1>6 DEF Submits
  <2> HIDE DEF r
  <2>3. r.body \subseteq store'[s]
    BY <1>6, <2>1 DEF Submits, TypeOK
  <2>4. proc[s][i].seen \subseteq Site
    BY DEF TypeOK, Proc
  <2>5. Had(proc[s][i], store)
    BY <1>6 DEF Submits, HeadersTrue
  <2>6. r.body \subseteq proc[s][i].body
    BY <2>1 DEF New
  <2>7. Had(r, store')
    BY <2>1, <2>4, <2>5, <2>6, HadStays
  <2>8. \A t \in Site, j \in Inst : ProcTrue(t, j)
    BY <1>g, <2>2, <2>3, <2>7
  <2> QED BY <1>6, <1>d, <1>e, <1>o, <2>8 DEF Submits
<1>7. ASSUME NEW s \in Site, NEW i \in Inst, Forwards(s, i)
      PROVE  HeadersTrue'
  <2> DEFINE body == proc[s][i].body
             seen == proc[s][i].seen
  <2>1. Had(proc[s][i], store) /\ body \subseteq store[s]
    BY <1>7 DEF Forwards, HeadersTrue
  <2>2. \A m \in Mails(Unseen(s, seen), body, seen \cup {s}) : Had(m, store)
    BY <2>1 DEF Mails, Had
  <2>3. store' = store
    BY <1>7 DEF Forwards
  <2>4. NetTrue
    BY <1>7, <1>n, <1>o, <2>2, <2>3 DEF Forwards
  <2>5. \A t \in Site, j \in Inst : ProcTrue(t, j)
    BY <1>7, <1>c, <1>i DEF Forwards
  <2> QED BY <1>7, <1>d, <1>e, <2>4, <2>5 DEF Forwards
<1>8. ASSUME NEW s \in Site, NEW i \in Inst, Unlocks(s, i)
      PROVE  HeadersTrue'
  <2>1. \A t \in Site, j \in Inst : ProcTrue(t, j)
    BY <1>8, <1>c, <1>i DEF Unlocks
  <2> QED BY <1>8, <1>d, <1>e, <1>o, <2>1 DEF Unlocks
<1>9. ASSUME NEW m \in net, Loses(m)
      PROVE  HeadersTrue'
  BY <1>9, <1>d, <1>e, <1>o, <1>u DEF Loses
<1>10. ASSUME NEW s \in Site, Crashes(s)
       PROVE  HeadersTrue'
  <2>1. \A t \in Site, j \in Inst : proc'[t][j] = proc[t][j] \/ proc'[t][j] = Idle
    BY <1>10 DEF Crashes, TypeOK
  <2>2. \A t \in Site, j \in Inst : ProcTrue(t, j)
    BY <1>c, <1>q, <2>1
  <2> QED BY <1>10, <1>d, <1>e, <1>o, <2>2 DEF Crashes
<1>11. ASSUME NEW s \in Site, AdminUnlocks(s)
       PROVE  HeadersTrue'
  BY <1>11, <1>d, <1>e, <1>o, <1>u DEF AdminUnlocks
<1>12. CASE UNCHANGED vars
  BY <1>12, <1>d, <1>e, <1>o, <1>u DEF vars
<1> QED BY <1>1, <1>2, <1>3, <1>4, <1>5, <1>6, <1>7, <1>8, <1>9, <1>10, <1>11,
           <1>12 DEF Next, ProcStep

\* Every site that an X-KeyServer-Sent header names has what the mail carries.
THEOREM HeadersHold == Spec => []HeadersTrue
<1>1. Init => HeadersTrue
  BY IdleAt DEF Init, HeadersTrue
<1> QED BY <1>1, TypeInit, TypeStep, HeadersStep, PTL DEF Spec

\* Every step keeps a part that a site needs where it can reach it.
LEMMA ReachesStep ==
    TypeOK /\ HeadersTrue /\ EveryPartReaches /\ [Next]_vars => EveryPartReaches'
<1> SUFFICES ASSUME TypeOK, HeadersTrue, EveryPartReaches, [Next]_vars,
                    NEW s \in Site, NEW t \in Sync[s],
                    NEW p \in store'[s] \cap Accepts[t]
             PROVE  \/ p \in store'[t]
                    \/ Under(t, p)'
                    \/ ToMail(s, t, p)'
                    \/ <<t, p>> \in lost'
  BY DEF EveryPartReaches
<1> DEFINE Safe == \/ p \in store'[t]
                   \/ Under(t, p)'
                   \/ ToMail(s, t, p)'
                   \/ <<t, p>> \in lost'
<1>t. t \in Site
  OBVIOUS
<1>b. p \in store[s] => \/ p \in store[t]
                        \/ Under(t, p)
                        \/ ToMail(s, t, p)
                        \/ <<t, p>> \in lost
  BY DEF EveryPartReaches
<1>g. p \in store[t] => Safe
  BY <1>t, StoresGrow
<1> DEFINE Busy(r) == r.at \in {"submit", "forward"}
           Kept == \A y \in Site, j \in Inst :
                       Busy(proc[y][j]) => proc'[y][j] = proc[y][j]
<1>k. ASSUME NEW x \in Site, NEW i \in Inst, NEW r, Goes(x, i, r), ~Busy(proc[x][i])
      PROVE  Kept
  BY <1>k, ProcAfter
<1>m. ASSUME Kept, ToMail(s, t, p) PROVE Safe
  BY <1>m DEF ToMail
<1>u. ASSUME Kept, NEW j \in Inst, proc[t][j].at = "submit", p \in proc[t][j].body
      PROVE  Safe
  BY <1>t, <1>u DEF Under
<1>v. ASSUME NEW m \in net' \cup spool'[t], m.to = t, p \in m.body
      PROVE  Safe
  BY <1>v DEF Under
<1>s. ASSUME Kept, net \subseteq net', UNCHANGED spool, lost \subseteq lost',
             p \in store[s]
      PROVE  Safe
  <2>1. CASE Under(t, p)
    BY <1>s, <1>u, <1>v, <2>1 DEF Under
  <2> QED BY <1>b, <1>g, <1>m, <1>s, <2>1
<1>c. \A r : r.at \in {"idle", "locking", "scan"} => ~Busy(r)
  OBVIOUS
<1> USE <1>t
<1> HIDE DEF Safe, Kept, Busy
<1>e. ASSUME UNCHANGED proc PROVE Kept
  BY <1>e DEF Kept
<1>1. ASSUME NEW x \in Site, NEW body \in SUBSET Part, UserMails(x, body)
      PROVE  Safe
  BY <1>1, <1>e, <1>s DEF UserMails
<1>2. ASSUME NEW x \in Site, NEW body \in SUBSET Part, WebAdds(x, body)
      PROVE  Safe
  <2>1. CASE p \in store[s]
    BY <1>2, <1>e, <1>s, <2>1 DEF WebAdds
  <2>2. CASE p \notin store[s]
    <3>1. x = s /\ p \in New(s, body)
      BY <1>2, <2>2 DEF WebAdds, TypeOK
    <3>2. CASE net' = net \cup Mails(Sync[s], New(s, body), {s})
      <4> DEFINE m == [to |-> t, body |-> New(s, body), seen |-> {s}]
      <4>1. m \in net'
        BY <3>2 DEF Mails
      <4>2. m.to = t /\ p \in m.body
        BY <3>1
      <4> HIDE DEF m
      <4> QED BY SMTT(30), <1>v, <4>1, <4>2
    <3>3. CASE lost' = lost \cup (Sync[s] \X New(s, body))
      BY <3>1, <3>3 DEF Safe
    <3> QED BY <1>2, <3>1, <3>2, <3>3 DEF WebAdds
  <2> QED BY <2>1, <2>2
<1>3. ASSUME NEW n \in net, NEW i \in Inst, Delivers(n, i)
      PROVE  Safe
  <2>0. n.to \in Site
    BY DEF TypeOK, Mail
  <2>1. Kept
    BY <1>3, <1>c, <1>k, <2>0 DEF Delivers
  <2>2. spool[t] \subseteq spool'[t] /\ (n.to = t => n \in spool'[t])
    BY <1>3, <2>0 DEF Delivers, TypeOK
  <2>3. net \subseteq net' \cup {n}
    BY <1>3 DEF Delivers
  <2>4. CASE Under(t, p)
    BY <1>u, <1>v, <2>1, <2>2, <2>3, <2>4 DEF Under
  <2>5. p \in store[s] /\ lost' = lost
    BY <1>3 DEF Delivers
  <2>6. CASE <<t, p>> \in lost
    BY <2>5, <2>6 DEF Safe
  <2> QED BY <1>b, <1>g, <1>m, <2>1, <2>4, <2>5, <2>6
<1>4. ASSUME NEW x \in Site, NEW i \in Inst, Locks(x, i)
      PROVE  Safe
  <2>1. Kept
    BY SMTT(30), <1>4, <1>c, <1>k DEF Locks
  <2> QED BY <1>4, <1>s, <2>1 DEF Locks
<1>5. ASSUME NEW x \in Site, NEW i \in Inst, NEW n \in spool[x], Takes(x, i, n)
      PROVE  Safe
  <2> DEFINE r == Doing("submit", proc[x][i].must \ {n}, n.body, n.seen)
  <2>1. r.at = "submit" /\ r.body = n.body
    BY DoingAt
  <2>2. Goes(x, i, r)
    BY SMTT(30), <1>5 DEF Takes
  <2> HIDE DEF r
  <2>3. Kept
    BY SMTT(30), <1>5, <1>c, <1>k, <2>2 DEF Takes
  <2>4. proc'[x][i] = r
    BY <2>2, ProcAfter
  <2>5. \A m \in spool[t] : m \in spool'[t] \/ (x = t /\ m = n)
    BY <1>5 DEF Takes, TypeOK
  <2>6. CASE x = t /\ p \in n.body
    BY <2>1, <2>4, <2>6 DEF Safe, Under
  <2>7. CASE Under(t, p)
    BY <1>5, <1>u, <1>v, <2>3, <2>5, <2>6, <2>7 DEF Under, Takes
  <2>8. p \in store[s] /\ lost' = lost
    BY <1>5 DEF Takes
  <2>9. CASE <<t, p>> \in lost
    BY <2>8, <2>9 DEF Safe
  <2> QED BY <1>b, <1>g, <1>m, <2>3, <2>7, <2>8, <2>9
<1>6. ASSUME NEW x \in Site, NEW i \in Inst, Submits(x, i)
      PROVE  Safe
  <2> DEFINE r == Doing("forward", proc[x][i].must, New(x, proc[x][i].body),
                        proc[x][i].seen)
  <2>1. /\ r.at = "forward"
        /\ r.body = New(x, proc[x][i].body)
        /\ r.seen = proc[x][i].seen
    BY DEF Doing
  <2>2. Goes(x, i, r)
    BY <1>6 DEF Submits
  <2> HIDE DEF r
  <2>3. /\ proc'[x][i] = r
        /\ \A y \in Site, j \in Inst : (y = x /\ j = i) \/ proc'[y][j] = proc[y][j]
    BY <2>2, ProcAfter
  <2>4. /\ proc[x][i].at = "submit"
        /\ store'[x] = store[x] \cup New(x, proc[x][i].body)
        /\ \A y \in Site \ {x} : store'[y] = store[y]
        /\ UNCHANGED <<net, spool, lost>>
    BY SMTT(30), <1>6 DEF Submits, TypeOK
  <2>5. CASE p \notin store[s]
    <3>1. x = s /\ p \in r.body /\ p \in proc[x][i].body
      BY <2>1, <2>4, <2>5 DEF New
    <3>2. CASE t \in proc[x][i].seen
      <4>1. Had(proc[x][i], store)
        BY <2>4 DEF HeadersTrue
      <4> QED BY <1>g, <3>1, <3>2, <4>1 DEF Had
    <3>3. CASE t \notin proc[x][i].seen
      BY <2>1, <2>3, <3>1, <3>3 DEF Safe, ToMail
    <3> QED BY <3>2, <3>3
  <2>6. ASSUME NEW j \in Inst, proc[t][j].at = "submit", p \in proc[t][j].body
        PROVE  Safe
    <3>1. CASE t = x /\ j = i
      BY <2>4, <2>6, <3>1 DEF New, Safe
    <3>2. CASE ~(t = x /\ j = i)
      BY <2>3, <2>6, <3>2 DEF Under, Safe
    <3> QED BY <3>1, <3>2
  <2>7. CASE Under(t, p)
    BY <1>v, <2>4, <2>6, <2>7 DEF Under
  <2>8. CASE ToMail(s, t, p)
    <3>1. PICK j \in Inst : proc[s][j].at = "forward" /\ p \in proc[s][j].body
                            /\ t \notin proc[s][j].seen
      BY <2>8 DEF ToMail
    <3>2. proc'[s][j] = proc[s][j]
      BY <2>3, <2>4, <3>1
    <3> QED BY <3>1, <3>2 DEF ToMail, Safe
  <2>9. CASE <<t, p>> \in lost
    BY <2>4, <2>9 DEF Safe
  <2> QED BY <1>b, <1>g, <2>5, <2>7, <2>8, <2>9
<1>7. ASSUME NEW x \in Site, NEW i \in Inst, Forwards(x, i)
      PROVE  Safe
  <2> DEFINE body == proc[x][i].body
             seen == proc[x][i].seen
  <2>1. /\ proc[x][i].at = "forward"
        /\ \A y \in Site, j \in Inst : (y = x /\ j = i) \/ proc'[y][j] = proc[y][j]
    <3> DEFINE r == Doing("scan", proc[x][i].must, {}, {})
    <3>1. proc[x][i].at = "forward" /\ Goes(x, i, r)
      BY <1>7 DEF Forwards
    <3> HIDE DEF r
    <3> QED BY <3>1, ProcAfter
  <2>2. net \subseteq net' /\ UNCHANGED <<store, spool, lost>>
    BY <1>7 DEF Forwards
  <2>3. ASSUME x = s, p \in body, t \notin seen
        PROVE  Safe
    <3> DEFINE m == [to |-> t, body |-> body, seen |-> seen \cup {s}]
    <3>1. m \in Mails(Unseen(s, seen), body, seen \cup {s})
      BY <2>3 DEF Mails, Unseen
    <3>2. m \in net'
      BY <1>7, <2>3, <3>1 DEF Forwards
    <3> QED BY SMTT(30), <1>v, <2>3, <3>2
  <2>4. ASSUME NEW j \in Inst, proc[t][j].at = "submit", p \in proc[t][j].body
        PROVE  Safe
    <3>1. proc'[t][j] = proc[t][j]
      BY <2>1, <2>4
    <3> QED BY <2>4, <3>1 DEF Under, Safe
  <2>5. CASE Under(t, p)
    BY <1>v, <2>2, <2>4, <2>5 DEF Under
  <2>6. CASE ToMail(s, t, p)
    <3>1. PICK j \in Inst : proc[s][j].at = "forward" /\ p \in proc[s][j].body
                            /\ t \notin proc[s][j].seen
      BY <2>6 DEF ToMail
    <3>2. CASE x = s /\ j = i
      BY <2>3, <3>1, <3>2
    <3>3. CASE ~(x = s /\ j = i)
      BY <2>1, <3>1, <3>3 DEF ToMail, Safe
    <3> QED BY <3>2, <3>3
  <2>7. CASE <<t, p>> \in lost
    BY <2>2, <2>7 DEF Safe
  <2> QED BY <1>b, <1>g, <2>2, <2>5, <2>6, <2>7
<1>8. ASSUME NEW x \in Site, NEW i \in Inst, Unlocks(x, i)
      PROVE  Safe
  <2>1. Kept
    BY <1>8, <1>c, <1>k DEF Unlocks
  <2> QED BY <1>8, <1>s, <2>1 DEF Unlocks
<1>9. ASSUME NEW n \in net, Loses(n)
      PROVE  Safe
  <2>1. /\ Kept
        /\ UNCHANGED <<store, spool>>
        /\ net' = net \ {n}
        /\ lost' = lost \cup ({n.to} \X n.body)
    BY <1>9, <1>e DEF Loses
  <2>2. CASE n.to = t /\ p \in n.body
    BY <2>1, <2>2 DEF Safe
  <2>3. CASE Under(t, p)
    BY <1>u, <1>v, <2>1, <2>2, <2>3 DEF Under
  <2>4. CASE <<t, p>> \in lost
    BY <2>1, <2>4 DEF Safe
  <2> QED BY <1>b, <1>g, <1>m, <2>1, <2>3, <2>4
<1>10. ASSUME NEW x \in Site, Crashes(x)
       PROVE  Safe
  <2>1. /\ UNCHANGED <<store, net, spool>>
        /\ lost' = lost \cup UNION {InHand(x, proc[x][i]) : i \in Inst}
        /\ \A y \in Site, j \in Inst : y # x => proc'[y][j] = proc[y][j]
    BY <1>10 DEF Crashes, TypeOK
  <2>2. ASSUME NEW j \in Inst, proc[t][j].at = "submit", p \in proc[t][j].body
        PROVE  Safe
    <3>1. CASE t = x
      <4>1. <<t, p>> \in InHand(x, proc[x][j])
        BY <2>2, <3>1 DEF InHand
      <4> QED BY <2>1, <4>1 DEF Safe
    <3>2. CASE t # x
      BY <2>1, <2>2, <3>2 DEF Under, Safe
    <3> QED BY <3>1, <3>2
  <2>3. CASE Under(t, p)
    BY <1>v, <2>1, <2>2, <2>3 DEF Under
  <2>4. CASE ToMail(s, t, p)
    <3>1. PICK j \in Inst : proc[s][j].at = "forward" /\ p \in proc[s][j].body
                            /\ t \notin proc[s][j].seen
      BY <2>4 DEF ToMail
    <3>2. CASE s = x
      <4>1. <<t, p>> \in InHand(x, proc[x][j])
        BY <3>1, <3>2 DEF InHand, Unseen
      <4> QED BY <2>1, <4>1 DEF Safe
    <3>3. CASE s # x
      BY <2>1, <3>1, <3>3 DEF ToMail, Safe
    <3> QED BY <3>2, <3>3
  <2>5. CASE <<t, p>> \in lost
    BY <2>1, <2>5 DEF Safe
  <2> QED BY <1>b, <1>g, <2>1, <2>3, <2>4, <2>5
<1>11. ASSUME NEW x \in Site, AdminUnlocks(x)
       PROVE  Safe
  BY <1>11, <1>e, <1>s DEF AdminUnlocks
<1>12. ASSUME UNCHANGED vars PROVE Safe
  <2>1. UNCHANGED <<store, net, spool, proc, lost>>
    BY <1>12 DEF vars
  <2>2. Kept
    BY <1>e, <2>1
  <2>3. p \in store[s] /\ net \subseteq net' /\ lost \subseteq lost'
    BY <2>1
  <2> QED BY <1>s, <2>1, <2>2, <2>3
<1>13. ASSUME NEW x \in Site, NEW i \in Inst, ProcStep(x, i)
       PROVE  Safe
  BY <1>4, <1>5, <1>6, <1>7, <1>8, <1>13 DEF ProcStep
<1>14. Safe
  BY <1>1, <1>2, <1>3, <1>9, <1>10, <1>11, <1>12, <1>13 DEF Next
<1> QED BY <1>14 DEF Safe

\* Whatever a site has, each site it syncs with and that accepts it has too, or
\* will be sent, or was denied by a fault: for any graph of syncsites, any
\* policies, and any number of submissions, processes and faults.
THEOREM EveryPartReachesAlways == Spec => []EveryPartReaches
<1>1. Init => EveryPartReaches
  BY DEF Init, EveryPartReaches
<1>2. Init => HeadersTrue
  BY IdleAt DEF Init, HeadersTrue
<1> QED BY <1>1, <1>2, TypeInit, TypeStep, HeadersStep, ReachesStep, PTL DEF Spec
=============================================================================
