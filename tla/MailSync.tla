------------------------------ MODULE MailSync ------------------------------
(***************************************************************************)
(* Key servers that keep each other up to date by mail: onak-mail.pl.in,   *)
(* started by the mail transport for every incoming mail, and sendsync.c,  *)
(* which mails the keys that the web server and keyd added.                *)
(*                                                                         *)
(* An onak-mail process spools its mail to a file, tries to create the     *)
(* lock file and exits if it exists.  The process that made the lock file  *)
(* goes through the directory: it reads a mail, unlinks it, runs onak -u   *)
(* add on it and mails what that printed to the sites that the mail's      *)
(* X-KeyServer-Sent headers do not name.                                   *)
(*                                                                         *)
(* A key is the set of its parts, onak -u add prints the parts that the    *)
(* site did not have (KeyMerge models the merge itself).  A mail between   *)
(* sites is a member of the set net: the transport may deliver mails in    *)
(* any order, and lose or duplicate them.                                  *)
(***************************************************************************)
EXTENDS Naturals

CONSTANTS
    Site, Part,
    Inst,           \* the onak-mail processes that may run at one site
    Sync,           \* syncsites of each site's configuration
    Accepts,        \* the parts that each site's cleaning policies let in
    MaxSubmits,     \* bound: mails of users and submissions to the web server
    MaxFaults       \* bound: lost, duplicated and unsent mails, crashes

ASSUME SyncAssumption == Sync \in [Site -> SUBSET Site]
ASSUME AcceptsAssumption == Accepts \in [Site -> SUBSET Part]
ASSUME BoundsAssumption == MaxSubmits \in Nat /\ MaxFaults \in Nat

VARIABLES
    store,      \* per site: the parts in its database
    net,        \* the mails under way
    spool,      \* per site: the mails in mail_dir
    lock,       \* per site: whether onak-mail.lck exists
    proc,       \* per site and process: what it is doing
    lost,       \* history: the <<site, part>> that a fault kept from a site
    submits, faults

vars == <<store, net, spool, lock, proc, lost, submits, faults>>

Mail == [to : Site, body : SUBSET Part, seen : SUBSET Site]

\* A process: what it is doing, the mails that its readdir still has to return,
\* the mail in hand.
Proc == [at : {"idle", "locking", "scan", "submit", "forward"},
         must : SUBSET Mail, body : SUBSET Part, seen : SUBSET Site]

Doing(at, must, body, seen) ==
    [at |-> at, must |-> must, body |-> body, seen |-> seen]

Idle == Doing("idle", {}, {}, {})

Init == /\ store = [s \in Site |-> {}]
        /\ net = {}
        /\ spool = [s \in Site |-> {}]
        /\ lock = [s \in Site |-> FALSE]
        /\ proc = [s \in Site |-> [i \in Inst |-> Idle]]
        /\ lost = {}
        /\ submits = 0
        /\ faults = 0

Fault == faults < MaxFaults /\ faults' = faults + 1

Mails(sites, body, seen) ==
    {[to |-> t, body |-> body, seen |-> seen] : t \in sites}

-----------------------------------------------------------------------------
(* Submissions *)

\* A user mails parts of a key to a site; a mail that is no ADD or INCREMENTAL
\* has nothing to add.
UserMails(s, body) ==
    /\ submits < MaxSubmits
    /\ submits' = submits + 1
    /\ net' = net \cup Mails({s}, body, {})
    /\ UNCHANGED <<store, spool, lock, proc, lost, faults>>

\* What update_keys leaves in the list of keys: the parts that the site did not
\* have.
New(s, body) == (body \cap Accepts[s]) \ store[s]

\* add.c and keyd's clients on behalf of a web user: update_keys, with
\* sendkeysync if anything was new.  The mail names this site alone; when
\* the transport cannot be started there is none.
WebAdds(s, body) ==
    /\ submits < MaxSubmits
    /\ submits' = submits + 1
    /\ store' = [store EXCEPT ![s] = @ \cup New(s, body)]
    /\ \/ /\ net' = IF New(s, body) = {} THEN net
                    ELSE net \cup Mails(Sync[s], New(s, body), {s})
          /\ UNCHANGED <<lost, faults>>
       \/ /\ Fault
          /\ lost' = lost \cup (Sync[s] \X New(s, body))
          /\ UNCHANGED net
    /\ UNCHANGED <<spool, lock, proc>>

-----------------------------------------------------------------------------
(* onak-mail *)

Goes(s, i, p) == proc' = [proc EXCEPT ![s][i] = p]

\* The transport starts onak-mail, which dumps the mail to a file of mail_dir.
\* The transport keeps a mail of whose process it does not hear; it then
\* delivers that mail again.
Delivers(m, i) ==
    /\ m \in net
    /\ proc[m.to][i].at = "idle"
    /\ spool' = [spool EXCEPT ![m.to] = @ \cup {m}]
    /\ Goes(m.to, i, Doing("locking", {}, {}, {}))
    /\ \/ net' = net \ {m} /\ UNCHANGED faults
       \/ Fault /\ UNCHANGED net
    /\ UNCHANGED <<store, lock, lost, submits>>

\* Mutant of Locks: the lock file is opened without O_EXCL.
LocksShared(s, i) ==
    /\ proc[s][i].at = "locking"
    /\ lock' = [lock EXCEPT ![s] = TRUE]
    /\ Goes(s, i, Doing("scan", spool[s], {}, {}))
    /\ UNCHANGED <<store, net, spool, lost, submits, faults>>

\* sysopen of the lock file with O_EXCL, exit when that fails, else opendir.
Locks(s, i) ==
    /\ proc[s][i].at = "locking"
    /\ IF lock[s]
       THEN Goes(s, i, Idle) /\ UNCHANGED lock
       ELSE /\ lock' = [lock EXCEPT ![s] = TRUE]
            /\ Goes(s, i, Doing("scan", spool[s], {}, {}))
    /\ UNCHANGED <<store, net, spool, lost, submits, faults>>

\* readdir returns a mail, which is read and unlinked.  It must return the
\* mails that were there at opendir, and may return later ones.
Takes(s, i, m) ==
    /\ proc[s][i].at = "scan"
    /\ m \in spool[s]
    /\ spool' = [spool EXCEPT ![s] = @ \ {m}]
    /\ Goes(s, i, Doing("submit", proc[s][i].must \ {m}, m.body, m.seen))
    /\ UNCHANGED <<store, net, lock, lost, submits, faults>>

\* submitupdate: onak -u add, whose output replaces the mail in hand.
Submits(s, i) ==
    /\ proc[s][i].at = "submit"
    /\ store' = [store EXCEPT ![s] = @ \cup New(s, proc[s][i].body)]
    /\ Goes(s, i, Doing("forward", proc[s][i].must, New(s, proc[s][i].body),
                         proc[s][i].seen))
    /\ UNCHANGED <<net, spool, lock, lost, submits, faults>>

\* Mutant of Unseen: mails of other sites go no further.
UnseenOfUsers(s, seen) == IF seen = {} THEN Sync[s] ELSE {}

\* The sites that the headers do not name.
Unseen(s, seen) == Sync[s] \ seen

\* Mutant of Forwards: the headers name the sites the mail is sent to.
ForwardsNamesAll(s, i) ==
    /\ proc[s][i].at = "forward"
    /\ net' = IF proc[s][i].body = {} THEN net
              ELSE net \cup Mails(Unseen(s, proc[s][i].seen), proc[s][i].body,
                                  proc[s][i].seen \cup Sync[s])
    /\ Goes(s, i, Doing("scan", proc[s][i].must, {}, {}))
    /\ UNCHANGED <<store, spool, lock, lost, submits, faults>>

\* Mutant of Forwards: no test for an empty update, and the headers name this
\* site alone.
ForwardsAlways(s, i) ==
    /\ proc[s][i].at = "forward"
    /\ net' = net \cup Mails(Unseen(s, proc[s][i].seen), proc[s][i].body, {s})
    /\ Goes(s, i, Doing("scan", proc[s][i].must, {}, {}))
    /\ UNCHANGED <<store, spool, lock, lost, submits, faults>>

\* The rest of processmail: if there is anything to sync, one mail for the
\* sites not seen, which names the sites seen and this one.
Forwards(s, i) ==
    /\ proc[s][i].at = "forward"
    /\ net' = IF proc[s][i].body = {} THEN net
              ELSE net \cup Mails(Unseen(s, proc[s][i].seen), proc[s][i].body,
                                  proc[s][i].seen \cup {s})
    /\ Goes(s, i, Doing("scan", proc[s][i].must, {}, {}))
    /\ UNCHANGED <<store, spool, lock, lost, submits, faults>>

\* readdir is done: closedir and unlink of the lock file.
Unlocks(s, i) ==
    /\ proc[s][i].at = "scan"
    /\ proc[s][i].must \cap spool[s] = {}
    /\ lock' = [lock EXCEPT ![s] = FALSE]
    /\ Goes(s, i, Idle)
    /\ UNCHANGED <<store, net, spool, lost, submits, faults>>

-----------------------------------------------------------------------------
(* Faults *)

Loses(m) == /\ m \in net
            /\ Fault
            /\ net' = net \ {m}
            /\ lost' = lost \cup ({m.to} \X m.body)
            /\ UNCHANGED <<store, spool, lock, proc, submits>>

\* What a process had in hand: a mail that was unlinked and not yet added, or
\* parts that were added and not yet mailed.
InHand(s, p) == CASE p.at = "submit" -> {s} \X p.body
                  [] p.at = "forward" -> Unseen(s, p.seen) \X p.body
                  [] OTHER -> {}

\* The machine restarts: the processes are gone, the files stay.
Crashes(s) ==
    /\ Fault
    /\ proc' = [proc EXCEPT ![s] = [i \in Inst |-> Idle]]
    /\ lost' = lost \cup UNION {InHand(s, proc[s][i]) : i \in Inst}
    /\ UNCHANGED <<store, net, spool, lock, submits>>

\* The administrator removes a lock file whose process is gone.
AdminUnlocks(s) ==
    /\ lock[s]
    /\ \A i \in Inst : proc[s][i].at \in {"idle", "locking"}
    /\ lock' = [lock EXCEPT ![s] = FALSE]
    /\ UNCHANGED <<store, net, spool, proc, lost, submits, faults>>

-----------------------------------------------------------------------------
ProcStep(s, i) == Locks(s, i) \/ (\E m \in spool[s] : Takes(s, i, m))
                  \/ Submits(s, i) \/ Forwards(s, i) \/ Unlocks(s, i)

Next == \/ \E s \in Site, body \in SUBSET Part : UserMails(s, body) \/ WebAdds(s, body)
        \/ \E m \in net, i \in Inst : Delivers(m, i)
        \/ \E s \in Site, i \in Inst : ProcStep(s, i)
        \/ \E m \in net : Loses(m)
        \/ \E s \in Site : Crashes(s) \/ AdminUnlocks(s)

\* Processes run, the transport delivers what is under way, and somebody looks
\* after stale lock files.
Fairness ==
    /\ \A s \in Site, i \in Inst : WF_vars(ProcStep(s, i))
    /\ WF_vars(\E m \in net, i \in Inst : Delivers(m, i))
    /\ \A s \in Site : WF_vars(AdminUnlocks(s))

Spec == Init /\ [][Next]_vars /\ Fairness

-----------------------------------------------------------------------------
\* The shape of the stores, of the mails wherever they are, and of the processes.
TypeOK == /\ store \in [Site -> SUBSET Part]
          /\ net \in SUBSET Mail
          /\ spool \in [Site -> SUBSET Mail]
          /\ lock \in [Site -> BOOLEAN]
          /\ proc \in [Site -> [Inst -> Proc]]
          /\ lost \in SUBSET (Site \X Part)
          /\ submits \in Nat
          /\ faults \in Nat

Processing(s, i) == proc[s][i].at \in {"scan", "submit", "forward"}

\* What the comment on the lock says: only one process of a site goes through
\* the mail queue, and while it does the lock file is there, also across
\* crashes and removals of stale lock files.
OneProcessor ==
    \A s \in Site, i \in Inst : Processing(s, i) =>
        lock[s] /\ \A j \in Inst \ {i} : ~Processing(s, j)

\* A part on its way to a site: in a mail under way, in the spool or in the
\* hand of a process that has not added it yet.
Under(t, p) ==
    \/ \E m \in net \cup spool[t] : m.to = t /\ p \in m.body
    \/ \E i \in Inst : proc[t][i].at = "submit" /\ p \in proc[t][i].body

\* A part that a process of s added and will mail to t.
ToMail(s, t, p) ==
    \E i \in Inst : /\ proc[s][i].at = "forward"
                    /\ p \in proc[s][i].body
                    /\ t \notin proc[s][i].seen

\* The X-KeyServer-Sent headers never keep a part from a site that needs it:
\* whatever a site has, each site it syncs with and that accepts it has too, or
\* will be sent, or was denied by a fault - in every order of deliveries,
\* submissions and restarts, and round every cycle of syncsites.
EveryPartReaches ==
    \A s \in Site : \A t \in Sync[s] : \A p \in store[s] \cap Accepts[t] :
        p \in store[t] \/ Under(t, p) \/ ToMail(s, t, p) \/ <<t, p>> \in lost

\* The sites that a mail, or a process with a mail in hand, names have what it
\* carries, as far as they accept it.
Had(m, stores) == \A t \in m.seen : m.body \cap Accepts[t] \subseteq stores[t]

\* A site that an X-KeyServer-Sent header names has what the mail carries:
\* skipping it is right however old the mail is, whatever the site was sent by
\* others meanwhile, and when the mail was cut down to what was new on its way.
HeadersTrue ==
    /\ \A m \in net : Had(m, store)
    /\ \A s \in Site : \A m \in spool[s] : Had(m, store)
    /\ \A s \in Site, i \in Inst :
          /\ proc[s][i].at \in {"submit", "forward"} => Had(proc[s][i], store)
          /\ proc[s][i].at = "forward" => proc[s][i].body \subseteq store[s]

\* No mail is under way and no process runs.
Quiet == net = {} /\ \A s \in Site, i \in Inst : proc[s][i].at = "idle"

\* Sites do not mail each other the same parts for ever: once the submissions
\* and the faults are over, onak-mail's forwarding comes to rest at all sites.
SettlesDown == <>[]Quiet
=============================================================================
