------------------------------- MODULE Db4Open -------------------------------
(***************************************************************************)
(* Processes that open one Berkeley DB store whose files an older library  *)
(* has made: keydb_db4_init waits for the upgrade lock file, opens the     *)
(* environment, and runs db4_upgradedb when the versions do not match.     *)
(***************************************************************************)
EXTENDS Naturals, FiniteSets

CONSTANTS
    Proc,           \* processes
    NumFiles,       \* bound: the files of the store, upgraded one by one
    MaxFaults       \* bound: processes that die, lock files not written

ASSUME FilesAssumption == NumFiles \in Nat \ {0}

VARIABLES
    at,             \* where each process is
    lock,           \* the upgrade lock file is there
    env,            \* the environment: "old", "none" or "new"
    files,          \* how many files are upgraded
    place,          \* the file an upgrading process is at
    faults,
    stale           \* history: the lock file of a process that died

openvars == <<at, lock, env, files, place, faults, stale>>

OpenInit == /\ at = [p \in Proc |-> "stat"]
            /\ lock = FALSE
            /\ env = "old"
            /\ files = 0
            /\ place = [p \in Proc |-> 0]
            /\ faults = 0
            /\ stale = FALSE

To(p, a) == at' = [at EXCEPT ![p] = a]

\* A process is attached to the environment.
Attached == {p \in Proc : at[p] \in {"files", "running"}}

\* init: sleeps while there is a lock file.
Stats(p) == /\ at[p] = "stat"
            /\ ~lock
            /\ To(p, "env")
            /\ UNCHANGED <<lock, env, files, place, faults, stale>>

\* Opens the environment, which creates it when there is none.
OpensEnv(p) ==
    /\ at[p] = "env"
    /\ To(p, IF env = "old" THEN "lock" ELSE "files")
    /\ env' = IF env = "none" THEN "new" ELSE env
    /\ UNCHANGED <<lock, files, place, faults, stale>>

\* Mutant of Locks: without O_EXCL.
LocksShared(p) ==
    /\ at[p] = "lock"
    /\ lock' = TRUE
    /\ To(p, "remove")
    /\ UNCHANGED <<env, files, place, faults, stale>>

\* upgradedb: O_CREAT | O_EXCL; who comes second waits.
Locks(p) ==
    /\ at[p] = "lock"
    /\ lock' = TRUE
    /\ To(p, IF lock THEN "wait" ELSE "remove")
    /\ UNCHANGED <<env, files, place, faults, stale>>

\* The lock file cannot be made, or the process id cannot be written to it and
\* it is given up: init fails.
LockFails(p) ==
    /\ at[p] \in {"lock", "remove"}
    /\ faults < MaxFaults
    /\ faults' = faults + 1
    /\ lock' = (lock /\ at[p] # "remove")
    /\ To(p, "gone")
    /\ UNCHANGED <<env, files, place, stale>>

\* Removes the environment, unless somebody has it open.
RemovesEnv(p) ==
    /\ at[p] = "remove"
    /\ env' = IF Attached = {} THEN "none" ELSE env
    /\ To(p, "upgrade")
    /\ UNCHANGED <<lock, files, place, faults, stale>>

\* Upgrades one file; one that is upgraded already stays as it is.
Upgrades(p) ==
    /\ at[p] = "upgrade"
    /\ place[p] < NumFiles
    /\ place' = [place EXCEPT ![p] = @ + 1]
    /\ files' = IF place[p] = files THEN files + 1 ELSE files
    /\ UNCHANGED <<at, lock, env, faults, stale>>

\* Mutant of Unlocks: the lock file is left.
UnlocksNot(p) ==
    /\ at[p] = "upgrade"
    /\ place[p] = NumFiles
    /\ To(p, "reopen")
    /\ UNCHANGED <<lock, env, files, place, faults, stale>>

Unlocks(p) ==
    /\ at[p] = "upgrade"
    /\ place[p] = NumFiles
    /\ lock' = FALSE
    /\ place' = [place EXCEPT ![p] = 0]
    /\ To(p, "reopen")
    /\ UNCHANGED <<env, files, faults, stale>>

\* upgradedb: spins while there is a lock file.
Waits(p) ==
    /\ at[p] = "wait"
    /\ ~lock
    /\ To(p, "reopen")
    /\ UNCHANGED <<lock, env, files, place, faults, stale>>

\* init after the upgrade, with DB_RECOVER: the recovery does not look whether
\* others are attached, and those it cuts off end at their next transaction.
Reopens(p) ==
    /\ at[p] = "reopen"
    /\ \E cut \in SUBSET (IF env = "old" THEN {} ELSE Attached) :
          at' = [q \in Proc |->
                    IF q = p THEN IF env = "old" THEN "gone" ELSE "files"
                    ELSE IF q \in cut THEN "gone" ELSE at[q]]
    /\ env' = IF env = "old" THEN "old" ELSE "new"
    /\ UNCHANGED <<lock, files, place, faults, stale>>

\* Mutant of OpensFiles: the error of an old file is not looked at.
OpensFilesAnyhow(p) ==
    /\ at[p] = "files"
    /\ To(p, "running")
    /\ UNCHANGED <<lock, env, files, place, faults, stale>>

\* Opens the files in a transaction.  A file of an older version is an error:
\* the process cleans up and exits.
OpensFiles(p) ==
    /\ at[p] = "files"
    /\ To(p, IF files = NumFiles THEN "running" ELSE "gone")
    /\ UNCHANGED <<lock, env, files, place, faults, stale>>

\* cleanupdb at the end of a process.
Closes(p) == /\ at[p] = "running"
             /\ To(p, "gone")
             /\ UNCHANGED <<lock, env, files, place, faults, stale>>

\* A process dies; its lock file stays.
Dies(p) ==
    /\ at[p] # "gone"
    /\ faults < MaxFaults
    /\ faults' = faults + 1
    /\ stale' = (stale \/ at[p] \in {"remove", "upgrade"})
    /\ To(p, "gone")
    /\ UNCHANGED <<lock, env, files, place>>

OpenStep(p) ==
    \/ Stats(p) \/ OpensEnv(p) \/ Locks(p) \/ RemovesEnv(p) \/ Upgrades(p) \/ Unlocks(p)
    \/ Waits(p) \/ Reopens(p) \/ OpensFiles(p)

OpenNext == \E p \in Proc : OpenStep(p) \/ LockFails(p) \/ Closes(p) \/ Dies(p)

-----------------------------------------------------------------------------
\* The lock file lets one process at a time upgrade the files, also when others
\* found out that they are old before it had the lock.
OneUpgrader == Cardinality({p \in Proc : at[p] \in {"remove", "upgrade"}}) <= 1

\* No process serves from a store with a file of the older version.
RunningOnNew == (\E p \in Proc : at[p] = "running") => files = NumFiles

\* While the files are upgraded nobody else upgrades them and nobody serves.
UpgradeSafe == OneUpgrader /\ RunningOnNew

\* Every process gets out of the loops that wait for the lock file, unless one
\* that held it died.
AllOpen == \A p \in Proc : <>(at[p] \in {"running", "gone"} \/ stale)
=============================================================================
