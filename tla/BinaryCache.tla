----------------------------- MODULE BinaryCache -----------------------------
(***************************************************************************)
(* One key of the binary cache and the processes that install, execute,    *)
(* update and remove it.  Source: src/src/installer/{cache.rs,binary/*}.   *)
(*                                                                         *)
(* A process is one command: the startup sweep, then one operation on the  *)
(* key.  Two operations of one process exclude each other as two processes *)
(* do, for each opens the lock file anew.  A lock is released at the drop  *)
(* of its guard: the worker that closes the file a little later delays     *)
(* only those who wait.  A rename is one step, and so is a removal, whose  *)
(* failure leaves a damaged directory behind.                              *)
(***************************************************************************)
EXTENDS FiniteSets

CONSTANTS
  Procs,         \* the processes
  Ops,           \* the operations they are run for
  Nobody,        \* no process
  MayCrash,      \* the processes that may be killed
  MayCancel,     \* the processes whose runtime may be torn down
  RestoreFails   \* whether the sweep's rename of a backup may fail

ASSUME NobodyAssumption == Nobody \notin Procs
ASSUME OpsAssumption    == Ops \subseteq {"run", "refresh", "uninstall", "prune"}

VARIABLES
  final,     \* the cache directory
  staging,   \* the work directory of an install, and its contents
  backup,    \* the directory an install preserved, and its contents
  pubLock,   \* who holds <key>-cache.lock
  readers,   \* who holds <key>-cache.use.lock shared
  writer,    \* who holds <key>-cache.use.lock exclusively
  pc, op,
  seen,      \* the work directories that the sweep listed
  detached   \* the installs whose future was dropped during publication

vars == <<final, staging, backup, pubLock, readers, writer, pc, op, seen, detached>>

dirs  == <<final, staging, backup>>
locks == <<pubLock, readers, writer>>

Entry == {"absent", "valid", "broken"}

Publication == {"preserve", "publish", "confirm", "dropBackup", "release",
                "unpublish", "restore", "discard"}

Pcs == {"scan", "sweepLock", "sweepRestore", "sweepClean", "lock", "useRead",
        "validate", "stage", "prepare", "useWrite", "lease", "use", "draining",
        "stopping", "list", "removeLock", "removeUse", "remove", "done"}
       \cup Publication

WorkDirs == {"staging", "backup"} \X Procs

TypeOK ==
  /\ final \in Entry
  /\ staging \in [Procs -> {"absent", "partial", "ready"}]
  /\ backup \in [Procs -> Entry]
  /\ pubLock \in Procs \cup {Nobody}
  /\ readers \subseteq Procs
  /\ writer \in Procs \cup {Nobody}
  /\ pc \in [Procs -> Pcs]
  /\ op \in [Procs -> Ops]
  /\ seen \in [Procs -> SUBSET WorkDirs]
  /\ detached \subseteq Procs

Init ==
  /\ final \in Entry
  /\ staging = [p \in Procs |-> "absent"]
  /\ backup = [p \in Procs |-> "absent"]
  /\ pubLock = Nobody /\ readers = {} /\ writer = Nobody
  /\ pc = [p \in Procs |-> "scan"]
  /\ op \in [Procs -> Ops]
  /\ seen = [p \in Procs |-> {}]
  /\ detached = {}

Installs(p) == op[p] \in {"run", "refresh"}

Go(p, l) == pc' = [pc EXCEPT ![p] = l]

\* From one label to the next, with the rest of the process's state unchanged.
Step(p, from, to) == pc[p] = from /\ Go(p, to) /\ UNCHANGED <<op, seen, detached>>

\* The locks a process holds are released when its guards drop, or by the
\* system when it dies.
ReleaseAll(p) ==
  /\ pubLock' = IF pubLock = p THEN Nobody ELSE pubLock
  /\ writer' = IF writer = p THEN Nobody ELSE writer
  /\ readers' = readers \ {p}

\* Mutations: the lock does not exclude; the write lock ignores the readers.
LockIsShared   == pubLock \in Procs \cup {Nobody}
IgnoresReaders == writer = Nobody

PubLockIsFree == pubLock = Nobody
ReadIsFree    == writer = Nobody
WriteIsFree   == writer = Nobody /\ readers = {}

-----------------------------------------------------------------------------
(***************************************************************************)
(* The sweep at the start of every process.                                *)
(***************************************************************************)
BeginOp(p) ==
  /\ Go(p, IF Installs(p) THEN "lock" ELSE "list")
  /\ seen' = [seen EXCEPT ![p] = {}]

Existing == {d \in WorkDirs : IF d[1] = "staging" THEN staging[d[2]] # "absent"
                                                  ELSE backup[d[2]] # "absent"}

\* The directories are listed before any lock is taken.
Scan(p) ==
  /\ pc[p] = "scan"
  /\ IF Existing = {}
     THEN BeginOp(p)
     ELSE Go(p, "sweepLock") /\ seen' = [seen EXCEPT ![p] = Existing]
  /\ UNCHANGED <<dirs, locks, op, detached>>

\* The sweep never waits: a key that is locked is skipped, and so is one whose
\* lock file cannot be opened.
SweepLock(p) ==
  /\ pc[p] = "sweepLock"
  /\ \/ /\ PubLockIsFree
        /\ pubLock' = p
        /\ Go(p, "sweepRestore") /\ UNCHANGED seen
     \/ BeginOp(p) /\ UNCHANGED pubLock
  /\ UNCHANGED <<dirs, readers, writer, op, detached>>

\* The probe of the final directory fails: nothing may be deleted.
SweepGiveUp(p) ==
  /\ pc[p] = "sweepRestore"
  /\ BeginOp(p)
  /\ ReleaseAll(p)
  /\ UNCHANGED <<dirs, op, detached>>

Restorable(p) == {q \in Procs : <<"backup", q>> \in seen[p] /\ backup[q] # "absent"}

\* Mutation: the place is filled only when it holds a broken entry.
FinalIsBroken == final = "broken"

FinalIsMissing == final = "absent"

\* Mutation: any work directory is restored, whatever it is.
RestoreAny(p) ==
  /\ Step(p, "sweepRestore", "sweepClean")
  /\ \E d \in seen[p] :
       final' = IF d[1] = "staging" THEN staging[d[2]] ELSE backup[d[2]]
  /\ UNCHANGED <<staging, backup, locks>>

\* Backups are tried in the reverse order of their names, which begin with the
\* pid of their process as a string: any of them may be the first.
SweepRestore(p) ==
  /\ Step(p, "sweepRestore", "sweepClean")
  /\ \/ \E q \in Restorable(p) :
          /\ FinalIsMissing
          /\ final' = backup[q]
          /\ backup' = [backup EXCEPT ![q] = "absent"]
     \/ /\ ~FinalIsMissing \/ Restorable(p) = {} \/ RestoreFails
        /\ UNCHANGED <<final, backup>>
  /\ UNCHANGED <<staging, locks>>

\* One directory of the list: removed, damaged by a removal that failed, or
\* gone already.
SweepClean(p) ==
  /\ pc[p] = "sweepClean"
  /\ \E d \in seen[p] :
       /\ seen' = [seen EXCEPT ![p] = @ \ {d}]
       /\ \/ /\ d[1] = "staging" /\ UNCHANGED backup
             /\ \E rest \in {"absent", "partial"} :
                  staging' = [staging EXCEPT ![d[2]] = IF @ = "absent" THEN @ ELSE rest]
          \/ /\ d[1] = "backup" /\ UNCHANGED staging
             /\ \E rest \in {"absent", "broken"} :
                  backup' = [backup EXCEPT ![d[2]] = IF @ = "absent" THEN @ ELSE rest]
  /\ UNCHANGED <<final, locks, pc, op, detached>>

SweepEnd(p) ==
  /\ pc[p] = "sweepClean" /\ seen[p] = {}
  /\ BeginOp(p)
  /\ ReleaseAll(p)
  /\ UNCHANGED <<dirs, op, detached>>

-----------------------------------------------------------------------------
(***************************************************************************)
(* cache_binary_target_in_mode: "run" with force_refresh unset, "refresh"  *)
(* with it set.                                                            *)
(***************************************************************************)
Lock(p) ==
  /\ Step(p, "lock", "useRead")
  /\ PubLockIsFree
  /\ pubLock' = p
  /\ UNCHANGED <<dirs, readers, writer>>

UseRead(p) ==
  /\ Step(p, "useRead", "validate")
  /\ ReadIsFree
  /\ readers' = readers \cup {p}
  /\ UNCHANGED <<dirs, pubLock, writer>>

\* A hit returns the read lease and drops the publication lock.
Hit(p) ==
  /\ Step(p, "validate", "use")
  /\ final = "valid"
  /\ pubLock' = Nobody
  /\ UNCHANGED <<dirs, readers, writer>>

\* Mutation: the lease is kept.
KeepLease(p) == UNCHANGED readers

\* The lease is dropped before the same process asks for the write lock.
DropLease(p) == readers' = readers \ {p}

\* A valid entry is missed too when the executable or its command cannot be
\* inspected: the validation reads such an error as a miss.
Miss(p) ==
  /\ Step(p, "validate", "stage")
  /\ DropLease(p)
  /\ UNCHANGED <<dirs, pubLock, writer>>

Stage(p) ==
  /\ Step(p, "stage", "prepare")
  /\ staging' = [staging EXCEPT ![p] = "partial"]
  /\ UNCHANGED <<final, backup, locks>>

\* Download, extraction and hashing, all in the work directory.
Prepare(p) ==
  /\ Step(p, "prepare", "useWrite")
  /\ staging' = [staging EXCEPT ![p] = "ready"]
  /\ UNCHANGED <<final, backup, locks>>

UseWrite(p) ==
  /\ Step(p, "useWrite", "preserve")
  /\ WriteIsFree
  /\ writer' = p
  /\ UNCHANGED <<dirs, pubLock, readers>>

-----------------------------------------------------------------------------
(***************************************************************************)
(* PromotionTransaction, on a blocking worker that holds both locks.       *)
(***************************************************************************)
NothingToPreserve(p) ==
  /\ Step(p, "preserve", "publish")
  /\ final = "absent"
  /\ UNCHANGED <<dirs, locks>>

\* The entry that was missed turns out to be valid: the new one is discarded.
Superseded(p) ==
  /\ Step(p, "preserve", "release")
  /\ final = "valid" /\ op[p] = "run"
  /\ staging' = [staging EXCEPT ![p] = "absent"]
  /\ UNCHANGED <<final, backup, locks>>

Preserve(p) ==
  /\ Step(p, "preserve", "publish")
  /\ final # "absent"
  /\ backup' = [backup EXCEPT ![p] = final]
  /\ final' = "absent"
  /\ UNCHANGED <<staging, locks>>

Publish(p) ==
  /\ Step(p, "publish", "confirm")
  /\ final = "absent"
  /\ final' = "valid"
  /\ staging' = [staging EXCEPT ![p] = "absent"]
  /\ UNCHANGED <<backup, locks>>

Confirm(p) ==
  /\ Step(p, "confirm", "dropBackup")
  /\ final = "valid"
  /\ UNCHANGED <<dirs, locks>>

\* A backup that cannot be removed is left to the sweep.
DropBackup(p) ==
  /\ Step(p, "dropBackup", "release")
  /\ \E rest \in {"absent", "broken"} :
       backup' = [backup EXCEPT ![p] = IF @ = "absent" THEN @ ELSE rest]
  /\ UNCHANGED <<final, staging, locks>>

\* An error of the transaction starts its Drop, after Publish with the removal
\* of what was published.
Undo(p) ==
  /\ \/ Step(p, "preserve", "discard")
     \/ Step(p, "publish", "restore")
     \/ Step(p, "confirm", "unpublish")
  /\ UNCHANGED <<dirs, locks>>

Unpublish(p) ==
  /\ Step(p, "unpublish", "restore")
  /\ final' \in {"absent", "broken"}
  /\ UNCHANGED <<staging, backup, locks>>

Restore(p) ==
  /\ Step(p, "restore", "discard")
  /\ \/ /\ backup[p] # "absent" /\ final = "absent"
        /\ final' = backup[p]
        /\ backup' = [backup EXCEPT ![p] = "absent"]
     \/ UNCHANGED <<final, backup>>
  /\ UNCHANGED <<staging, locks>>

Discard(p) ==
  /\ Step(p, "discard", "done")
  /\ \E rest \in {"absent", "partial"} :
       staging' = [staging EXCEPT ![p] = IF @ = "absent" THEN @ ELSE rest]
  /\ ReleaseAll(p)
  /\ UNCHANGED <<final, backup>>

\* The write lock goes first; the publication lock, which the caller still
\* holds, keeps removers out until the read lease is taken.
Release(p) ==
  /\ p \notin detached
  /\ Step(p, "release", "lease")
  /\ writer' = Nobody
  /\ UNCHANGED <<dirs, pubLock, readers>>

\* Nobody awaits the transaction: the last guards of both locks drop with it.
ReleaseDetached(p) ==
  /\ p \in detached
  /\ Step(p, "release", "done")
  /\ ReleaseAll(p)
  /\ UNCHANGED dirs

Lease(p) ==
  /\ Step(p, "lease", "use")
  /\ ReadIsFree
  /\ readers' = readers \cup {p}
  /\ pubLock' = Nobody
  /\ UNCHANGED <<dirs, writer>>

\* The agent, or the route that serves it, ends and drops the lease.
EndUse(p) ==
  /\ Step(p, "use", "done")
  /\ ReleaseAll(p)
  /\ UNCHANGED dirs

-----------------------------------------------------------------------------
(***************************************************************************)
(* remove_cached_entries: "uninstall" waits for the entry, "prune", of an  *)
(* update that published another key, skips it when it is busy.            *)
(***************************************************************************)
List(p) ==
  /\ Step(p, "list", IF final = "absent" THEN "done" ELSE "removeLock")
  /\ UNCHANGED <<dirs, locks>>

RemoveLock(p) ==
  /\ Step(p, "removeLock", "removeUse")
  /\ PubLockIsFree
  /\ pubLock' = p
  /\ UNCHANGED <<dirs, readers, writer>>

RemoveUse(p) ==
  /\ Step(p, "removeUse", "remove")
  /\ WriteIsFree
  /\ writer' = p
  /\ UNCHANGED <<dirs, pubLock, readers>>

\* Mutation: an update waits for the entries that it replaces.
NeverSkip(p) == op[p] = "refresh"

MaySkip(p) == op[p] = "prune"

SkipBusy(p) ==
  /\ MaySkip(p)
  /\ \/ Step(p, "removeLock", "done") /\ ~PubLockIsFree
     \/ Step(p, "removeUse", "done") /\ ~WriteIsFree
  /\ ReleaseAll(p)
  /\ UNCHANGED dirs

Remove(p) ==
  /\ Step(p, "remove", "done")
  /\ final' \in IF final = "absent" THEN {"absent"} ELSE {"absent", "broken"}
  /\ ReleaseAll(p)
  /\ UNCHANGED <<staging, backup>>

-----------------------------------------------------------------------------
(***************************************************************************)
(* An error outside of a publication, or a future that is dropped while it *)
(* waits for a lock: the work directory is removed, as far as that works,  *)
(* the guards drop and the command ends.                                   *)
(***************************************************************************)
Fail(p) ==
  /\ \E from \in {"lock", "useRead", "validate", "stage", "prepare", "useWrite",
                   "lease", "removeLock", "removeUse"} : Step(p, from, "done")
  /\ ReleaseAll(p)
  /\ \/ staging' = [staging EXCEPT ![p] = "absent"]
     \/ UNCHANGED staging
  /\ UNCHANGED <<final, backup>>

(***************************************************************************)
(* A killed process loses its locks and leaves its directories.  A removal *)
(* that it was about to make may have begun.                               *)
(***************************************************************************)
Removing(p) == pc[p] \in {"remove", "unpublish"}

Crash(p) ==
  /\ p \in MayCrash
  /\ pc[p] # "done"
  /\ Go(p, "done")
  /\ ReleaseAll(p)
  /\ IF Removing(p) /\ final # "absent"
     THEN final' \in {final, "broken"}
     ELSE UNCHANGED final
  /\ seen' = [seen EXCEPT ![p] = {}]
  /\ detached' = detached \ {p}
  /\ UNCHANGED <<staging, backup, op>>

(***************************************************************************)
(* The future of an install is dropped.  The blocking tasks go on: the     *)
(* validation with its lease, the extraction until it sees the flag, and a *)
(* publication, with both locks, to its end.                               *)
(***************************************************************************)
CancelValidate(p) ==
  /\ p \in MayCancel
  /\ Step(p, "validate", "draining")
  /\ pubLock' = Nobody
  /\ UNCHANGED <<dirs, readers, writer>>

Drained(p) ==
  /\ Step(p, "draining", "done")
  /\ DropLease(p)
  /\ UNCHANGED <<dirs, pubLock, writer>>

\* The runtime that is shut down drops the task that would remove the
\* directory after the extraction, and the lock with it.
CancelPrepare(p) ==
  /\ p \in MayCancel
  /\ Step(p, "prepare", "stopping")
  /\ ReleaseAll(p)
  /\ UNCHANGED dirs

\* What the extraction still wrote may be there, whoever removed the rest.
Stopped(p) ==
  /\ Step(p, "stopping", "done")
  /\ \E rest \in {"absent", "partial"} : staging' = [staging EXCEPT ![p] = rest]
  /\ UNCHANGED <<final, backup, locks>>

\* Mutation: the publication lock belongs to the future, not to the transaction.
CancelUnlocks(p) ==
  /\ p \in MayCancel \ detached
  /\ pc[p] \in Publication
  /\ detached' = detached \cup {p}
  /\ pubLock' = Nobody
  /\ UNCHANGED <<dirs, readers, writer, pc, op, seen>>

CancelPublication(p) ==
  /\ p \in MayCancel \ detached
  /\ pc[p] \in Publication
  /\ detached' = detached \cup {p}
  /\ UNCHANGED <<dirs, locks, pc, op, seen>>

-----------------------------------------------------------------------------
Sweep(p) == \/ Scan(p) \/ SweepLock(p) \/ SweepGiveUp(p) \/ SweepRestore(p)
            \/ SweepClean(p) \/ SweepEnd(p)

Install(p) == \/ Lock(p) \/ UseRead(p) \/ Hit(p) \/ Miss(p) \/ Stage(p)
              \/ Prepare(p) \/ UseWrite(p) \/ Lease(p)

Promote(p) == \/ NothingToPreserve(p) \/ Superseded(p) \/ Preserve(p) \/ Publish(p)
              \/ Confirm(p) \/ DropBackup(p) \/ Undo(p) \/ Unpublish(p) \/ Restore(p)
              \/ Discard(p) \/ Release(p) \/ ReleaseDetached(p)

Uninstall(p) == \/ List(p) \/ RemoveLock(p) \/ RemoveUse(p) \/ SkipBusy(p) \/ Remove(p)

Drain(p) == Drained(p) \/ Stopped(p)

Cancel(p) == CancelValidate(p) \/ CancelPrepare(p) \/ CancelPublication(p)

Work(p) == Sweep(p) \/ Install(p) \/ Promote(p) \/ Uninstall(p) \/ Drain(p)

Next == \E p \in Procs : Work(p) \/ EndUse(p) \/ Fail(p) \/ Crash(p) \/ Cancel(p)

Spec == Init /\ [][Next]_vars

\* Threads are scheduled and a lock that stays free is granted.
FairSpec == Spec /\ \A p \in Procs : WF_vars(Work(p))

\* Whether agents end is up to their clients.
AgentsEnd == \A p \in Procs : WF_vars(EndUse(p))

-----------------------------------------------------------------------------
(***************************************************************************)
(* Properties.                                                             *)
(***************************************************************************)

\* What a process executes under its lease is a validated entry: no install,
\* update, uninstall or recovery of another process, killed or not, replaces
\* or removes it (cache.rs:151, install.rs:139).
LeasedEntryIsValid == \A p \in Procs : pc[p] = "use" => final = "valid"

\* The work directory of an install that goes on is only ever changed by that
\* install: no sweep takes it for an abandoned one (install.rs:88-91).
Building(p) == pc[p] \in {"prepare", "useWrite"} \cup Publication

ActiveWorkIsKept ==
  [][\A p \in Procs : Building(p) /\ staging'[p] # staging[p] => pc'[p] # pc[p]]_vars

\* A step that gives up the valid copy that p has preserved: a valid entry is
\* in its place, or a sweep deletes a copy that it has listed and something,
\* damaged, is there.
KeepsCopy(p) ==
  backup[p] = "valid" /\ backup'[p] # "valid" =>
    \/ final' = "valid"
    \/ /\ final' = "broken"
       /\ \E q \in Procs : pc[q] = "sweepClean" /\ <<"backup", p>> \in seen[q] \ seen'[q]

\* A publication that finishes, fails, is killed or is detached gives a valid
\* copy up for a valid entry only (publication.rs:144-148), and a sweep never
\* deletes one while nothing is in the entry's place (recovery.rs:77-80).  A
\* sweep does not ask whether what is there is valid.
PreservedCopyIsKept == [][\A p \in Procs : KeepsCopy(p)]_vars

\* An entry is replaced or removed by a process that holds both locks, except
\* that the sweep fills an empty place with the publication lock alone.
EntryChangesUnderLocks ==
  [][final' # final =>
       pubLock # Nobody /\ (final # "absent" => writer = pubLock /\ readers = {})]_vars

\* Every operation ends once the agents do: the two locks of a key are taken in
\* one order and never while the other is awaited in reverse.
OperationsEnd == AgentsEnd => \A p \in Procs : <>(pc[p] = "done")

\* Neither the sweep nor the pruning of an update waits, for an agent that runs
\* or for a remover that waits for one (cache.rs:180-183, cache.rs:449-452).
NeverWaitsForAgents ==
  \A p \in Procs : <>(pc[p] \notin {"scan", "sweepLock", "sweepRestore", "sweepClean"}
                      /\ (op[p] = "prune" => pc[p] = "done"))
=============================================================================
